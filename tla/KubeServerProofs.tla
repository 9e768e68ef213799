--------------------------- MODULE KubeServerProofs ---------------------------
(***************************************************************************)
(* Proofs about KubeServerLifecycle, for any number of users, tokens and   *)
(* clusters and any set of faults.                                         *)
(***************************************************************************)
EXTENDS KubeServerLifecycle, TLAPS

---------------------------------------------------------------------------
(* Type correctness.                                                       *)

\* The initial state is well typed.
LEMMA InitTyped == Init => TypeOK
  BY DEF Init, TypeOK, Phases

\* The calls of the cluster manager keep the types of what they may change.
LEMMA ClusterCallsTyped ==
    ASSUME NEW u \in Users, NEW t, TypeOK,
           \/ StartSparkCluster(u)
           \/ StopSparkCluster(u, t) /\ UNCHANGED envAddress
    PROVE  /\ hubAddress' \in Addresses \cup {NoAddress}
           /\ envAddress' \in [Users -> Addresses \cup {NoAddress}]
           /\ cluster' \in [Users -> Nat]
           /\ made' \in [Users -> Nat]
           /\ faulted' \subseteq FaultKinds
  <1>1. NewAddress(u) \in Addresses
    BY DEF NewAddress, Addresses, TypeOK
  <1>2. CASE StartSparkCluster(u)
    BY <1>1, <1>2, ConfigAssumption
    DEF StartSparkCluster, CreateOk, CreateFails, CreateLost, MakeCluster,
        Fault, NoFault, TypeOK
  <1>3. CASE StopSparkCluster(u, t) /\ UNCHANGED envAddress
    BY <1>3, ConfigAssumption
    DEF StopSparkCluster, DeleteOk, DeleteFails, DeleteLost, Fault, NoFault, TypeOK
  <1>. QED BY <1>2, <1>3

\* stop() keeps the types.
LEMMA StopTyped ==
    ASSUME NEW u \in Users, NEW p \in Phases, TypeOK, Stop(u, p)
    PROVE  TypeOK'
  <1>1. StopSparkCluster(u, envToken[u]) /\ UNCHANGED envAddress
    BY DEF Stop, spawnerVars
  <1>2. /\ hubAddress' \in Addresses \cup {NoAddress}
        /\ cluster' \in [Users -> Nat]
        /\ made' \in [Users -> Nat]
        /\ faulted' \subseteq FaultKinds
    BY <1>1, ClusterCallsTyped
  <1>. QED
    BY <1>2 DEF Stop, To, spawnerVars, podVars, userVars, TypeOK, Phases

\* Dropping a server without a stop keeps the types.
LEMMA ForgetTyped ==
    ASSUME NEW u \in Users, TypeOK, Forget(u)
    PROVE  TypeOK'
  BY DEF Forget, To, FreshSpawner, NoFault, processVars, podVars, clusterVars,
         userVars, TypeOK, Phases

\* A pod that leaves keeps the types of what it takes along.
LEMMA PodLeavesTyped ==
    ASSUME TypeOK, NEW u \in Users, NEW state \in {"none", "exited"}, PodLeaves(u, state)
    PROVE  /\ pod' \in [Users -> {"none", "running", "exited"}]
           /\ podAddress' \in [Users -> Addresses \cup {NoAddress}]
           /\ idle' \in [Users -> BOOLEAN]
  BY DEF PodLeaves, TypeOK

\* A launch that was given up, and what it still does, keeps the types.
LEMMA LateTyped ==
    ASSUME TypeOK, NEW u \in Users, LaunchTimesOut(u) \/ LateLaunch(u)
    PROVE  TypeOK'
  <1>. USE ConfigAssumption DEF TypeOK, Phases, To, Fault, NoFault, processVars,
        spawnerVars, podVars, clusterVars, userVars
  <1>1. CASE LaunchTimesOut(u)
    <2>1. [token |-> envToken[u], address |-> envAddress[u],
           replacing |-> phase[u] = "replacing"] \in LateLaunches
      BY DEF LateLaunches
    <2>2. late' \in [Users -> SUBSET LateLaunches]
      BY <1>1, <2>1 DEF LaunchTimesOut
    <2>3. faulted' \subseteq FaultKinds
      BY <1>1 DEF LaunchTimesOut
    <2>. QED BY <1>1, <2>2, <2>3 DEF LaunchTimesOut
  <1>2. ASSUME NEW l \in late[u], LateCreatePod(u, l) PROVE TypeOK'
    <2>1. late' \in [Users -> SUBSET LateLaunches]
      BY <1>2 DEF LateCreatePod
    <2>2. l.address \in Addresses \cup {NoAddress}
      BY DEF LateLaunches
    <2>3. pod' \in [Users -> {"none", "running", "exited"}]
      BY <1>2 DEF LateCreatePod
    <2>4. podAddress' \in [Users -> Addresses \cup {NoAddress}]
      BY <1>2, <2>2 DEF LateCreatePod
    <2>. QED BY <1>2, <2>1, <2>3, <2>4 DEF LateCreatePod
  <1>0. ASSUME NEW l \in late[u], NEW b \in BOOLEAN
        PROVE  [l EXCEPT !.replacing = b] \in LateLaunches
    BY <1>0 DEF LateLaunches
  <1>3. ASSUME NEW l \in late[u], LateReplacePod(u, l) PROVE TypeOK'
    <2>1. /\ hubAddress' \in Addresses \cup {NoAddress}
          /\ cluster' \in [Users -> Nat]
          /\ made' \in [Users -> Nat]
          /\ faulted' \subseteq FaultKinds
      BY <1>3, ClusterCallsTyped DEF LateReplacePod
    <2>2. late' \in [Users -> SUBSET LateLaunches]
      BY <1>0, <1>3 DEF LateReplacePod
    <2>. QED BY <1>3, <2>1, <2>2 DEF LateReplacePod
  <1>4. ASSUME NEW l \in late[u], LatePodReplaced(u, l) PROVE TypeOK'
    <2>1. late' \in [Users -> SUBSET LateLaunches]
      BY <1>0, <1>4 DEF LatePodReplaced
    <2>. QED BY <1>4, <2>1, PodLeavesTyped DEF LatePodReplaced
  <1>. QED BY <1>1, <1>2, <1>3, <1>4 DEF LateLaunch

\* Every step keeps the types.
LEMMA NextTyped == TypeOK /\ [Next]_vars => TypeOK'
  <1>. SUFFICES ASSUME TypeOK, [Next]_vars PROVE TypeOK'
    OBVIOUS
  <1>. USE ConfigAssumption DEF TypeOK, Phases, To, Fault, NoFault, processVars,
        spawnerVars, podVars, clusterVars, userVars
  <1>1. ASSUME NEW u \in Users, RequestSpawn(u) PROVE TypeOK'
    BY <1>1 DEF RequestSpawn
  <1>2. ASSUME NEW u \in Users, Configure(u) PROVE TypeOK'
    BY <1>2 DEF Configure
  <1>3. ASSUME NEW u \in Users, CreateCluster(u) PROVE TypeOK'
    <2>1. /\ hubAddress' \in Addresses \cup {NoAddress}
          /\ envAddress' \in [Users -> Addresses \cup {NoAddress}]
          /\ cluster' \in [Users -> Nat]
          /\ made' \in [Users -> Nat]
          /\ faulted' \subseteq FaultKinds
      BY <1>3, ClusterCallsTyped DEF CreateCluster
    <2>. QED BY <1>3, <2>1 DEF CreateCluster
  <1>4. ASSUME NEW u \in Users, CreatePod(u) \/ PodReplaced(u) PROVE TypeOK'
    BY <1>4, PodLeavesTyped DEF CreatePod, PodReplaced
  <1>5. ASSUME NEW u \in Users, ReplacePod(u) PROVE TypeOK'
    <2>1. /\ hubAddress' \in Addresses \cup {NoAddress}
          /\ cluster' \in [Users -> Nat]
          /\ made' \in [Users -> Nat]
          /\ faulted' \subseteq FaultKinds
      BY <1>5, ClusterCallsTyped DEF ReplacePod
    <2>. QED BY <1>5, <2>1 DEF ReplacePod
  <1>6. ASSUME NEW u \in Users, PodReady(u) \/ PodEndsEarly(u) PROVE TypeOK'
    BY <1>6 DEF PodReady, PodEndsEarly
  <1>7. ASSUME NEW u \in Users, Poll(u) \/ UserStop(u) \/ AbortSpawn(u)
        PROVE  TypeOK'
    <2>1. Stop(u, "stopping") \/ Stop(u, "culling") \/ Forget(u)
      BY <1>7 DEF Poll, UserStop, AbortSpawn
    <2>. QED BY <2>1, StopTyped, ForgetTyped
  <1>8. ASSUME NEW u \in Users, FinishStop(u) PROVE TypeOK'
    BY <1>8, PodLeavesTyped DEF FinishStop, FreshSpawner
  <1>17. ASSUME NEW u \in Users, StopFails(u) PROVE TypeOK'
    <2>1. faulted' \subseteq FaultKinds
      BY <1>17 DEF StopFails
    <2>2. phase' \in [Users -> Phases]
      BY <1>17 DEF StopFails
    <2>3. FreshSpawner(u) \/ UNCHANGED spawnerVars
      BY <1>17 DEF StopFails
    <2>4. /\ envToken' \in [Users -> Tokens \cup {NoToken}]
          /\ envAddress' \in [Users -> Addresses \cup {NoAddress}]
          /\ timeoutSet' \in [Users -> BOOLEAN]
      BY <2>3 DEF FreshSpawner
    <2>. QED BY <1>17, <2>1, <2>2, <2>4 DEF StopFails
  <1>9. ASSUME NEW u \in Users, ContainerExits(u) \/ RemovePod(u) PROVE TypeOK'
    BY <1>9, PodLeavesTyped DEF ContainerExits, RemovePod
  <1>10. ASSUME NEW u \in Users, NEW t \in Tokens, Login(u, t) \/ Expire(u, t)
         PROVE  TypeOK'
    BY <1>10 DEF Login, Expire
  <1>11. ASSUME NEW u \in Users, NEW b \in BOOLEAN, SetIdle(u, b) PROVE TypeOK'
    BY <1>11 DEF SetIdle
  <1>12. CASE Crash
    BY <1>12 DEF Crash
  <1>13. CASE Restart
    BY <1>13 DEF Restart
  <1>14. CASE UNCHANGED vars
    BY <1>14 DEF vars
  <1>15. ASSUME NEW u \in Users, LaunchTimesOut(u) \/ LateLaunch(u) PROVE TypeOK'
    BY <1>15, LateTyped
  <1>16. ASSUME NEW u \in Users, NotebookCreates(u) \/ NotebookDeletes(u)
         PROVE  TypeOK'
    BY <1>16 DEF NotebookCreates, NotebookDeletes, NotebookCalls, MakeCluster
  <1>. QED
    BY <1>1, <1>2, <1>3, <1>4, <1>5, <1>6, <1>7, <1>8, <1>9, <1>10, <1>11,
       <1>12, <1>13, <1>14, <1>15, <1>16, <1>17 DEF Next

\* Every reachable state is well typed.
THEOREM TypeCorrect == Spec => []TypeOK
  BY InitTyped, NextTyped, PTL DEF Spec

---------------------------------------------------------------------------
(* Faults are remembered, and servers the Hub tracks can be stopped.       *)

\* No step removes a fault from the history.
LEMMA FaultsStay == [Next]_vars => faulted \subseteq faulted'
  <1>. SUFFICES ASSUME [Next]_vars PROVE faulted \subseteq faulted'
    OBVIOUS
  <1>. USE DEF Fault, NoFault
  <1>1. ASSUME NEW u \in Users, NEW t, StartSparkCluster(u) \/ StopSparkCluster(u, t)
        PROVE  faulted \subseteq faulted'
    BY <1>1 DEF StartSparkCluster, CreateOk, CreateFails, CreateLost,
                StopSparkCluster, DeleteOk, DeleteFails, DeleteLost
  <1>2. ASSUME NEW u \in Users, NEW p, Stop(u, p) \/ Forget(u)
        PROVE  faulted \subseteq faulted'
    BY <1>1, <1>2 DEF Stop, Forget
  <1>3. ASSUME NEW u \in Users,
               CreateCluster(u) \/ ReplacePod(u) \/ Poll(u) \/ UserStop(u) \/ AbortSpawn(u)
        PROVE  faulted \subseteq faulted'
    BY <1>1, <1>2, <1>3 DEF CreateCluster, ReplacePod, Poll, UserStop, AbortSpawn
  <1>4. ASSUME NEW u \in Users,
               \/ RequestSpawn(u) \/ Configure(u) \/ CreatePod(u) \/ PodReplaced(u)
               \/ PodReady(u) \/ PodEndsEarly(u) \/ LaunchTimesOut(u)
               \/ FinishStop(u) \/ StopFails(u) \/ ContainerExits(u) \/ RemovePod(u)
        PROVE  faulted \subseteq faulted'
    BY <1>4 DEF RequestSpawn, Configure, CreatePod, PodReplaced, PodReady,
                PodEndsEarly, LaunchTimesOut, FinishStop, StopFails, ContainerExits, RemovePod
  <1>5. ASSUME NEW u \in Users, NEW t \in Tokens, Login(u, t) \/ Expire(u, t)
        PROVE  faulted \subseteq faulted'
    BY <1>5 DEF Login, Expire
  <1>6. ASSUME NEW u \in Users, NEW b \in BOOLEAN, SetIdle(u, b)
        PROVE  faulted \subseteq faulted'
    BY <1>6 DEF SetIdle
  <1>7. CASE Crash \/ Restart
    BY <1>7 DEF Crash, Restart
  <1>8. CASE UNCHANGED vars
    BY <1>8 DEF vars
  <1>9. ASSUME NEW u \in Users, NotebookCreates(u) \/ NotebookDeletes(u) \/ LateLaunch(u)
        PROVE  faulted \subseteq faulted'
    BY <1>1, <1>9 DEF NotebookCreates, NotebookDeletes, NotebookCalls, LateLaunch,
                      LateCreatePod, LateReplacePod, LatePodReplaced
  <1>. QED
    BY <1>3, <1>4, <1>5, <1>6, <1>7, <1>8, <1>9 DEF Next

\* No step forgets whose notebooks called the cluster manager.
LEMMA CallsStay == [Next]_vars => called \subseteq called' /\ strays \subseteq strays'
  <1>. SUFFICES ASSUME [Next]_vars PROVE called \subseteq called' /\ strays \subseteq strays'
    OBVIOUS
  <1>1. ASSUME NEW u \in Users, NotebookCreates(u) \/ NotebookDeletes(u)
        PROVE  called \subseteq called' /\ strays \subseteq strays'
    BY <1>1 DEF NotebookCreates, NotebookDeletes, NotebookCalls
  <1>2. ASSUME NEW u \in Users,
               \/ RequestSpawn(u) \/ Configure(u) \/ CreateCluster(u) \/ CreatePod(u)
               \/ ReplacePod(u) \/ PodReplaced(u) \/ PodReady(u) \/ PodEndsEarly(u)
               \/ LaunchTimesOut(u) \/ LateLaunch(u) \/ Poll(u) \/ UserStop(u)
               \/ AbortSpawn(u) \/ FinishStop(u) \/ StopFails(u) \/ ContainerExits(u)
               \/ RemovePod(u) \/ \E t \in Tokens : Login(u, t) \/ Expire(u, t)
               \/ \E b \in BOOLEAN : SetIdle(u, b)
        PROVE  UNCHANGED <<called, strays>>
    BY <1>2
    DEF RequestSpawn, Configure, CreateCluster, CreatePod, ReplacePod, PodReplaced,
        PodReady, PodEndsEarly, LaunchTimesOut, LateLaunch, LateCreatePod,
        LateReplacePod, LatePodReplaced, Poll, UserStop, AbortSpawn, Stop, Forget,
        FinishStop, StopFails, ContainerExits, RemovePod, Login, Expire, SetIdle,
        userVars
  <1>3. CASE Crash \/ Restart \/ UNCHANGED vars
    BY <1>3 DEF Crash, Restart, vars, userVars
  <1>. QED BY <1>1, <1>2, <1>3 DEF Next

\* Faults leave a trace: a Hub that is down has crashed and has lost its Spawner
\* objects, a launch goes on after its start because start_timeout ran out, a
\* token KBase refuses has expired.
FaultsAreRecorded ==
    /\ ~hubUp => /\ "crash" \in faulted
                 /\ \A u \in Users : ~timeoutSet[u]
    /\ \A u \in Users : late[u] # {} => "launchTimeout" \in faulted
    /\ revoked # {} => "expire" \in faulted

\* Every step keeps FaultsAreRecorded.
LEMMA NextRecorded ==
    ASSUME TypeOK, FaultsAreRecorded, [Next]_vars
    PROVE  FaultsAreRecorded'
  <1>. USE DEF FaultsAreRecorded
  <1>0. faulted \subseteq faulted'
    BY FaultsStay
  <1>1. ASSUME hubUp' = hubUp, late' = late, revoked' = revoked,
               hubUp \/ UNCHANGED timeoutSet
        PROVE  FaultsAreRecorded'
    BY <1>0, <1>1
  <1>2. ASSUME NEW u \in Users,
               \/ RequestSpawn(u) \/ Configure(u) \/ CreateCluster(u) \/ CreatePod(u)
               \/ ReplacePod(u) \/ PodReplaced(u) \/ PodReady(u) \/ PodEndsEarly(u)
        PROVE  FaultsAreRecorded'
    BY <1>1, <1>2
    DEF RequestSpawn, Configure, CreateCluster, CreatePod, ReplacePod,
        PodReplaced, PodReady, PodEndsEarly, HubFree, processVars, userVars
  <1>3. ASSUME NEW u \in Users, Poll(u) \/ UserStop(u) \/ AbortSpawn(u)
        PROVE  FaultsAreRecorded'
    BY <1>1, <1>3
    DEF Poll, UserStop, AbortSpawn, Stop, Forget, HubFree, processVars, userVars
  <1>4. ASSUME NEW u \in Users, FinishStop(u) \/ StopFails(u) \/ ContainerExits(u)
               \/ RemovePod(u) \/ NotebookCreates(u) \/ NotebookDeletes(u)
        PROVE  FaultsAreRecorded'
    BY <1>1, <1>4
    DEF FinishStop, StopFails, ContainerExits, RemovePod, NotebookCreates,
        NotebookDeletes, NotebookCalls, HubFree, processVars, spawnerVars, userVars
  <1>5. ASSUME NEW u \in Users, NEW t \in Tokens, Login(u, t)
        PROVE  FaultsAreRecorded'
    BY <1>1, <1>5 DEF Login, HubFree, spawnerVars, userVars
  <1>6. ASSUME NEW u \in Users, NEW t \in Tokens, Expire(u, t)
        PROVE  FaultsAreRecorded'
    BY <1>0, <1>6 DEF Expire, Fault, processVars, spawnerVars
  <1>7. ASSUME NEW u \in Users, NEW b \in BOOLEAN, SetIdle(u, b)
        PROVE  FaultsAreRecorded'
    BY <1>1, <1>7 DEF SetIdle, processVars, spawnerVars, userVars
  <1>8. CASE Crash
    BY <1>0, <1>8 DEF Crash, Fault, userVars
  <1>9. CASE Restart
    BY <1>0, <1>9 DEF Restart, userVars
  <1>10. CASE UNCHANGED vars
    BY <1>1, <1>10 DEF vars
  <1>11. ASSUME NEW u \in Users, LaunchTimesOut(u) PROVE FaultsAreRecorded'
    <2>1. "launchTimeout" \in faulted'
      BY <1>11 DEF LaunchTimesOut, Fault
    <2>2. hubUp /\ hubUp' /\ UNCHANGED revoked
      BY <1>11 DEF LaunchTimesOut, HubFree, processVars, userVars
    <2>. QED BY <1>0, <2>1, <2>2
  <1>12. ASSUME NEW u \in Users, LateLaunch(u) PROVE FaultsAreRecorded'
    <2>1. late[u] # {} /\ \A v \in Users \ {u} : late'[v] = late[v]
      BY <1>12 DEF LateLaunch, LateCreatePod, LateReplacePod, LatePodReplaced, TypeOK
    <2>2. hubUp /\ hubUp' /\ UNCHANGED revoked
      BY <1>12
      DEF LateLaunch, LateCreatePod, LateReplacePod, LatePodReplaced, HubFree,
          processVars, userVars
    <2>. QED BY <1>0, <2>1, <2>2
  <1>. QED
    BY <1>2, <1>3, <1>4, <1>5, <1>6, <1>7, <1>8, <1>9, <1>10, <1>11, <1>12 DEF Next

\* What a fault leaves behind is there only after that fault.
THEOREM FaultsRecorded == Spec => []FaultsAreRecorded
  <1>1. Init => FaultsAreRecorded
    BY DEF Init, FaultsAreRecorded
  <1>2. TypeOK /\ FaultsAreRecorded /\ [Next]_vars => FaultsAreRecorded'
    BY NextRecorded
  <1>. QED BY <1>1, <1>2, TypeCorrect, PTL DEF Spec

\* Every step keeps tracked servers stoppable.
LEMMA NextStoppable ==
    ASSUME TypeOK, FaultsAreRecorded, TrackedServerIsStoppable, [Next]_vars
    PROVE  TrackedServerIsStoppable'
  <1>. USE DEF TrackedServerIsStoppable, TypeOK, Phases, To
  <1>1. ASSUME NEW u \in Users, RequestSpawn(u) PROVE TrackedServerIsStoppable'
    BY <1>1 DEF RequestSpawn, HubFree, processVars
  <1>2. ASSUME NEW u \in Users, Configure(u) PROVE TrackedServerIsStoppable'
    BY <1>2 DEF Configure, HubFree, processVars
  <1>3. ASSUME NEW u \in Users,
               \/ CreateCluster(u) \/ CreatePod(u) \/ ReplacePod(u) \/ PodReplaced(u)
               \/ PodReady(u) \/ PodEndsEarly(u)
        PROVE  TrackedServerIsStoppable'
    BY <1>3
    DEF CreateCluster, CreatePod, ReplacePod, PodReplaced, PodReady,
        PodEndsEarly, HubFree, processVars, spawnerVars
  <1>4. ASSUME NEW u \in Users, NEW p \in Phases, Stop(u, p), HubFree, phase[u] \in {"up", "failed"}
        PROVE  TrackedServerIsStoppable'
    BY <1>4 DEF Stop, HubFree, spawnerVars
  <1>5. ASSUME NEW u \in Users, Forget(u), HubFree PROVE TrackedServerIsStoppable'
    BY <1>5 DEF Forget, FreshSpawner, HubFree, processVars
  <1>6. ASSUME NEW u \in Users, Poll(u) \/ UserStop(u) \/ AbortSpawn(u)
        PROVE  TrackedServerIsStoppable'
    BY <1>4, <1>5, <1>6 DEF Poll, UserStop, AbortSpawn
  <1>7. ASSUME NEW u \in Users, FinishStop(u) PROVE TrackedServerIsStoppable'
    BY <1>7 DEF FinishStop, FreshSpawner, HubFree, processVars
  <1>14. ASSUME NEW u \in Users, LaunchTimesOut(u) PROVE TrackedServerIsStoppable'
    BY <1>14 DEF LaunchTimesOut, HubFree, processVars, spawnerVars
  <1>13. ASSUME NEW u \in Users, StopFails(u) PROVE TrackedServerIsStoppable'
    <2>1. hubUp /\ hubUp' /\ \A v \in Users \ {u} :
             phase'[v] = phase[v] /\ envToken'[v] = envToken[v] /\ timeoutSet'[v] = timeoutSet[v]
      BY <1>13 DEF StopFails, FreshSpawner, HubFree, processVars, spawnerVars
    <2>2. \/ phase'[u] = "off"
          \/ /\ phase[u] \in {"culling", "replacing"} /\ phase'[u] \in {"up", "failed"}
             /\ UNCHANGED <<envToken, timeoutSet>>
      BY <1>13 DEF StopFails, spawnerVars
    <2>. QED BY <2>1, <2>2
  <1>8. CASE UNCHANGED <<hubUp, phase, spawnerVars>>
    BY <1>8 DEF spawnerVars
  <1>9. ASSUME NEW u \in Users,
               \/ ContainerExits(u) \/ RemovePod(u) \/ LateLaunch(u)
               \/ NotebookCreates(u) \/ NotebookDeletes(u)
               \/ \E t \in Tokens : Login(u, t) \/ Expire(u, t)
               \/ \E b \in BOOLEAN : SetIdle(u, b)
        PROVE  UNCHANGED <<hubUp, phase, spawnerVars>>
    BY <1>9 DEF ContainerExits, RemovePod, Login, Expire, SetIdle, processVars,
                LateLaunch, LateCreatePod, LateReplacePod, LatePodReplaced,
                NotebookCreates, NotebookDeletes, NotebookCalls
  <1>10. CASE Crash
    BY <1>10 DEF Crash
  <1>11. CASE Restart
    BY <1>11 DEF Restart, FaultsAreRecorded
  <1>12. CASE UNCHANGED vars
    BY <1>8, <1>12 DEF vars, spawnerVars
  <1>. QED
    BY <1>1, <1>2, <1>3, <1>6, <1>7, <1>8, <1>9, <1>10, <1>11, <1>12, <1>13, <1>14 DEF Next

\* Whatever fails and however often the Hub dies, a server the Hub tracks can be
\* polled and stopped: its Spawner object has a token and an idle_timeout.
THEOREM Stoppable == Spec => []TrackedServerIsStoppable
  <1>1. Init => TrackedServerIsStoppable
    BY DEF Init, TrackedServerIsStoppable
  <1>2. TypeOK /\ FaultsAreRecorded /\ TrackedServerIsStoppable /\ [Next]_vars
           => TrackedServerIsStoppable'
    BY NextStoppable
  <1>. QED BY <1>1, <1>2, TypeCorrect, FaultsRecorded, PTL DEF Spec

---------------------------------------------------------------------------
(* Pods, addresses and clusters.                                           *)

\* What was met stays met.
LEMMA MetStays ==
    ASSUME [Next]_vars, NEW kinds, Met(kinds)
    PROVE  Met(kinds)'
  BY FaultsStay DEF Met

\* The world outside the Hub, and logins: phases, environments and clusters stay.
OutsideStep ==
    \/ \E u \in Users :
          \/ ContainerExits(u) \/ RemovePod(u)
          \/ \E t \in Tokens : Login(u, t) \/ Expire(u, t)
          \/ \E b \in BOOLEAN : SetIdle(u, b)
    \/ UNCHANGED vars

\* Users, KBase and the containers leave the Hub and the clusters alone.
LEMMA OutsideFrame ==
    ASSUME OutsideStep
    PROVE  UNCHANGED <<hubAddress, phase, envAddress, cluster, made, late, called, strays>>
  BY DEF PodLeaves, OutsideStep, ContainerExits, RemovePod, Login, Expire, SetIdle,
         vars, processVars, spawnerVars, clusterVars, userVars

\* No pod comes to be but through the Hub, and a pod's address stays while it runs.
LEMMA OutsidePods ==
    ASSUME TypeOK, OutsideStep, NEW v \in Users, pod'[v] # "none"
    PROVE  /\ pod[v] # "none"
           /\ pod'[v] = "running" => pod[v] = "running" /\ podAddress'[v] = podAddress[v]
  BY DEF OutsideStep, ContainerExits, RemovePod, Login, Expire, SetIdle,
         PodLeaves, vars, podVars, TypeOK

\* A notebook's own calls change the user's cluster and nothing of the Hub's.
LEMMA NotebookFrame ==
    ASSUME TypeOK, NEW u \in Users, NotebookCreates(u) \/ NotebookDeletes(u)
    PROVE  /\ UNCHANGED <<hubAddress, phase, envAddress, pod, podAddress, late, faulted>>
           /\ u \in called' /\ pod[u] = "running"
           /\ \A v \in Users \ {u} : cluster'[v] = cluster[v]
           /\ \/ NotebookDeletes(u) /\ cluster'[u] = 0 /\ strays' = strays
              \/ /\ NotebookCreates(u) /\ cluster'[u] # 0
                 /\ PastItsStop(u) => u \in strays'
  BY DEF NotebookCreates, NotebookDeletes, NotebookCalls, NotebookRuns, MakeCluster,
         NoFault, processVars, spawnerVars, podVars, TypeOK

\* A late launch needs a start that was given up, and leaves phases and spawners.
LEMMA LateFrame ==
    ASSUME TypeOK, FaultsAreRecorded, NEW u \in Users, LateLaunch(u)
    PROVE  /\ UNCHANGED <<phase, envAddress, called, strays>>
           /\ "launchTimeout" \in faulted
           /\ \A v \in Users \ {u} : /\ pod'[v] = pod[v] /\ podAddress'[v] = podAddress[v]
                                     /\ late'[v] = late[v]
  BY DEF LateLaunch, LateCreatePod, LateReplacePod, LatePodReplaced, PodLeaves,
         FaultsAreRecorded, spawnerVars, podVars, userVars, TypeOK

\* Every step keeps UntrackedPodNeedsFault.
LEMMA NextUntracked ==
    ASSUME TypeOK, FaultsAreRecorded, UntrackedPodNeedsFault, [Next]_vars
    PROVE  UntrackedPodNeedsFault'
  <1>. DEFINE Known == {"crash", "stopFail", "launchTimeout"}
  <1>. USE DEF UntrackedPodNeedsFault, TypeOK, Phases, To
  <1>0. Met(Known) => Met(Known)'
    BY MetStays
  <1>1. ASSUME NEW u \in Users,
               \/ RequestSpawn(u) \/ Configure(u) \/ CreateCluster(u)
               \/ ReplacePod(u) \/ PodReady(u) \/ PodEndsEarly(u) \/ LaunchTimesOut(u)
        PROVE  UntrackedPodNeedsFault'
    BY <1>0, <1>1
    DEF RequestSpawn, Configure, CreateCluster, ReplacePod, PodReady,
        PodEndsEarly, LaunchTimesOut, podVars
  <1>2. ASSUME NEW u \in Users, CreatePod(u) \/ PodReplaced(u) \/ FinishStop(u)
        PROVE  UntrackedPodNeedsFault'
    BY <1>0, <1>2 DEF CreatePod, PodReplaced, PodLeaves, FinishStop
  <1>3. ASSUME NEW u \in Users, NEW p \in {"stopping", "culling"}, Stop(u, p)
        PROVE  UntrackedPodNeedsFault'
    BY <1>0, <1>3 DEF Stop, podVars
  <1>4. ASSUME NEW u \in Users, PollReportsExit(u), Forget(u)
        PROVE  UntrackedPodNeedsFault'
    BY <1>0, <1>4 DEF PollReportsExit, Forget, podVars
  <1>5. ASSUME NEW u \in Users, Poll(u) \/ UserStop(u) \/ AbortSpawn(u)
        PROVE  UntrackedPodNeedsFault'
    BY <1>3, <1>4, <1>5 DEF Poll, UserStop, AbortSpawn
  <1>6. CASE OutsideStep
    BY <1>0, <1>6, OutsideFrame, OutsidePods
  <1>7. CASE Crash
    BY <1>0, <1>7 DEF Crash, podVars
  <1>8. CASE Restart
    BY <1>0, <1>8 DEF Restart, FaultsAreRecorded, Met
  <1>9. ASSUME NEW u \in Users, StopFails(u) PROVE UntrackedPodNeedsFault'
    <2>1. Met(Known)'
      BY <1>9 DEF StopFails, Fault, Met
    <2>. QED BY <2>1
  <1>10. ASSUME NEW u \in Users, NotebookCreates(u) \/ NotebookDeletes(u)
         PROVE  UntrackedPodNeedsFault'
    BY <1>0, <1>10, NotebookFrame
  <1>11. ASSUME NEW u \in Users, LateLaunch(u) PROVE UntrackedPodNeedsFault'
    <2>1. Met(Known)
      BY <1>11, LateFrame DEF Met
    <2>. QED BY <1>0, <2>1
  <1>. QED
    BY <1>9, <1>10, <1>11, <1>1, <1>2, <1>5, <1>6, <1>7, <1>8 DEF Next, OutsideStep

\* A pod runs without the Hub knowing of a server only after the Hub's death, a
\* stop() that raised, or a start() given up and not cancelled.
THEOREM Untracked == Spec => []UntrackedPodNeedsFault
  <1>1. Init => UntrackedPodNeedsFault
    BY DEF Init, UntrackedPodNeedsFault
  <1>2. TypeOK /\ FaultsAreRecorded /\ UntrackedPodNeedsFault /\ [Next]_vars
           => UntrackedPodNeedsFault'
    BY NextUntracked
  <1>. QED BY <1>1, <1>2, TypeCorrect, FaultsRecorded, PTL DEF Spec

\* One call of the cluster manager for u, as HubAddressIsLive sees it.
LEMMA CallKeepsHubAddress ==
    ASSUME TypeOK, HubAddressIsLive, [Next]_vars, NEW u \in Users, NEW t,
           \/ StartSparkCluster(u)
           \/ StopSparkCluster(u, t)
    PROVE  HubAddressIsLive'
  <1>. USE DEF HubAddressIsLive, Live, TypeOK
  <1>. DEFINE Lost == {"createLost", "deleteLost"}
  <1>0. (Met(Lost) => Met(Lost)') /\ called \subseteq called'
    BY MetStays, CallsStay
  <1>1. CASE CreateOk(u)
    BY <1>1 DEF CreateOk, MakeCluster, NewAddress
  <1>2. CASE CreateFails(u)
    BY <1>0, <1>2 DEF CreateFails
  <1>3. CASE CreateLost(u)
    BY <1>3 DEF CreateLost, Fault, Met
  <1>4. CASE DeleteOk(u, t)
    BY <1>4 DEF DeleteOk
  <1>5. CASE DeleteFails(u, t)
    BY <1>0, <1>5 DEF DeleteFails
  <1>6. CASE DeleteLost(u, t)
    BY <1>6 DEF DeleteLost, Fault, Met
  <1>. QED
    BY <1>1, <1>2, <1>3, <1>4, <1>5, <1>6 DEF StartSparkCluster, StopSparkCluster

\* Every step keeps HubAddressIsLive.
LEMMA NextHubAddress ==
    ASSUME TypeOK, HubAddressIsLive, [Next]_vars
    PROVE  HubAddressIsLive'
  <1>0. /\ Met({"createLost", "deleteLost"}) => Met({"createLost", "deleteLost"})'
        /\ called \subseteq called'
    BY MetStays, CallsStay
  <1>1. CASE UNCHANGED <<hubAddress, cluster>>
    BY <1>0, <1>1 DEF HubAddressIsLive, Live
  <1>2. ASSUME NEW u \in Users,
               \/ RequestSpawn(u) \/ Configure(u) \/ CreatePod(u) \/ PodReplaced(u)
               \/ PodReady(u) \/ PodEndsEarly(u) \/ LaunchTimesOut(u)
               \/ FinishStop(u) \/ StopFails(u) \/ Forget(u)
        PROVE  UNCHANGED <<hubAddress, cluster>>
    BY <1>2
    DEF RequestSpawn, Configure, CreatePod, PodReplaced, PodReady, PodEndsEarly,
        LaunchTimesOut, FinishStop, StopFails, Forget, processVars, clusterVars
  <1>3. ASSUME NEW u \in Users, NEW p, CreateCluster(u) \/ ReplacePod(u) \/ Stop(u, p)
        PROVE  HubAddressIsLive'
    BY <1>3, CallKeepsHubAddress DEF CreateCluster, ReplacePod, Stop
  <1>4. ASSUME NEW u \in Users, Poll(u) \/ UserStop(u) \/ AbortSpawn(u)
        PROVE  HubAddressIsLive'
    BY <1>1, <1>2, <1>3, <1>4 DEF Poll, UserStop, AbortSpawn
  <1>5. CASE OutsideStep
    BY <1>1, <1>5, OutsideFrame
  <1>6. CASE Crash
    BY <1>6 DEF Crash, HubAddressIsLive
  <1>7. CASE Restart
    BY <1>1, <1>7 DEF Restart, clusterVars
  <1>8. ASSUME NEW u \in Users, NotebookCreates(u) \/ NotebookDeletes(u)
        PROVE  HubAddressIsLive'
    BY <1>0, <1>8, NotebookFrame, AddressAssumption
    DEF HubAddressIsLive, Live, Addresses, TypeOK
  <1>9. ASSUME NEW u \in Users, NEW l \in late[u], LateReplacePod(u, l)
        PROVE  HubAddressIsLive'
    BY <1>9, CallKeepsHubAddress DEF LateReplacePod
  <1>10. ASSUME NEW u \in Users, LateLaunch(u) PROVE HubAddressIsLive'
    BY <1>1, <1>9, <1>10
    DEF LateLaunch, LateCreatePod, LatePodReplaced, processVars, clusterVars
  <1>. QED
    BY <1>8, <1>10, <1>1, <1>2, <1>3, <1>4, <1>5, <1>6, <1>7 DEF Next, OutsideStep

\* The address that every spawn inherits from the Hub is that of a live cluster,
\* unless an answer of the cluster manager was lost or a notebook of its owner has
\* made or deleted a cluster since.
THEOREM HubAddressLive == Spec => []HubAddressIsLive
  <1>1. Init => HubAddressIsLive
    BY DEF Init, HubAddressIsLive
  <1>2. TypeOK /\ HubAddressIsLive /\ [Next]_vars => HubAddressIsLive'
    BY NextHubAddress
  <1>. QED BY <1>1, <1>2, TypeCorrect, PTL DEF Spec

\* Strengthening of ForeignAddressNeedsFailedCreate: while the pod is being asked
\* for, the spawner's environment has an address of its own if it has any.
LaunchEnvironmentIsOwn ==
    \A u \in Users :
        /\ phase[u] \in {"launching", "replacing"}
             /\ envAddress[u] # NoAddress /\ envAddress[u].owner # u
               => Met({"createFail", "createLost", "expire"})
        /\ \A l \in late[u] :
             l.address # NoAddress /\ l.address.owner # u
               => Met({"createFail", "createLost", "expire"})

\* A request for a cluster gives the environment the user's own address or is
\* remembered as one that did not succeed.
LEMMA CreateGivesOwnAddress ==
    ASSUME TypeOK, FaultsAreRecorded, [Next]_vars, NEW u \in Users,
           StartSparkCluster(u)
    PROVE  \/ envAddress'[u] # NoAddress /\ envAddress'[u].owner = u
           \/ Met({"createFail", "createLost", "expire"})'
  <1>1. CASE CreateOk(u)
    <2>1. NewAddress(u) \in Addresses /\ NewAddress(u).owner = u
      BY DEF NewAddress, Addresses, TypeOK
    <2>. QED BY <1>1, <2>1, AddressAssumption DEF CreateOk, TypeOK
  <1>2. CASE CreateFails(u) /\ TokenAccepted(u)
    BY <1>2 DEF CreateFails, Fault, Met
  <1>3. CASE CreateFails(u) /\ ~TokenAccepted(u)
    <2>1. "expire" \in faulted
      BY <1>3 DEF TokenAccepted, Accepted, FaultsAreRecorded
    <2>. QED BY <2>1, FaultsStay DEF Met
  <1>4. CASE CreateLost(u)
    BY <1>4 DEF CreateLost, Fault, Met
  <1>. QED BY <1>1, <1>2, <1>3, <1>4 DEF StartSparkCluster

\* The properties of addresses and their strengthening.
ForeignInv == LaunchEnvironmentIsOwn /\ ForeignAddressNeedsFailedCreate

\* Every step keeps ForeignInv.
LEMMA NextForeign ==
    ASSUME TypeOK, FaultsAreRecorded, ForeignInv, [Next]_vars
    PROVE  ForeignInv'
  <1>. DEFINE Failed == Met({"createFail", "createLost", "expire"})
  <1>. USE DEF ForeignInv, LaunchEnvironmentIsOwn, ForeignAddressNeedsFailedCreate,
        TypeOK, Phases, To
  <1>0. Failed => Failed'
    BY MetStays
  <1>1. ASSUME NEW u \in Users,
               RequestSpawn(u) \/ PodReady(u) \/ PodEndsEarly(u)
        PROVE  ForeignInv'
    BY <1>0, <1>1
    DEF RequestSpawn, PodReady, PodEndsEarly, podVars, spawnerVars
  <1>2. ASSUME NEW u \in Users, Configure(u) PROVE ForeignInv'
    BY <1>0, <1>2 DEF Configure, podVars
  <1>3. ASSUME NEW u \in Users, CreateCluster(u) PROVE ForeignInv'
    <2>1. \/ envAddress'[u] # NoAddress /\ envAddress'[u].owner = u
          \/ Failed'
      BY <1>3, CreateGivesOwnAddress DEF CreateCluster
    <2>2. \A v \in Users \ {u} : envAddress'[v] = envAddress[v]
      BY <1>3 DEF CreateCluster, StartSparkCluster, CreateOk, CreateFails, CreateLost
    <2>. QED BY <1>0, <1>3, <2>1, <2>2 DEF CreateCluster, podVars
  <1>4. ASSUME NEW u \in Users, CreatePod(u) PROVE ForeignInv'
    BY <1>0, <1>4 DEF CreatePod, spawnerVars
  <1>5. ASSUME NEW u \in Users, ReplacePod(u) \/ PodReplaced(u) PROVE ForeignInv'
    BY <1>0, <1>5 DEF ReplacePod, PodReplaced, PodLeaves, podVars, spawnerVars
  <1>6. ASSUME NEW u \in Users, Poll(u) \/ UserStop(u) \/ AbortSpawn(u)
        PROVE  ForeignInv'
    <2>1. CASE Stop(u, "stopping") \/ Stop(u, "culling")
      BY <1>0, <2>1 DEF Stop, podVars, spawnerVars
    <2>2. CASE Forget(u)
      BY <1>0, <2>2 DEF Forget, FreshSpawner, podVars
    <2>. QED BY <1>6, <2>1, <2>2 DEF Poll, UserStop, AbortSpawn
  <1>7. ASSUME NEW u \in Users, FinishStop(u) \/ StopFails(u) PROVE ForeignInv'
    BY <1>0, <1>7 DEF FinishStop, StopFails, FreshSpawner, PodLeaves, podVars, spawnerVars
  <1>8. CASE OutsideStep
    <2>1. \A v \in Users : podAddress'[v] \in {podAddress[v], NoAddress}
      BY <1>8 DEF OutsideStep, ContainerExits, RemovePod, Login, Expire, SetIdle,
                  PodLeaves, vars, podVars
    <2>. QED BY <1>0, <1>8, <2>1, OutsideFrame
  <1>9. CASE Crash
    BY <1>0, <1>9 DEF Crash, podVars
  <1>10. CASE Restart
    BY <1>0, <1>10 DEF Restart, podVars, spawnerVars
  <1>11. ASSUME NEW u \in Users, LaunchTimesOut(u) PROVE ForeignInv'
    BY <1>0, <1>11 DEF LaunchTimesOut, podVars, spawnerVars
  <1>12. ASSUME NEW u \in Users, LateLaunch(u) PROVE ForeignInv'
    <2>1. ASSUME NEW l \in late[u], LateCreatePod(u, l) PROVE ForeignInv'
      BY <1>0, <2>1 DEF LateCreatePod, spawnerVars
    <2>2. ASSUME NEW l \in late[u], LateReplacePod(u, l) PROVE ForeignInv'
      BY <1>0, <2>2 DEF LateReplacePod, podVars, spawnerVars, LateLaunches
    <2>3. ASSUME NEW l \in late[u], LatePodReplaced(u, l) PROVE ForeignInv'
      BY <1>0, <2>3 DEF LatePodReplaced, PodLeaves, spawnerVars, LateLaunches
    <2>. QED BY <1>12, <2>1, <2>2, <2>3 DEF LateLaunch
  <1>13. ASSUME NEW u \in Users, NotebookCreates(u) \/ NotebookDeletes(u)
         PROVE  ForeignInv'
    BY <1>0, <1>13, NotebookFrame
  <1>. QED
    BY <1>11, <1>12, <1>13, <1>1, <1>2, <1>3, <1>4, <1>5, <1>6, <1>7, <1>8, <1>9, <1>10
    DEF Next, OutsideStep

\* A notebook is given another user's cluster only where asking for its own one
\* did not succeed.
THEOREM ForeignAddress == Spec => []ForeignAddressNeedsFailedCreate
  <1>1. Init => ForeignInv
    BY DEF Init, ForeignInv, LaunchEnvironmentIsOwn, ForeignAddressNeedsFailedCreate
  <1>2. TypeOK /\ FaultsAreRecorded /\ ForeignInv /\ [Next]_vars => ForeignInv'
    BY NextForeign
  <1>3. ForeignInv => ForeignAddressNeedsFailedCreate
    BY DEF ForeignInv
  <1>. QED BY <1>1, <1>2, <1>3, TypeCorrect, FaultsRecorded, PTL DEF Spec

\* Strengthening of ClusterEndsWithServer: where a cluster may be held that no
\* later stop() would delete, a leak fault has been met already or a notebook made
\* the cluster behind a stop().
Leaky == Met(LeakFaults) \/ ~DeleteStoppedPods

HeldClustersAreStoppable ==
    \A u \in Users :
        /\ PastItsStop(u) /\ cluster[u] # 0 => Leaky \/ u \in strays
        /\ phase[u] \in {"spawning", "failed"} /\ pod[u] = "none" /\ cluster[u] # 0
             => Leaky \/ u \in strays
        /\ phase[u] \in {"waiting", "up"} /\ pod[u] = "none" => Leaky

\* After the cluster calls of stop() the cluster is gone or a leak fault was met.
LEMMA StopDeletesOrLeaks ==
    ASSUME TypeOK, FaultsAreRecorded, [Next]_vars, NEW u \in Users,
           NEW t, StopSparkCluster(u, t)
    PROVE  /\ cluster'[u] = 0 \/ Leaky'
           /\ \A v \in Users \ {u} : cluster'[v] = cluster[v]
  <1>. USE DEF TypeOK
  <1>1. CASE DeleteOk(u, t) \/ DeleteLost(u, t)
    BY <1>1 DEF DeleteOk, DeleteLost
  <1>2. CASE DeleteFails(u, t)
    <2>1. CASE Accepted(u, t) /\ cluster[u] # 0
      BY <1>2, <2>1 DEF DeleteFails, Fault, Leaky, Met, LeakFaults
    <2>2. CASE ~Accepted(u, t)
      <3>1. "expire" \in faulted
        BY <2>2 DEF Accepted, FaultsAreRecorded
      <3>. QED BY <1>2, <3>1, FaultsStay DEF DeleteFails, Leaky, Met, LeakFaults
    <2>3. CASE cluster[u] = 0
      BY <1>2, <2>3 DEF DeleteFails
    <2>. QED BY <2>1, <2>2, <2>3, <1>2 DEF DeleteFails
  <1>. QED BY <1>1, <1>2 DEF StopSparkCluster

\* Every step keeps HeldClustersAreStoppable.
LEMMA NextHeld ==
    ASSUME TypeOK, FaultsAreRecorded, HeldClustersAreStoppable, [Next]_vars
    PROVE  HeldClustersAreStoppable'
  <1>. USE DEF HeldClustersAreStoppable, PastItsStop, TypeOK, Phases, To
  <1>0. (Leaky => Leaky') /\ strays \subseteq strays'
    BY MetStays, CallsStay DEF Leaky
  <1>1. ASSUME NEW u \in Users, RequestSpawn(u) \/ Configure(u) \/ PodEndsEarly(u)
        PROVE  HeldClustersAreStoppable'
    BY <1>0, <1>1 DEF RequestSpawn, Configure, PodEndsEarly, podVars, clusterVars
  <1>2. ASSUME NEW u \in Users, CreateCluster(u) PROVE HeldClustersAreStoppable'
    <2>1. \A v \in Users \ {u} : cluster'[v] = cluster[v]
      BY <1>2 DEF CreateCluster, StartSparkCluster, CreateOk, CreateFails,
                  CreateLost, MakeCluster
    <2>. QED BY <1>0, <1>2, <2>1 DEF CreateCluster, podVars
  <1>3. ASSUME NEW u \in Users, CreatePod(u) \/ PodReplaced(u) \/ PodReady(u)
        PROVE  HeldClustersAreStoppable'
    BY <1>0, <1>3 DEF CreatePod, PodReplaced, PodLeaves, PodReady, podVars, clusterVars
  <1>4. ASSUME NEW u \in Users, ReplacePod(u) PROVE HeldClustersAreStoppable'
    BY <1>0, <1>4, StopDeletesOrLeaks DEF ReplacePod, podVars
  <1>5. ASSUME NEW u \in Users, LaunchTimesOut(u) PROVE HeldClustersAreStoppable'
    <2>1. Leaky'
      BY <1>5 DEF LaunchTimesOut, Fault, Leaky, Met, LeakFaults
    <2>. QED BY <2>1
  <1>6. ASSUME NEW u \in Users, NEW p \in {"stopping", "culling"}, Stop(u, p)
        PROVE  HeldClustersAreStoppable'
    BY <1>0, <1>6, StopDeletesOrLeaks DEF Stop, podVars
  <1>7. ASSUME NEW u \in Users, Poll(u) \/ AbortSpawn(u), PollReportsExit(u), Forget(u)
        PROVE  HeldClustersAreStoppable'
    <2>1. cluster[u] # 0 => Leaky \/ u \in strays
      BY <1>7 DEF Poll, AbortSpawn, Stop, PollReportsExit, Leaky
    <2>. QED BY <1>0, <1>7, <2>1 DEF Forget, podVars, clusterVars
  <1>8. ASSUME NEW u \in Users, Poll(u) \/ UserStop(u) \/ AbortSpawn(u)
        PROVE  HeldClustersAreStoppable'
    BY <1>6, <1>7, <1>8 DEF Poll, UserStop, AbortSpawn
  <1>9. ASSUME NEW u \in Users, FinishStop(u) \/ StopFails(u)
        PROVE  HeldClustersAreStoppable'
    BY <1>0, <1>9 DEF FinishStop, StopFails, PodLeaves, podVars, clusterVars
  <1>10. ASSUME NEW u \in Users, RemovePod(u) PROVE HeldClustersAreStoppable'
    <2>1. phase[u] \in {"off", "stopping", "culling", "replacing"} \/ Leaky'
      BY <1>10 DEF RemovePod, Fault, Leaky, Met, LeakFaults
    <2>. QED BY <1>0, <1>10, <2>1 DEF RemovePod, PodLeaves, clusterVars
  <1>11. ASSUME NEW u \in Users, ContainerExits(u) PROVE HeldClustersAreStoppable'
    BY <1>0, <1>11 DEF ContainerExits, PodLeaves, clusterVars
  <1>12. CASE UNCHANGED <<phase, pod, cluster>>
    BY <1>0, <1>12
  <1>13. ASSUME NEW u \in Users,
                \/ \E t \in Tokens : Login(u, t) \/ Expire(u, t)
                \/ \E b \in BOOLEAN : SetIdle(u, b)
         PROVE  UNCHANGED <<phase, pod, cluster>>
    BY <1>13 DEF Login, Expire, SetIdle, podVars, clusterVars
  <1>14. CASE Crash \/ UNCHANGED vars
    BY <1>12, <1>14 DEF Crash, vars, podVars, clusterVars
  <1>15. CASE Restart
    <2>1. Leaky'
      BY <1>0, <1>15 DEF Restart, FaultsAreRecorded, Leaky, Met, LeakFaults
    <2>. QED BY <2>1
  <1>16. ASSUME NEW u \in Users, NotebookCreates(u) \/ NotebookDeletes(u)
         PROVE  HeldClustersAreStoppable'
    BY <1>0, <1>16, NotebookFrame
  <1>17. ASSUME NEW u \in Users, LateLaunch(u) PROVE HeldClustersAreStoppable'
    <2>1. Leaky
      BY <1>17, LateFrame DEF Leaky, Met, LeakFaults
    <2>. QED BY <1>0, <2>1
  <1>. QED
    BY <1>16, <1>17, <1>1, <1>2, <1>3, <1>4, <1>5, <1>8, <1>9, <1>10, <1>11, <1>12, <1>13,
       <1>14, <1>15 DEF Next

\* Where the Hub deletes exited pods, a cluster outlives its server only through a
\* fault that keeps stop() from running or its delete from being carried out, or
\* because a notebook made the cluster behind the stop().
THEOREM ClusterEnds == Spec => []ClusterEndsWithServer
  <1>1. Init => HeldClustersAreStoppable
    BY DEF Init, HeldClustersAreStoppable
  <1>2. TypeOK /\ FaultsAreRecorded /\ HeldClustersAreStoppable /\ [Next]_vars
           => HeldClustersAreStoppable'
    BY NextHeld
  <1>3. HeldClustersAreStoppable => ClusterEndsWithServer
    BY DEF HeldClustersAreStoppable, PastItsStop, ClusterEndsWithServer, Leaky
  <1>. QED BY <1>1, <1>2, <1>3, TypeCorrect, FaultsRecorded, PTL DEF Spec

\* Strengthening of OwnAddressIsLive: a start() meets no pod of an earlier one and
\* its own address names the cluster it has just asked for, or a fault was met that
\* belies it, or the user's notebooks have made or deleted a cluster.
Belied == Met(BelyingFaults) \/ ~DeleteStoppedPods

OwnLive(u, a) == a # NoAddress /\ a.owner = u => Live(a) \/ u \in called

StartsAreUndisturbed ==
    \A u \in Users :
        /\ phase[u] \in {"off", "spawning", "preparing", "launching"}
             /\ pod[u] # "none" => Belied
        /\ phase[u] = "replacing" => Belied
        /\ phase[u] \in {"preparing", "launching"}
             => OwnLive(u, envAddress[u]) \/ Belied
        /\ phase[u] \in {"waiting", "up"} /\ pod[u] = "running"
             => OwnLive(u, podAddress[u]) \/ Belied

\* After a request for a cluster an own address in the environment is live, or an
\* answer was lost.
LEMMA CreateGivesLiveAddress ==
    ASSUME TypeOK, StartsAreUndisturbed, [Next]_vars, NEW u \in Users,
           phase[u] = "preparing", StartSparkCluster(u)
    PROVE  /\ OwnLive(u, envAddress[u])' \/ Belied'
           /\ \A v \in Users \ {u} : /\ envAddress'[v] = envAddress[v]
                                     /\ cluster'[v] = cluster[v]
  <1>. USE DEF TypeOK
  <1>0. (Belied => Belied') /\ called \subseteq called'
    BY MetStays, CallsStay DEF Belied
  <1>1. CASE CreateOk(u)
    <2>1. envAddress'[u] = NewAddress(u) /\ cluster'[u] = made[u] + 1
      BY <1>1 DEF CreateOk, MakeCluster
    <2>. QED BY <1>1, <2>1 DEF CreateOk, MakeCluster, NewAddress, OwnLive, Live
  <1>2. CASE CreateFails(u)
    BY <1>0, <1>2 DEF CreateFails, StartsAreUndisturbed, OwnLive, Live
  <1>3. CASE CreateLost(u)
    BY <1>3 DEF CreateLost, MakeCluster, Fault, Belied, BelyingFaults, Met
  <1>. QED BY <1>1, <1>2, <1>3 DEF StartSparkCluster

\* Every step keeps StartsAreUndisturbed.
LEMMA NextUndisturbed ==
    ASSUME TypeOK, FaultsAreRecorded, HubAddressIsLive, StartsAreUndisturbed,
           [Next]_vars
    PROVE  StartsAreUndisturbed'
  <1>. USE DEF StartsAreUndisturbed, OwnLive, Live, TypeOK, Phases, To
  <1>0. (Belied => Belied') /\ called \subseteq called'
    BY MetStays, CallsStay DEF Belied
  <1>1. ASSUME NEW u \in Users,
               \/ RequestSpawn(u) \/ PodReplaced(u) \/ PodReady(u)
               \/ PodEndsEarly(u)
        PROVE  StartsAreUndisturbed'
    BY <1>0, <1>1
    DEF RequestSpawn, PodReplaced, PodLeaves, PodReady, PodEndsEarly, podVars,
        spawnerVars, clusterVars
  <1>2. ASSUME NEW u \in Users, Configure(u) PROVE StartsAreUndisturbed'
    <2>1. OwnLive(u, hubAddress) \/ Belied
      BY DEF HubAddressIsLive, Belied, BelyingFaults, Met
    <2>. QED BY <1>0, <1>2, <2>1 DEF Configure, podVars, clusterVars
  <1>3. ASSUME NEW u \in Users, CreateCluster(u) PROVE StartsAreUndisturbed'
    <2>1. /\ OwnLive(u, envAddress[u])' \/ Belied'
          /\ \A v \in Users \ {u} : /\ envAddress'[v] = envAddress[v]
                                    /\ cluster'[v] = cluster[v]
      BY <1>3, CreateGivesLiveAddress DEF CreateCluster
    <2>. QED BY <1>0, <1>3, <2>1 DEF CreateCluster, podVars
  <1>4. ASSUME NEW u \in Users, CreatePod(u) PROVE StartsAreUndisturbed'
    <2>1. phase'[u] = "waiting" \/ Belied'
      BY <1>4 DEF CreatePod, Fault, Belied, BelyingFaults, Met
    <2>. QED BY <1>0, <1>4, <2>1 DEF CreatePod, spawnerVars, clusterVars
  <1>5. ASSUME NEW u \in Users, ReplacePod(u) PROVE StartsAreUndisturbed'
    <2>1. Belied
      BY <1>5 DEF ReplacePod
    <2>. QED BY <1>0, <2>1
  <1>6. ASSUME NEW u \in Users, NEW p \in {"stopping", "culling"}, Stop(u, p)
        PROVE  StartsAreUndisturbed'
    BY <1>0, <1>6, StopDeletesOrLeaks DEF Stop, podVars, spawnerVars
  <1>7. ASSUME NEW u \in Users, PollReportsExit(u), Forget(u)
        PROVE  StartsAreUndisturbed'
    BY <1>0, <1>7
    DEF PollReportsExit, Forget, FreshSpawner, podVars, clusterVars, Belied
  <1>8. ASSUME NEW u \in Users, Poll(u) \/ UserStop(u) \/ AbortSpawn(u)
        PROVE  StartsAreUndisturbed'
    BY <1>6, <1>7, <1>8 DEF Poll, UserStop, AbortSpawn
  <1>9. ASSUME NEW u \in Users, FinishStop(u) PROVE StartsAreUndisturbed'
    BY <1>0, <1>9 DEF FinishStop, FreshSpawner, PodLeaves, clusterVars
  <1>10. CASE OutsideStep
    BY <1>0, <1>10, OutsideFrame, OutsidePods
  <1>11. CASE Crash
    <2>1. Belied'
      BY <1>11 DEF Crash, Fault, Belied, BelyingFaults, Met
    <2>. QED BY <2>1
  <1>12. CASE Restart
    <2>1. Belied'
      BY <1>0, <1>12 DEF Restart, FaultsAreRecorded, Belied, BelyingFaults, Met
    <2>. QED BY <2>1
  <1>13. ASSUME NEW u \in Users, StopFails(u) \/ LaunchTimesOut(u)
         PROVE  StartsAreUndisturbed'
    <2>1. Belied'
      BY <1>13 DEF StopFails, LaunchTimesOut, Fault, Belied, BelyingFaults, Met
    <2>. QED BY <2>1
  <1>14. ASSUME NEW u \in Users, LateLaunch(u) PROVE StartsAreUndisturbed'
    <2>1. Belied
      BY <1>14, LateFrame DEF Belied, BelyingFaults, Met
    <2>. QED BY <1>0, <2>1
  <1>15. ASSUME NEW u \in Users, NotebookCreates(u) \/ NotebookDeletes(u)
         PROVE  StartsAreUndisturbed'
    BY <1>0, <1>15, NotebookFrame
  <1>. QED
    BY <1>13, <1>14, <1>15, <1>1, <1>2, <1>3, <1>4, <1>5, <1>8, <1>9, <1>10, <1>11, <1>12
    DEF Next, OutsideStep

\* A served notebook with an address of its own finds its cluster alive, unless the
\* user's notebooks have made or deleted a cluster, an answer was lost, the Hub
\* died, or a stop or a launch went on unseen: nothing else makes a start() delete
\* the cluster it has made, or leaves a pod whose cluster stop() has deleted.
THEOREM OwnAddressLive == Spec => []OwnAddressIsLive
  <1>1. Init => StartsAreUndisturbed
    BY DEF Init, StartsAreUndisturbed
  <1>2. TypeOK /\ FaultsAreRecorded /\ HubAddressIsLive /\ StartsAreUndisturbed
           /\ [Next]_vars => StartsAreUndisturbed'
    BY NextUndisturbed
  <1>3. StartsAreUndisturbed => OwnAddressIsLive
    BY DEF StartsAreUndisturbed, OwnAddressIsLive, OwnLive, Belied
  <1>. QED
    BY <1>1, <1>2, <1>3, TypeCorrect, FaultsRecorded, HubAddressLive, PTL DEF Spec

=============================================================================
