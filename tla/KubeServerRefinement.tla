------------------------- MODULE KubeServerRefinement -------------------------
(***************************************************************************)
(* KubeServerLifecycle implements ServerLease: every step of the Hub, of a *)
(* user, of Kubernetes or of a fault is a step of the lease or leaves the  *)
(* server and the lease as they were.                                      *)
(***************************************************************************)
EXTENDS KubeServerProofs

---------------------------------------------------------------------------
(* Only the faults of this instance are met.                               *)

FaultsAreAllowed == faulted \subseteq AllowedFaults

\* No step meets a fault the instance does not allow.
LEMMA NextAllowed == FaultsAreAllowed /\ [Next]_vars => FaultsAreAllowed'
  <1>. SUFFICES ASSUME FaultsAreAllowed, [Next]_vars PROVE FaultsAreAllowed'
    OBVIOUS
  <1>. USE DEF FaultsAreAllowed, Fault, NoFault
  <1>1. ASSUME NEW u \in Users, NEW t, StartSparkCluster(u) \/ StopSparkCluster(u, t)
        PROVE  FaultsAreAllowed'
    BY <1>1 DEF StartSparkCluster, CreateOk, CreateFails, CreateLost,
                StopSparkCluster, DeleteOk, DeleteFails, DeleteLost
  <1>2. ASSUME NEW u \in Users,
               CreateCluster(u) \/ ReplacePod(u) \/ Poll(u) \/ UserStop(u) \/ AbortSpawn(u)
        PROVE  FaultsAreAllowed'
    BY <1>1, <1>2
    DEF CreateCluster, ReplacePod, Poll, UserStop, AbortSpawn, Stop, Forget
  <1>3. ASSUME NEW u \in Users,
               \/ RequestSpawn(u) \/ Configure(u) \/ CreatePod(u) \/ PodReplaced(u)
               \/ PodReady(u) \/ PodEndsEarly(u) \/ LaunchTimesOut(u)
               \/ FinishStop(u) \/ StopFails(u) \/ ContainerExits(u) \/ RemovePod(u)
               \/ NotebookCreates(u) \/ NotebookDeletes(u)
        PROVE  FaultsAreAllowed'
    BY <1>3 DEF RequestSpawn, Configure, CreatePod, PodReplaced, PodReady,
                PodEndsEarly, LaunchTimesOut, FinishStop, StopFails, ContainerExits, RemovePod,
                NotebookCreates, NotebookDeletes, NotebookCalls
  <1>4. ASSUME NEW u \in Users,
               \/ \E t \in Tokens : Login(u, t) \/ Expire(u, t)
               \/ \E b \in BOOLEAN : SetIdle(u, b)
        PROVE  FaultsAreAllowed'
    BY <1>4 DEF Login, Expire, SetIdle
  <1>5. CASE Crash \/ Restart \/ UNCHANGED vars
    BY <1>5 DEF Crash, Restart, vars
  <1>6. ASSUME NEW u \in Users, LateLaunch(u) PROVE FaultsAreAllowed'
    BY <1>1, <1>6 DEF LateLaunch, LateCreatePod, LateReplacePod, LatePodReplaced
  <1>. QED BY <1>2, <1>3, <1>4, <1>5, <1>6 DEF Next

\* Where releasing is reliable no leak fault is ever met.
LEMMA ReliableNeverLeaks == FaultsAreAllowed /\ ReleaseIsReliable => ~Leaky
  BY DEF FaultsAreAllowed, ReleaseIsReliable, Leaky, Met

---------------------------------------------------------------------------
(* Steps.                                                                  *)

\* What the Hub shows of each phase.
LEMMA HubViewValues ==
    /\ HubView("off") = "off"
    /\ HubView("up") = "on"
    /\ HubView("stopping") = "stopping" /\ HubView("culling") = "stopping"
    /\ \A p \in {"spawning", "preparing", "launching", "replacing", "waiting",
                 "failed"} : HubView(p) = "starting"
  BY DEF HubView

\* What the Hub shows of the servers after a change of one phase.
LEMMA ServerMoves ==
    ASSUME TypeOK, NEW u \in Users, NEW p \in Phases, To(u, p)
    PROVE  serverView' = [serverView EXCEPT ![u] = HubView(p)]
  BY DEF To, serverView, TypeOK

\* A call of stop() releases the lease or, where that is not reliable, may not.
LEMMA StopReleases ==
    ASSUME TypeOK, FaultsAreRecorded, FaultsAreAllowed', [Next]_vars,
           NEW u \in Users, NEW t, StopSparkCluster(u, t)
    PROVE  \/ leaseView' = [leaseView EXCEPT ![u] = FALSE]
           \/ ~ReleaseIsReliable /\ UNCHANGED leaseView
  <1>1. /\ cluster'[u] = 0 \/ Leaky'
        /\ \A v \in Users \ {u} : cluster'[v] = cluster[v]
    BY StopDeletesOrLeaks
  <1>2. CASE cluster'[u] = 0
    BY <1>1, <1>2 DEF leaseView
  <1>3. CASE cluster'[u] # 0
    <2>1. UNCHANGED cluster
      BY <1>3 DEF StopSparkCluster, DeleteOk, DeleteFails, DeleteLost, TypeOK
    <2>2. ~ReleaseIsReliable
      BY <1>1, <1>3 DEF FaultsAreAllowed, ReleaseIsReliable, Leaky, Met
    <2>. QED BY <2>1, <2>2 DEF leaseView
  <1>. QED BY <1>2, <1>3

\* stop() is Release.
LEMMA StopIsRelease ==
    ASSUME TypeOK, FaultsAreRecorded, FaultsAreAllowed', [Next]_vars,
           NEW u \in Users, phase[u] \in {"up", "failed"},
           NEW p \in {"stopping", "culling"}, Stop(u, p)
    PROVE  Lease!Release(u)
  <1>1. serverView' = [serverView EXCEPT ![u] = "stopping"]
    BY ServerMoves, HubViewValues DEF Stop, Phases
  <1>2. serverView[u] \in {"starting", "on"}
    BY HubViewValues DEF serverView
  <1>. QED
    BY <1>1, <1>2, StopReleases DEF Stop, userVars, Lease!Release, Lease!Move

\* A server dropped without a stop is Drop.
LEMMA ForgetIsDrop ==
    ASSUME TypeOK, FaultsAreAllowed, HeldClustersAreStoppable, NEW u \in Users,
           phase[u] \in {"up", "failed"}, PollReportsExit(u), Forget(u)
    PROVE  Lease!Drop(u)
  <1>1. serverView' = [serverView EXCEPT ![u] = "off"]
    BY ServerMoves, HubViewValues DEF Forget, Phases
  <1>2. serverView[u] \in {"starting", "on"}
    BY HubViewValues DEF serverView
  <1>3. ReleaseIsReliable => ~leaseView[u] \/ u \in strays
    <2>1. SUFFICES ASSUME ReleaseIsReliable PROVE cluster[u] = 0 \/ u \in strays
      BY DEF leaseView
    <2>2. ~Leaky /\ pod[u] = "none"
      BY <2>1, ReliableNeverLeaks DEF PollReportsExit, ReleaseIsReliable
    <2>. QED BY <2>2 DEF HeldClustersAreStoppable
  <1>4. UNCHANGED <<leaseView, strays>>
    BY DEF Forget, clusterVars, userVars, leaseView
  <1>. QED BY <1>1, <1>2, <1>3, <1>4 DEF Lease!Drop, Lease!Move

\* Every step of the server is a step of ServerLease or a stutter.
LEMMA LeaseStep ==
    ASSUME TypeOK, FaultsAreRecorded, FaultsAreAllowed, FaultsAreAllowed',
           HeldClustersAreStoppable, [Next]_vars
    PROVE  [Lease!LeaseNext]_(Lease!leaseVars)
  <1>. DEFINE LeaseMay == [Lease!LeaseNext]_(Lease!leaseVars)
  <1>0. CASE UNCHANGED <<serverView, leaseView, strays>>
    BY <1>0 DEF Lease!leaseVars
  <1>1. ASSUME NEW u \in Users, RequestSpawn(u) PROVE LeaseMay
    <2>1. serverView' = [serverView EXCEPT ![u] = "starting"]
      BY <1>1, ServerMoves, HubViewValues DEF RequestSpawn, Phases
    <2>2. serverView[u] = "off" /\ UNCHANGED <<leaseView, strays>>
      BY <1>1, HubViewValues
      DEF RequestSpawn, serverView, leaseView, clusterVars, userVars
    <2>3. Lease!Start(u)
      BY <2>1, <2>2 DEF Lease!Start, Lease!Move
    <2>. QED BY <2>3 DEF Lease!LeaseNext
  <1>2. ASSUME NEW u \in Users,
               \/ Configure(u) \/ CreatePod(u) \/ PodReplaced(u) \/ PodEndsEarly(u)
               \/ LaunchTimesOut(u)
        PROVE  LeaseMay
    <2>1. UNCHANGED <<leaseView, strays>>
      BY <1>2 DEF Configure, CreatePod, PodReplaced, PodEndsEarly, LaunchTimesOut,
                  clusterVars, userVars, leaseView
    <2>2. \A v \in Users : HubView(phase'[v]) = HubView(phase[v])
      BY <1>2, HubViewValues
      DEF Configure, CreatePod, PodReplaced, PodEndsEarly, LaunchTimesOut, To, TypeOK
    <2>3. UNCHANGED serverView
      BY <2>2 DEF serverView
    <2>. QED BY <1>0, <2>1, <2>3
  <1>3. ASSUME NEW u \in Users, CreateCluster(u) PROVE LeaseMay
    <2>1. serverView[u] = "starting" /\ UNCHANGED <<serverView, strays>>
      <3>1. serverView[u] = "starting"
        BY <1>3, HubViewValues DEF CreateCluster, serverView
      <3>2. serverView' = [serverView EXCEPT ![u] = "starting"]
        BY <1>3, ServerMoves, HubViewValues DEF CreateCluster, Phases
      <3>. QED BY <1>3, <3>1, <3>2 DEF CreateCluster, userVars, serverView
    <2>2. \/ leaseView' = [leaseView EXCEPT ![u] = TRUE]
          \/ UNCHANGED leaseView
      <3>1. CASE MakeCluster(u)
        <4>1. cluster'[u] # 0 /\ \A v \in Users \ {u} : cluster'[v] = cluster[v]
          BY <3>1 DEF MakeCluster, TypeOK
        <4>. QED BY <4>1 DEF leaseView
      <3>2. CASE UNCHANGED cluster
        BY <3>2 DEF leaseView
      <3>. QED
        BY <1>3, <3>1, <3>2
        DEF CreateCluster, StartSparkCluster, CreateOk, CreateFails, CreateLost
    <2>3. CASE leaseView' = [leaseView EXCEPT ![u] = TRUE]
      BY <2>1, <2>3 DEF Lease!Acquire, Lease!LeaseNext
    <2>. QED BY <1>0, <2>1, <2>2, <2>3
  <1>4. ASSUME NEW u \in Users, ReplacePod(u) PROVE LeaseMay
    <2>1. serverView[u] = "starting" /\ UNCHANGED <<serverView, strays>>
      <3>1. serverView[u] = "starting"
        BY <1>4, HubViewValues DEF ReplacePod, serverView
      <3>2. serverView' = [serverView EXCEPT ![u] = "starting"]
        BY <1>4, ServerMoves, HubViewValues DEF ReplacePod, Phases
      <3>. QED BY <1>4, <3>1, <3>2 DEF ReplacePod, userVars, serverView
    <2>2. \/ leaseView' = [leaseView EXCEPT ![u] = FALSE]
          \/ UNCHANGED leaseView
      BY <1>4, StopReleases DEF ReplacePod
    <2>3. CASE leaseView' = [leaseView EXCEPT ![u] = FALSE]
      BY <2>1, <2>3 DEF Lease!Lose, Lease!LeaseNext
    <2>. QED BY <1>0, <2>1, <2>2, <2>3
  <1>5. ASSUME NEW u \in Users, PodReady(u) PROVE LeaseMay
    <2>1. serverView' = [serverView EXCEPT ![u] = "on"]
      BY <1>5, ServerMoves, HubViewValues DEF PodReady, Phases
    <2>2. serverView[u] = "starting" /\ UNCHANGED <<leaseView, strays>>
      BY <1>5, HubViewValues DEF PodReady, serverView, leaseView, clusterVars, userVars
    <2>3. Lease!Ready(u)
      BY <2>1, <2>2 DEF Lease!Ready, Lease!Move
    <2>. QED BY <2>3 DEF Lease!LeaseNext
  <1>6. ASSUME NEW u \in Users, Poll(u) \/ UserStop(u) \/ AbortSpawn(u)
        PROVE  LeaseMay
    <2>1. /\ phase[u] \in {"up", "failed"}
          /\ \/ Stop(u, "stopping") \/ Stop(u, "culling")
             \/ PollReportsExit(u) /\ Forget(u)
      BY <1>6 DEF Poll, UserStop, AbortSpawn
    <2>2. Lease!Release(u) \/ Lease!Drop(u)
      BY <2>1, StopIsRelease, ForgetIsDrop
    <2>. QED BY <2>2 DEF Lease!LeaseNext
  <1>7. ASSUME NEW u \in Users, FinishStop(u) PROVE LeaseMay
    <2>1. serverView' = [serverView EXCEPT ![u] = "off"]
      BY <1>7, ServerMoves, HubViewValues DEF FinishStop, Phases
    <2>2. serverView[u] = "stopping" /\ UNCHANGED <<leaseView, strays>>
      BY <1>7, HubViewValues DEF FinishStop, serverView, leaseView, clusterVars, userVars
    <2>3. Lease!Gone(u)
      BY <2>1, <2>2 DEF Lease!Gone, Lease!Move
    <2>. QED BY <2>3 DEF Lease!LeaseNext
  <1>8. CASE OutsideStep \/ Crash
    BY <1>0, <1>8, OutsideFrame DEF Crash, serverView, leaseView, clusterVars, userVars
  <1>9. CASE Restart
    <2>1. serverView' = [u \in Users |-> "off"]
      BY <1>9, HubViewValues DEF Restart, FaultsAreRecorded, serverView
    <2>2. ~ReleaseIsReliable
      <3>1. "crash" \in faulted
        BY <1>9 DEF Restart, FaultsAreRecorded
      <3>. QED BY <3>1 DEF ReleaseIsReliable, FaultsAreAllowed, LeakFaults
    <2>3. UNCHANGED <<leaseView, strays>>
      BY <1>9 DEF Restart, clusterVars, userVars, leaseView
    <2>. QED BY <2>1, <2>2, <2>3 DEF Lease!HubLost, Lease!LeaseNext
  <1>10. ASSUME NEW u \in Users, StopFails(u) PROVE LeaseMay
    <2>1. UNCHANGED <<leaseView, strays>>
      BY <1>10 DEF StopFails, clusterVars, userVars, leaseView
    <2>2. CASE phase[u] = "stopping" /\ To(u, "off")
      <3>1. serverView' = [serverView EXCEPT ![u] = "off"]
        BY <2>2, ServerMoves, HubViewValues DEF Phases
      <3>2. serverView[u] = "stopping"
        BY <2>2, HubViewValues DEF serverView
      <3>3. Lease!Gone(u)
        BY <2>1, <3>1, <3>2 DEF Lease!Gone, Lease!Move
      <3>. QED BY <3>3 DEF Lease!LeaseNext
    <2>3. CASE phase[u] = "culling" /\ To(u, "up")
      <3>1. serverView' = [serverView EXCEPT ![u] = "on"]
        BY <2>3, ServerMoves, HubViewValues DEF Phases
      <3>2. serverView[u] = "stopping"
        BY <2>3, HubViewValues DEF serverView
      <3>3. Lease!Resume(u)
        BY <2>1, <3>1, <3>2 DEF Lease!Resume, Lease!Move
      <3>. QED BY <3>3 DEF Lease!LeaseNext
    <2>4. CASE phase[u] = "replacing" /\ To(u, "failed")
      <3>1. serverView' = [serverView EXCEPT ![u] = "starting"]
        BY <2>4, ServerMoves, HubViewValues DEF Phases
      <3>2. serverView[u] = "starting"
        BY <2>4, HubViewValues DEF serverView
      <3>3. UNCHANGED serverView
        BY <3>1, <3>2 DEF serverView
      <3>. QED BY <1>0, <2>1, <3>3
    <2>. QED BY <1>10, <2>2, <2>3, <2>4 DEF StopFails
  <1>11. ASSUME NEW u \in Users, NotebookDeletes(u) PROVE LeaseMay
    <2>1. UNCHANGED <<serverView, strays>>
      BY <1>11 DEF NotebookDeletes, NotebookCalls, serverView
    <2>2. leaseView' = [leaseView EXCEPT ![u] = FALSE]
      BY <1>11 DEF NotebookDeletes, leaseView, TypeOK
    <2>. QED BY <2>1, <2>2 DEF Lease!GiveBackOwn, Lease!LeaseNext
  <1>12. ASSUME NEW u \in Users, NotebookCreates(u) PROVE LeaseMay
    <2>1. UNCHANGED serverView
      BY <1>12 DEF NotebookCreates, NotebookCalls, serverView
    <2>2. cluster'[u] # 0 /\ \A v \in Users \ {u} : cluster'[v] = cluster[v]
      BY <1>12, NotebookFrame DEF NotebookCreates, NotebookDeletes, MakeCluster, TypeOK
    <2>3. leaseView' = [leaseView EXCEPT ![u] = TRUE]
      BY <2>2 DEF leaseView
    <2>4. serverView[u] \in {"starting", "on"} <=> ~PastItsStop(u)
      BY HubViewValues DEF serverView, PastItsStop, TypeOK, Phases
    <2>5. strays' = IF serverView[u] \in {"starting", "on"} THEN strays ELSE strays \cup {u}
      BY <1>12, <2>4 DEF NotebookCreates
    <2>. QED BY <2>1, <2>3, <2>5 DEF Lease!TakeOwn, Lease!LeaseNext
  <1>13. ASSUME NEW u \in Users, LateLaunch(u) PROVE LeaseMay
    <2>1. UNCHANGED <<serverView, strays>> /\ "launchTimeout" \in faulted
      BY <1>13, LateFrame DEF serverView
    <2>2. ~ReleaseIsReliable
      BY <2>1 DEF ReleaseIsReliable, FaultsAreAllowed, LeakFaults
    <2>3. ASSUME NEW l \in late[u], LateReplacePod(u, l) PROVE LeaseMay
      <3>1. \/ leaseView' = [leaseView EXCEPT ![u] = FALSE]
            \/ UNCHANGED leaseView
        BY <2>3, StopReleases DEF LateReplacePod
      <3>. QED BY <1>0, <2>1, <2>2, <3>1 DEF Lease!Lose, Lease!LeaseNext
    <2>4. CASE UNCHANGED clusterVars
      BY <1>0, <2>1, <2>4 DEF clusterVars, leaseView
    <2>. QED BY <1>13, <2>3, <2>4 DEF LateLaunch, LateCreatePod, LatePodReplaced
  <1>. QED
    BY <1>10, <1>11, <1>12, <1>13, <1>1, <1>2, <1>3, <1>4, <1>5, <1>6, <1>7, <1>8, <1>9 DEF Next, OutsideStep

\* The initial state maps to the initial state of ServerLease.
LEMMA LeaseInitially == Init => Lease!LeaseInit
  <1>. SUFFICES ASSUME Init PROVE Lease!LeaseInit
    OBVIOUS
  <1>1. serverView = [u \in Users |-> "off"]
    BY HubViewValues DEF Init, serverView
  <1>2. \A u \in Users : (cluster[u] # 0) = FALSE
    BY DEF Init
  <1>3. leaseView = [u \in Users |-> FALSE]
    BY <1>2 DEF leaseView
  <1>4. strays = {}
    BY DEF Init
  <1>. QED BY <1>1, <1>3, <1>4 DEF Lease!LeaseInit

\* Start, stop, poll, users and faults together implement ServerLease, whatever
\* the faults: with leak faults the lease is not reliable, without it is.
THEOREM LeaseImplemented == Spec => ImplementsLease
  <1>1. Init => FaultsAreAllowed /\ FaultsAreRecorded /\ HeldClustersAreStoppable
    BY DEF Init, FaultsAreAllowed, FaultsAreRecorded, HeldClustersAreStoppable,
           PastItsStop
  <1>2. TypeOK /\ FaultsAreRecorded /\ HeldClustersAreStoppable /\ [Next]_vars
           => HeldClustersAreStoppable'
    BY NextHeld
  <1>3. TypeOK /\ FaultsAreRecorded /\ FaultsAreAllowed /\ FaultsAreAllowed'
           /\ HeldClustersAreStoppable /\ [Next]_vars
           => [Lease!LeaseNext]_(Lease!leaseVars)
    BY LeaseStep
  <1>. QED
    BY <1>1, <1>2, <1>3, NextAllowed, LeaseInitially, TypeCorrect, FaultsRecorded, PTL
    DEF Spec, ImplementsLease, Lease!LeaseSpec
---------------------------------------------------------------------------
(* What the abstract specification promises, promised by the detailed one. *)

\* A step of the lease keeps it with a server that starts or runs.
LEMMA LeaseStepKeeps ==
    ASSUME Lease!LeaseTypeOK, Lease!NoStrayLease, [Lease!LeaseNext]_(Lease!leaseVars)
    PROVE  Lease!LeaseTypeOK' /\ Lease!NoStrayLease'
  <1>. USE DEF Lease!LeaseTypeOK, Lease!NoStrayLease, Lease!Move
  <1>1. ASSUME NEW u \in Users, Lease!Start(u) \/ Lease!Ready(u) \/ Lease!Gone(u)
                               \/ Lease!Resume(u)
        PROVE  Lease!LeaseTypeOK' /\ Lease!NoStrayLease'
    BY <1>1 DEF Lease!Start, Lease!Ready, Lease!Gone, Lease!Resume
  <1>2. ASSUME NEW u \in Users, Lease!Acquire(u) \/ Lease!Lose(u)
        PROVE  Lease!LeaseTypeOK' /\ Lease!NoStrayLease'
    BY <1>2 DEF Lease!Acquire, Lease!Lose
  <1>3. ASSUME NEW u \in Users, Lease!Release(u) \/ Lease!Drop(u)
        PROVE  Lease!LeaseTypeOK' /\ Lease!NoStrayLease'
    BY <1>3 DEF Lease!Release, Lease!Drop
  <1>4. CASE Lease!HubLost
    BY <1>4 DEF Lease!HubLost
  <1>5. CASE UNCHANGED Lease!leaseVars
    BY <1>5 DEF Lease!leaseVars
  <1>6. ASSUME NEW u \in Users, Lease!TakeOwn(u) \/ Lease!GiveBackOwn(u)
        PROVE  Lease!LeaseTypeOK' /\ Lease!NoStrayLease'
    BY <1>6 DEF Lease!TakeOwn, Lease!GiveBackOwn
  <1>. QED BY <1>6, <1>1, <1>2, <1>3, <1>4, <1>5 DEF Lease!LeaseNext

\* ServerLease alone promises that no lease is stray.
LEMMA LeaseIsNeverStray == Lease!LeaseSpec => []Lease!NoStrayLease
  <1>1. Lease!LeaseInit => Lease!LeaseTypeOK /\ Lease!NoStrayLease
    BY DEF Lease!LeaseInit, Lease!LeaseTypeOK, Lease!NoStrayLease
  <1>. QED BY <1>1, LeaseStepKeeps, PTL DEF Lease!LeaseSpec

\* A user holds a Spark cluster only from inside start() until stop() begins to take
\* the server away, or because a notebook of theirs made it later, where no leak
\* fault is met and the Hub deletes exited pods.
ClustersBelongToServers == Lease!NoStrayLease

\* Start, stop and poll keep what ServerLease promises, by implementing it.
THEOREM NoClusterIsStray == Spec => []ClustersBelongToServers
  <1>. QED
    BY LeaseImplemented, LeaseIsNeverStray, PTL DEF ImplementsLease, ClustersBelongToServers

=============================================================================
