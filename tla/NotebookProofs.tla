---------------------------- MODULE NotebookProofs ----------------------------
(***************************************************************************)
(* Proofs about NotebookSession, for any notebooks and any bounds.         *)
(***************************************************************************)
EXTENDS NotebookSession, TLAPS

\* A listing is under way only while there is a database left to look at.
ListingHasMore ==
    \A n \in Notebooks : doing[n] \in {"open", "list"} => left[n] >= 1

\* Who was told of a change and still counts by name has not ended.
ToldRun == {toldCluster, toldKeys} \subseteq running \cup {Server, Outside}

\* The container's own environment is out of date only after a change.
PodIsCurrent ==
    /\ toldCluster = Server => pod.master = cluster
    /\ toldKeys = Server => pod.key = key

\* Only a notebook that runs is in a call.
CallsRun == \A n \in Notebooks : doing[n] # "idle" => n \in running

\* Inside get_spark_session the process has no session.
NoneInCall == \A n \in Notebooks : doing[n] \in Kinds => session[n] = NoSession

HeldInv == SessionsAreHeld /\ NoneInCall
TypeInv == TypeOK /\ ListingHasMore
EnvironmentInv ==
    ToldRun /\ PodIsCurrent /\ EnvironmentIsCurrent /\ CallsRun

---------------------------------------------------------------------------
(* Lemmas about the helpers.                                               *)

\* What the environment of a process configures is a session, never the lack of
\* one: get_spark_session returns a session or raises.
LEMMA ConfiguredType ==
    ASSUME TypeOK, NEW n \in Notebooks, NEW kind \in Kinds
    PROVE  Configured(n, kind) \in Sessions /\ Configured(n, kind) # NoSession
<1>1. (IF kind = "local" THEN NoMaster ELSE master[n]) \in Addresses
  BY DEF TypeOK, Addresses
<1>2. (IF kind = "delta" THEN keys[n] ELSE 0) \in Keys
  BY BoundAssumption DEF TypeOK, Keys
<1>3. Configured(n, kind) \in Sessions
  BY <1>1, <1>2 DEF Configured, Sessions
<1> QED  BY <1>3, NoneAssumption

\* Stopping the session of a process leaves sessions and variables well typed,
\* whether the variable held the session or not.
LEMMA StopSessionType ==
    ASSUME TypeOK, NEW n \in Notebooks, StopSession(n)
    PROVE  /\ session' \in [Notebooks -> Sessions \cup {NoSession}]
           /\ spark' \in [Notebooks -> {"none", "live", "stopped"}]
           /\ orphaned' \subseteq Notebooks
  BY DEF TypeOK, StopSession, AfterStop, Set

\* So does a get_spark_session that raises with the session made.
LEMMA OrphanSessionType ==
    ASSUME TypeOK, NEW n \in Notebooks, NEW kind \in Kinds, OrphanSession(n, kind)
    PROVE  /\ session' \in [Notebooks -> Sessions \cup {NoSession}]
           /\ orphaned' \subseteq Notebooks
<1>1. Configured(n, kind) \in Sessions
  BY ConfiguredType
<1> QED  BY <1>1 DEF TypeOK, OrphanSession, Set

---------------------------------------------------------------------------
(* Types.                                                                  *)

\* The server has started: the first state is well typed.
LEMMA TypeInit == Init => TypeInv
  BY BoundAssumption DEF Init, TypeInv, TypeOK, ListingHasMore, Masters, Keys, Addresses

\* Calls of create_cluster, delete_cluster and get_minio_credentials keep types.
LEMMA TypeManage ==
    ASSUME TypeInv, NEW n \in Notebooks,
           CreateCluster(n) \/ DeleteCluster(n) \/ GetMinioCredentials(n)
    PROVE  TypeInv'
<1> USE BoundAssumption DEF TypeInv, TypeOK, ListingHasMore, Masters, Keys, Addresses,
        Set,
        environmentVars, sessionVars, callVars
<1>1. CASE CreateCluster(n)
  BY <1>1 DEF CreateCluster, NewCluster
<1>2. CASE DeleteCluster(n)
  BY <1>2 DEF DeleteCluster
<1>3. CASE GetMinioCredentials(n)
  BY <1>3 DEF GetMinioCredentials
<1> QED  BY <1>1, <1>2, <1>3

\* Calls of get_spark_session, and the user's own spark.stop(), keep types.
LEMMA TypeSession ==
    ASSUME TypeInv, NEW n \in Notebooks, NEW kind \in Kinds,
           \/ GetSparkSession(n, kind) \/ OpenSession(n)
           \/ GetSessionRaises(n) \/ UserStopsSession(n)
    PROVE  TypeInv'
<1> USE DEF TypeInv, TypeOK, ListingHasMore, Set, Do, sharedVars, environmentVars,
        sessionVars, callVars
<1>1. CASE GetSparkSession(n, kind)
  BY <1>1, StopSessionType DEF GetSparkSession, Kinds
<1>2. CASE OpenSession(n)
  <2>1. Configured(n, doing[n]) \in Sessions
    BY <1>2, ConfiguredType DEF OpenSession
  <2> QED  BY <1>2, <2>1 DEF OpenSession
<1>3. CASE GetSessionRaises(n)
  <2>1. CASE UNCHANGED sessionVars
    BY <1>3, <2>1 DEF GetSessionRaises
  <2>2. CASE OrphanSession(n, doing[n]) /\ UNCHANGED spark
    BY <1>3, <2>2, OrphanSessionType DEF GetSessionRaises
  <2> QED  BY <1>3, <2>1, <2>2 DEF GetSessionRaises
<1>4. CASE UserStopsSession(n)
  BY <1>4, StopSessionType DEF UserStopsSession
<1> QED  BY <1>1, <1>2, <1>3, <1>4

\* Listings keep types; the count of databases left cannot fall below zero.
LEMMA TypeListing ==
    ASSUME TypeInv, NEW n \in Notebooks, NEW found \in 1..MaxDatabases,
           \/ BeginListing(n, found) \/ ListingOpens(n)
           \/ ListingRaises(n) \/ ListingCloses(n)
    PROVE  TypeInv'
<1> USE BoundAssumption DEF TypeInv, TypeOK, ListingHasMore, Set, Do, sharedVars,
        environmentVars, sessionVars, callVars
<1>1. CASE BeginListing(n, found)
  BY <1>1 DEF BeginListing
<1>2. CASE ListingOpens(n)
  <2>1. Configured(n, "delta") \in Sessions
    BY ConfiguredType DEF Kinds
  <2> QED  BY <1>2, <2>1 DEF ListingOpens, AfterStop
<1>3. CASE ListingRaises(n)
  <2>1. CASE StopSession(n) \/ UNCHANGED sessionVars
    BY <1>3, <2>1, StopSessionType DEF ListingRaises
  <2>2. CASE OrphanSession(n, "delta") /\ spark' = AfterStop(n)
    BY <1>3, <2>2, OrphanSessionType DEF ListingRaises, AfterStop, Kinds
  <2> QED  BY <1>3, <2>1, <2>2 DEF ListingRaises
<1>4. CASE ListingCloses(n)
  <2>1. left[n] \in 1..MaxDatabases
    BY <1>4 DEF ListingCloses
  <2>2. left[n] = 1 \/ left[n] - 1 \in 1..MaxDatabases
    BY <2>1
  <2> QED  BY <1>4, <2>1, <2>2, StopSessionType DEF ListingCloses
<1> QED  BY <1>1, <1>2, <1>3, <1>4

\* Notebooks and servers that start and end keep types.
LEMMA TypeProcess ==
    ASSUME TypeInv,
           \/ StartServer \/ HubChanges
           \/ \E n \in Notebooks : StartNotebook(n) \/ EndNotebook(n)
    PROVE  TypeInv'
<1> USE BoundAssumption DEF TypeInv, TypeOK, ListingHasMore, Set, Do, sharedVars,
        environmentVars, sessionVars, callVars
<1>1. CASE StartServer
  <2>1. made \in 0..MaxClusters /\ 1..made \subseteq Masters
    BY DEF Masters
  <2>2. cluster' \in Masters \cup {NoMaster} /\ made' \in 0..MaxClusters
    BY <1>1 DEF StartServer, NewCluster, Masters
  <2>3. key' \in Keys /\ key' = key + 1
    BY <1>1 DEF StartServer, Keys
  <2>4. pod' \in [master : Addresses, key : Keys]
    <3>1. CASE pod' = [master |-> made + 1, key |-> key + 1] /\ NewCluster
      BY <3>1, <2>3 DEF NewCluster, Addresses, Masters
    <3>2. CASE pod' \in [master : InheritedMasters, key : {key + 1}]
      BY <3>2, <2>1, <2>3 DEF InheritedMasters, Addresses
    <3> QED  BY <1>1, <3>1, <3>2 DEF StartServer
  <2> QED  BY <1>1, <2>2, <2>3, <2>4 DEF StartServer
<1>4. CASE HubChanges
  BY <1>4 DEF HubChanges, NewCluster, Masters, Keys
<1>2. ASSUME NEW n \in Notebooks, StartNotebook(n) PROVE TypeInv'
  BY <1>2 DEF StartNotebook
<1>3. ASSUME NEW n \in Notebooks, EndNotebook(n) PROVE TypeInv'
  BY <1>3 DEF EndNotebook
<1> QED  BY <1>1, <1>2, <1>3, <1>4

\* Every step keeps the types.
LEMMA TypeStep == TypeInv /\ [Next]_vars => TypeInv'
<1> SUFFICES ASSUME TypeInv, [Next]_vars PROVE TypeInv'
  OBVIOUS
<1>1. ASSUME NEW n \in Notebooks,
             CreateCluster(n) \/ DeleteCluster(n) \/ GetMinioCredentials(n)
      PROVE  TypeInv'
  BY <1>1, TypeManage
<1>2. ASSUME NEW n \in Notebooks, NEW kind \in Kinds, GetSparkSession(n, kind)
      PROVE  TypeInv'
  BY <1>2, TypeSession
<1>3. ASSUME NEW n \in Notebooks, NEW found \in 1..MaxDatabases,
             BeginListing(n, found)
      PROVE  TypeInv'
  BY <1>3, TypeListing
<1>4. ASSUME NEW n \in Notebooks,
             OpenSession(n) \/ GetSessionRaises(n) \/ UserStopsSession(n)
      PROVE  TypeInv'
  BY <1>4, TypeSession DEF Kinds
<1>5. ASSUME NEW n \in Notebooks,
             ListingOpens(n) \/ ListingRaises(n) \/ ListingCloses(n)
      PROVE  TypeInv'
  <2>1. doing[n] \in {"open", "list"}
    BY <1>5 DEF ListingOpens, ListingRaises, ListingCloses
  <2>2. 1 \in 1..MaxDatabases
    BY <2>1, BoundAssumption DEF TypeInv, TypeOK, ListingHasMore
  <2> QED  BY <1>5, <2>2, TypeListing
<1>6. CASE \/ StartServer \/ HubChanges
          \/ \E n \in Notebooks : StartNotebook(n) \/ EndNotebook(n)
  BY <1>6, TypeProcess
<1>7. CASE UNCHANGED vars
  BY <1>7 DEF vars, TypeInv, TypeOK, ListingHasMore
<1> QED  BY <1>1, <1>2, <1>3, <1>4, <1>5, <1>6, <1>7 DEF Next, CallProceeds

\* Every reachable state is well typed, for any notebooks, clusters, keys and
\* databases; in particular a listing never looks at more databases than it found.
THEOREM TypeCorrect == Spec => []TypeOK
<1>1. TypeInv => TypeOK
  BY DEF TypeInv
<1> QED  BY TypeInit, TypeStep, <1>1, PTL DEF Spec

---------------------------------------------------------------------------
(* The environment of a notebook.                                          *)

\* The container has just been given its address and keys, and nothing runs.
LEMMA EnvironmentInit == Init => EnvironmentInv
  BY DEF Init, EnvironmentInv, ToldRun, PodIsCurrent, EnvironmentIsCurrent,
         CallsRun

\* A call that changes the cluster or the keys keeps the caller's environment in
\* step, or takes away every other notebook's claim to be so.
LEMMA EnvironmentManage ==
    ASSUME TypeOK, EnvironmentInv, NEW n \in Notebooks,
           CreateCluster(n) \/ DeleteCluster(n) \/ GetMinioCredentials(n)
    PROVE  EnvironmentInv'
<1> USE NameAssumption DEF EnvironmentInv, ToldRun, PodIsCurrent,
        EnvironmentIsCurrent, CallsRun, TypeOK, Ready, Set, environmentVars,
        sessionVars, callVars
<1>1. CASE CreateCluster(n)
  BY <1>1 DEF CreateCluster, NewCluster
<1>2. CASE DeleteCluster(n)
  BY <1>2 DEF DeleteCluster
<1>3. CASE GetMinioCredentials(n)
  BY <1>3 DEF GetMinioCredentials
<1> QED  BY <1>1, <1>2, <1>3

\* Sessions and listings leave cluster, keys and environments alone; only a
\* notebook that runs begins a call.
LEMMA EnvironmentCall ==
    ASSUME TypeOK, EnvironmentInv, NEW n \in Notebooks,
           \/ \E kind \in Kinds : GetSparkSession(n, kind)
           \/ \E found \in 1..MaxDatabases : BeginListing(n, found)
           \/ UserStopsSession(n)
           \/ CallProceeds(n)
    PROVE  EnvironmentInv'
<1>1. /\ UNCHANGED <<sharedVars, running, environmentVars>>
      /\ n \in running
      /\ doing' = doing \/ \E d \in Kinds \cup {"idle", "open", "list"} : Do(n, d)
  BY DEF GetSparkSession, BeginListing, UserStopsSession, CallProceeds, OpenSession,
         GetSessionRaises, ListingOpens, ListingRaises, ListingCloses, Ready,
         EnvironmentInv, CallsRun, callVars, Kinds
<1>2. CallsRun'
  BY <1>1 DEF EnvironmentInv, CallsRun, Do, TypeOK
<1> QED  BY <1>1, <1>2 DEF EnvironmentInv, ToldRun, PodIsCurrent,
           EnvironmentIsCurrent, sharedVars, environmentVars

\* A notebook that starts inherits the container's environment; one that ends
\* while it counts as a changer counts as an outsider from then on.
LEMMA EnvironmentProcess ==
    ASSUME TypeOK, EnvironmentInv,
           \/ StartServer \/ HubChanges
           \/ \E n \in Notebooks : StartNotebook(n) \/ EndNotebook(n)
    PROVE  EnvironmentInv'
<1> USE NameAssumption DEF EnvironmentInv, ToldRun, PodIsCurrent,
        EnvironmentIsCurrent, CallsRun, TypeOK, Set, sharedVars, environmentVars,
        sessionVars, callVars
<1>1. CASE StartServer
  <2>1. running' = {} /\ \A n \in Notebooks : doing'[n] = "idle"
    BY <1>1 DEF StartServer
  <2>2. toldCluster' \in {Server, Outside} /\ toldKeys' = Server
    BY <1>1 DEF StartServer
  <2>3. pod'.key = key' /\ (toldCluster' = Server => pod'.master = cluster')
    BY <1>1 DEF StartServer, NewCluster
  <2>4. PodIsCurrent'
    BY <2>3
  <2> QED  BY <2>1, <2>2, <2>4
<1>4. CASE HubChanges
  BY <1>4 DEF HubChanges, NewCluster
<1>2. ASSUME NEW n \in Notebooks, StartNotebook(n) PROVE EnvironmentInv'
  BY <1>2 DEF StartNotebook
<1>3. ASSUME NEW n \in Notebooks, EndNotebook(n) PROVE EnvironmentInv'
  <2>1. CallsRun'
    BY <1>3 DEF EndNotebook, Do
  <2>2. ToldRun'
    BY <1>3 DEF EndNotebook
  <2>3. ASSUME NEW m \in running'
        PROVE  /\ toldCluster' \in {m, Server} => master'[m] = cluster'
               /\ toldKeys' \in {m, Server} => keys'[m] = key'
    BY <1>3, <2>3 DEF EndNotebook
  <2>4. PodIsCurrent'
    BY <1>3 DEF EndNotebook
  <2> QED  BY <2>1, <2>2, <2>3, <2>4
<1> QED  BY <1>1, <1>2, <1>3, <1>4

\* Every step keeps the invariant.
LEMMA EnvironmentStep ==
    TypeInv /\ EnvironmentInv /\ [Next]_vars => EnvironmentInv'
<1> SUFFICES ASSUME TypeOK, EnvironmentInv, [Next]_vars PROVE EnvironmentInv'
  BY DEF TypeInv
<1>1. CASE UNCHANGED vars
  BY <1>1 DEF vars, EnvironmentInv, ToldRun, PodIsCurrent, EnvironmentIsCurrent,
         CallsRun
<1>2. CASE \/ StartServer \/ HubChanges
          \/ \E n \in Notebooks : StartNotebook(n) \/ EndNotebook(n)
  BY <1>2, EnvironmentProcess
<1>3. ASSUME NEW n \in Notebooks,
             CreateCluster(n) \/ DeleteCluster(n) \/ GetMinioCredentials(n)
      PROVE  EnvironmentInv'
  BY <1>3, EnvironmentManage
<1>4. ASSUME NEW n \in Notebooks,
             \/ \E kind \in Kinds : GetSparkSession(n, kind)
             \/ \E found \in 1..MaxDatabases : BeginListing(n, found)
             \/ UserStopsSession(n)
             \/ CallProceeds(n)
      PROVE  EnvironmentInv'
  BY <1>4, EnvironmentCall
<1> QED  BY <1>1, <1>2, <1>3, <1>4 DEF Next

\* Invariants of the specification: types and environment together.
LEMMA Invariants == Spec => [](TypeInv /\ EnvironmentInv)
  BY TypeInit, TypeStep, EnvironmentInit, EnvironmentStep, PTL DEF Spec

\* create_cluster, delete_cluster and get_minio_credentials keep the environment
\* of the calling notebook in step with cluster and keys: it is current unless
\* another process changed one of them or an answer was lost.
THEOREM EnvironmentCurrent == Spec => []EnvironmentIsCurrent
<1>1. EnvironmentInv => EnvironmentIsCurrent
  BY DEF EnvironmentInv
<1> QED  BY Invariants, <1>1, PTL

---------------------------------------------------------------------------
(* Sessions.                                                               *)

\* Every step keeps sessions held: whoever stops or leaves a session sees to the
\* variable, and a listing that opens one closes it.
LEMMA SessionsStep ==
    TypeInv /\ HeldInv /\ [Next]_vars => HeldInv'
<1> SUFFICES ASSUME TypeOK, HeldInv, [Next]_vars PROVE HeldInv'
  BY DEF TypeInv
<1> USE DEF TypeOK, HeldInv, SessionsAreHeld, NoneInCall, Kinds, Set, Do, Ready,
        StopSession, AfterStop, OrphanSession, sharedVars, environmentVars,
        sessionVars, callVars
<1>1. CASE UNCHANGED vars
  BY <1>1 DEF vars
<1>2. CASE StartServer \/ HubChanges
  BY <1>2 DEF StartServer, HubChanges
<1>3. ASSUME NEW n \in Notebooks,
             CreateCluster(n) \/ DeleteCluster(n) \/ GetMinioCredentials(n)
      PROVE  HeldInv'
  BY <1>3 DEF CreateCluster, DeleteCluster, GetMinioCredentials
<1>4. ASSUME NEW n \in Notebooks, StartNotebook(n) \/ EndNotebook(n)
      PROVE  HeldInv'
  BY <1>4 DEF StartNotebook, EndNotebook
<1>5. ASSUME NEW n \in Notebooks, NEW kind \in Kinds, GetSparkSession(n, kind)
      PROVE  HeldInv'
  BY <1>5 DEF GetSparkSession
<1>6. ASSUME NEW n \in Notebooks, NEW found \in 1..MaxDatabases,
             BeginListing(n, found)
      PROVE  HeldInv'
  BY <1>6 DEF BeginListing
<1>7. ASSUME NEW n \in Notebooks, UserStopsSession(n) PROVE HeldInv'
  BY <1>7 DEF UserStopsSession
<1>8. ASSUME NEW n \in Notebooks, OpenSession(n) PROVE HeldInv'
  <2>1. Configured(n, doing[n]) # NoSession
    BY <1>8, ConfiguredType DEF OpenSession
  <2> QED  BY <1>8, <2>1 DEF OpenSession
<1>9. ASSUME NEW n \in Notebooks, ListingOpens(n) PROVE HeldInv'
  <2>1. Configured(n, "delta") # NoSession
    BY ConfiguredType DEF Kinds
  <2> QED  BY <1>9, <2>1 DEF ListingOpens
<1>10. ASSUME NEW n \in Notebooks, GetSessionRaises(n) PROVE HeldInv'
  <2>1. Configured(n, doing[n]) # NoSession
    BY <1>10, ConfiguredType DEF GetSessionRaises
  <2> QED  BY <1>10, <2>1 DEF GetSessionRaises
<1>11. ASSUME NEW n \in Notebooks, ListingRaises(n) PROVE HeldInv'
  <2>1. Configured(n, "delta") # NoSession
    BY ConfiguredType DEF Kinds
  <2> QED  BY <1>11, <2>1 DEF ListingRaises
<1>12. ASSUME NEW n \in Notebooks, ListingCloses(n) PROVE HeldInv'
  BY <1>12 DEF ListingCloses
<1> QED  BY <1>1, <1>2, <1>3, <1>4, <1>5, <1>6, <1>7, <1>8, <1>9, <1>10,
           <1>11, <1>12
         DEF Next, CallProceeds

\* No call leaves a session behind, or a variable that passes for live without
\* one, whatever raises and whichever call meets whose session.
THEOREM SessionsHeld == Spec => []SessionsAreHeld
<1>1. Init => HeldInv
  BY DEF Init, HeldInv, SessionsAreHeld, NoneInCall, Kinds
<1>2. HeldInv => SessionsAreHeld
  BY DEF HeldInv
<1> QED  BY <1>1, <1>2, TypeInit, TypeStep, SessionsStep, PTL DEF Spec

\* A call of get_spark_session, from the notebook or from a listing, makes the one
\* session that the environment of the moment configures, or none.
LEMMA WhoOpens ==
    ASSUME TypeOK, EnvironmentInv, [Next]_vars, NEW n \in Notebooks,
           session'[n] \notin {NoSession, session[n]}
    PROVE  /\ n \in running
           /\ \E kind \in Kinds : session'[n] = Configured(n, kind)
<1> USE DEF TypeOK, Set, StopSession, Ready, sharedVars, environmentVars, sessionVars,
        callVars
<1>1. CASE UNCHANGED vars
  BY <1>1 DEF vars
<1>2. CASE StartServer \/ HubChanges
  BY <1>2 DEF StartServer, HubChanges
<1>3. ASSUME NEW m \in Notebooks,
             \/ StartNotebook(m) \/ EndNotebook(m) \/ CreateCluster(m)
             \/ DeleteCluster(m) \/ GetMinioCredentials(m) \/ UserStopsSession(m)
      PROVE  FALSE
  BY <1>3 DEF StartNotebook, EndNotebook, CreateCluster, DeleteCluster,
         GetMinioCredentials, UserStopsSession
<1>4. ASSUME NEW m \in Notebooks, NEW kind \in Kinds, GetSparkSession(m, kind)
      PROVE  FALSE
  BY <1>4 DEF GetSparkSession
<1>5. ASSUME NEW m \in Notebooks, NEW found \in 1..MaxDatabases,
             BeginListing(m, found)
      PROVE  FALSE
  BY <1>5 DEF BeginListing
<1>6. ASSUME NEW m \in Notebooks, CallProceeds(m)
      PROVE  /\ n \in running
             /\ \E kind \in Kinds : session'[n] = Configured(n, kind)
  <2>1. doing[m] # "idle"
    BY <1>6 DEF CallProceeds, OpenSession, GetSessionRaises, ListingOpens,
           ListingRaises, ListingCloses, Kinds
  <2>2. m \in running
    BY <2>1 DEF EnvironmentInv, CallsRun
  <2>3. \/ session' = session \/ session' = Set(session, m, NoSession)
        \/ \E kind \in Kinds : session' = Set(session, m, Configured(m, kind))
    BY <1>6 DEF CallProceeds, OpenSession, GetSessionRaises, ListingOpens,
           ListingRaises, ListingCloses, OrphanSession, Kinds
  <2>4. PICK kind \in Kinds : session' = Set(session, m, Configured(m, kind))
    BY <2>3
  <2>5. m = n /\ session'[n] = Configured(n, kind)
    BY <2>4
  <2> QED  BY <2>2, <2>5
<1> QED  BY <1>1, <1>2, <1>3, <1>4, <1>5, <1>6 DEF Next

\* Whatever calls and processes come between, what get_spark_session makes agrees
\* with the cluster and the keys this notebook was the last to be told of: it is
\* built from the environment of the moment, not from an earlier one.
THEOREM NewSessions == Spec => NewSessionWorks
<1> DEFINE Opens(n) == session'[n] \notin {NoSession, session[n]}
           Fits(n) == /\ session'[n].kind # "local" /\ toldCluster \in {n, Server}
                            => session'[n].master = cluster
                      /\ session'[n].kind = "delta" /\ toldKeys \in {n, Server}
                            => session'[n].key = key
<1>1. TypeInv /\ EnvironmentInv /\ [Next]_vars
        => [\A n \in Notebooks : Opens(n) => Fits(n)]_vars
  <2> SUFFICES ASSUME TypeInv, EnvironmentInv, [Next]_vars,
                      NEW n \in Notebooks, Opens(n)
               PROVE  Fits(n)
    OBVIOUS
  <2>1. n \in running
    BY WhoOpens DEF TypeInv
  <2>2. PICK kind \in Kinds : session'[n] = Configured(n, kind)
    BY WhoOpens DEF TypeInv
  <2>3. /\ toldCluster \in {n, Server} => master[n] = cluster
        /\ toldKeys \in {n, Server} => keys[n] = key
    BY <2>1 DEF EnvironmentInv, EnvironmentIsCurrent
  <2>4. session'[n].kind = kind
    BY <2>2 DEF Configured
  <2>5. kind # "local" => session'[n].master = master[n]
    BY <2>2 DEF Configured
  <2>6. kind = "delta" => session'[n].key = keys[n]
    BY <2>2 DEF Configured
  <2> QED  BY <2>3, <2>4, <2>5, <2>6
<1> QED  BY <1>1, Invariants, PTL DEF Spec, NewSessionWorks
=============================================================================
