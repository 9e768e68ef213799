--------------------------- MODULE NotebookSession ---------------------------
(***************************************************************************)
(* The notebooks of one user: every notebook is a process of its own in    *)
(* the user's container, with its own environment and Spark session, while *)
(* the Spark cluster and the MinIO keys are one for all of them.           *)
(* spark/utils.py, spark/cluster.py and minio_governance/utils.py as a     *)
(* notebook calls them, and the sessions that the listings of              *)
(* spark/data_store.py open for themselves.                                *)
(*                                                                         *)
(* The deployment hands out governance credentials                         *)
(* (USE_DATA_GOVERNANCE_CREDENTIALS is "true"), and asking for them makes  *)
(* new ones.                                                               *)
(***************************************************************************)
EXTENDS Naturals

CONSTANTS
    Notebooks,      \* kernel processes the container can run
    Server,         \* the start of the container, which tells every notebook
    Outside,        \* who tells none of them: the Hub, ended processes
    NoMaster,       \* SPARK_MASTER_URL not set
    Foreign,        \* a SPARK_MASTER_URL of another user's cluster
    NoSession,      \* no active Spark session in the process
    AnswersGetLost, \* a request may be carried out and its answer be lost
    MaxClusters,    \* bound: clusters ever made for the user
    MaxKeys,        \* bound: key pairs ever made for the user
    MaxDatabases    \* bound: databases one listing finds

\* get_spark_session's arguments: local=True, delta_lake=False or neither.
Kinds == {"local", "plain", "delta"}
Masters == 1..MaxClusters
Keys == 0..MaxKeys
Addresses == Masters \cup {NoMaster, Foreign}
Sessions == [kind : Kinds, master : Addresses, key : Keys]

ASSUME NameAssumption ==
    /\ Server \notin Notebooks /\ Outside \notin Notebooks /\ Server # Outside
    /\ AnswersGetLost \in BOOLEAN
ASSUME NoneAssumption ==
    NoMaster \notin Nat /\ Foreign \notin Nat /\ NoSession \notin Sessions
ASSUME BoundAssumption ==
    MaxClusters \in Nat \ {0} /\ MaxKeys \in Nat \ {0} /\ MaxDatabases \in Nat

VARIABLES
    cluster,    \* the user's live cluster, NoMaster if there is none
    made,       \* clusters made so far
    key,        \* the key pair MinIO accepts
    pod,        \* what the container's environment holds: [master, key]
    running,    \* the notebooks that run
    master,     \* os.environ["SPARK_MASTER_URL"] of each notebook
    keys,       \* os.environ["MINIO_ACCESS_KEY"], ["MINIO_SECRET_KEY"] of each
    session,    \* the active session of each notebook's process
    spark,      \* the session in the notebook's own variable
    doing,      \* the call the notebook is in
    left,       \* databases a listing has yet to look at
    toldCluster,\* whom the last change of the cluster was told (history)
    toldKeys,   \* whom the last change of the keys was told (history)
    orphaned    \* whose get_spark_session raised with the session made (history)

sharedVars == <<cluster, made, key, pod, toldCluster, toldKeys>>
environmentVars == <<master, keys>>
sessionVars == <<session, spark, orphaned>>
callVars == <<doing, left>>
vars == <<cluster, made, key, pod, running, master, keys, session, spark,
          doing, left, toldCluster, toldKeys, orphaned>>

\* "idle": between cells. "local", "plain", "delta": inside get_spark_session,
\* the old session stopped. "open": a listing is about to open a session.
\* "list": it uses the session it has opened.
TypeOK ==
    /\ cluster \in Masters \cup {NoMaster}
    /\ made \in 0..MaxClusters
    /\ key \in Keys
    /\ pod \in [master : Addresses, key : Keys]
    /\ running \subseteq Notebooks
    /\ master \in [Notebooks -> Addresses]
    /\ keys \in [Notebooks -> Keys]
    /\ session \in [Notebooks -> Sessions \cup {NoSession}]
    /\ spark \in [Notebooks -> {"none", "live", "stopped"}]
    /\ doing \in [Notebooks -> Kinds \cup {"idle", "open", "list"}]
    /\ left \in [Notebooks -> 0..MaxDatabases]
    /\ {toldCluster, toldKeys} \subseteq Notebooks \cup {Server, Outside}
    /\ orphaned \subseteq Notebooks

\* The server has started and given the container its address and keys.
Init ==
    /\ cluster = 1 /\ made = 1 /\ key = 1
    /\ pod = [master |-> 1, key |-> 1]
    /\ running = {}
    /\ master = [n \in Notebooks |-> NoMaster]
    /\ keys = [n \in Notebooks |-> 0]
    /\ session = [n \in Notebooks |-> NoSession]
    /\ spark = [n \in Notebooks |-> "none"]
    /\ doing = [n \in Notebooks |-> "idle"]
    /\ left = [n \in Notebooks |-> 0]
    /\ toldCluster = Server /\ toldKeys = Server
    /\ orphaned = {}

---------------------------------------------------------------------------
(* Helpers.                                                                *)

Ready(n) == n \in running /\ doing[n] = "idle"
Do(n, d) == doing' = [doing EXCEPT ![n] = d]
Set(f, n, v) == [f EXCEPT ![n] = v]

\* The variable that held the active session of n, if one did, holds a stopped
\* one once that session is stopped.
AfterStop(n) ==
    IF session[n] # NoSession /\ spark[n] = "live"
    THEN Set(spark, n, "stopped") ELSE spark

StopSession(n) ==
    /\ session' = Set(session, n, NoSession)
    /\ orphaned' = orphaned \ {n}
    /\ spark' = AfterStop(n)

---------------------------------------------------------------------------
(* spark/cluster.py and minio_governance/utils.py in a notebook.  An error  *)
(* answer, or "N" to the question create_cluster asks, changes nothing.    *)

NewCluster ==
    /\ made < MaxClusters
    /\ made' = made + 1
    /\ cluster' = made + 1

\* The environment that changes is that of the process which calls.  The
\* answer may be lost after the cluster was made.
CreateCluster(n) ==
    /\ Ready(n) /\ NewCluster
    /\ \/ /\ master' = Set(master, n, made + 1)
          /\ toldCluster' = n
       \/ /\ AnswersGetLost /\ UNCHANGED master
          /\ toldCluster' = Outside
    /\ UNCHANGED <<key, pod, running, keys, toldKeys, sessionVars, callVars>>

\* Mutant of DeleteCluster: the address stays in the environment.
DeleteClusterOnly(n) ==
    /\ Ready(n) /\ cluster # NoMaster
    /\ cluster' = NoMaster
    /\ toldCluster' = n
    /\ UNCHANGED <<made, key, pod, running, environmentVars, toldKeys, sessionVars,
                   callVars>>

DeleteCluster(n) ==
    /\ Ready(n) /\ cluster # NoMaster
    /\ cluster' = NoMaster
    /\ \/ /\ master' = Set(master, n, NoMaster)
          /\ toldCluster' = n
       \/ /\ AnswersGetLost /\ UNCHANGED master
          /\ toldCluster' = Outside
    /\ UNCHANGED <<made, key, pod, running, keys, toldKeys, sessionVars, callVars>>

GetMinioCredentials(n) ==
    /\ Ready(n) /\ key < MaxKeys
    /\ key' = key + 1
    /\ \/ /\ keys' = Set(keys, n, key + 1)
          /\ toldKeys' = n
       \/ /\ AnswersGetLost /\ UNCHANGED keys
          /\ toldKeys' = Outside
    /\ UNCHANGED <<cluster, made, pod, running, master, toldCluster, sessionVars,
                   callVars>>

---------------------------------------------------------------------------
(* spark/utils.py.                                                         *)

\* get_spark_session stops the active session of the process, whoever uses it,
\* before it looks at anything else.
GetSparkSession(n, kind) ==
    /\ Ready(n) /\ Do(n, kind)
    /\ StopSession(n)
    /\ UNCHANGED <<sharedVars, running, environmentVars, left>>

\* Mutant of Configured: the values found when the module was imported.
ConfiguredAtImport(n, kind) ==
    [kind |-> kind,
     master |-> IF kind = "local" THEN NoMaster ELSE pod.master,
     key |-> IF kind = "delta" THEN pod.key ELSE 0]

\* What the process environment configures.
Configured(n, kind) ==
    [kind |-> kind,
     master |-> IF kind = "local" THEN NoMaster ELSE master[n],
     key |-> IF kind = "delta" THEN keys[n] ELSE 0]

\* Without SPARK_MASTER_URL a session on the cluster raises.  Nothing looks at
\* whose address it is, nor at whether the cluster still lives: Spark finds out
\* when it connects, before getOrCreate has returned or after.
CanOpen(n, kind) == kind = "local" \/ master[n] # NoMaster

OpenSession(n) ==
    /\ doing[n] \in Kinds /\ CanOpen(n, doing[n])
    /\ session' = Set(session, n, Configured(n, doing[n]))
    /\ spark' = Set(spark, n, "live")
    /\ Do(n, "idle")
    /\ UNCHANGED <<sharedVars, running, environmentVars, orphaned, left>>

\* setLogLevel or _set_scheduler_pool raises: getOrCreate has made the session
\* the active one of the process, and no variable gets it.
OrphanSession(n, kind) ==
    /\ CanOpen(n, kind)
    /\ session' = Set(session, n, Configured(n, kind))
    /\ orphaned' = orphaned \cup {n}

\* Any step of the configuration raises: a variable or a JAR is missing, the user
\* is not a member of the tenant, the governance service does not answer; or one
\* after it does.  The session that was active before stays stopped.
GetSessionRaises(n) ==
    /\ doing[n] \in Kinds
    /\ Do(n, "idle")
    /\ \/ UNCHANGED sessionVars
       \/ OrphanSession(n, doing[n]) /\ UNCHANGED spark
    /\ UNCHANGED <<sharedVars, running, environmentVars, left>>

---------------------------------------------------------------------------
(* spark/data_store.py: get_db_structure with schemas opens a session for   *)
(* each database it has found.  _execute_with_spark, given no session, is a *)
(* listing of one.                                                         *)

\* Mutant of BeginListing: one turn too many.
BeginListingOneMore(n, found) ==
    /\ Ready(n) /\ found > 0
    /\ left' = Set(left, n, found + 1)
    /\ Do(n, "open")
    /\ UNCHANGED <<sharedVars, running, environmentVars, sessionVars>>

BeginListing(n, found) ==
    /\ Ready(n) /\ found > 0
    /\ left' = Set(left, n, found)
    /\ Do(n, "open")
    /\ UNCHANGED <<sharedVars, running, environmentVars, sessionVars>>

\* "with get_spark_session() as spark", whose first act is to stop the session
\* the notebook was using.
ListingOpens(n) ==
    /\ doing[n] = "open"
    /\ CanOpen(n, "delta")
    /\ session' = Set(session, n, Configured(n, "delta"))
    /\ spark' = AfterStop(n)
    /\ orphaned' = orphaned \ {n}
    /\ Do(n, "list")
    /\ UNCHANGED <<sharedVars, running, environmentVars, left>>

\* A query of the metastore raises before the session is touched, or
\* get_spark_session does after it has stopped one and before or after it has
\* made another, or the with block does.
ListingRaises(n) ==
    /\ doing[n] \in {"open", "list"}
    /\ \/ StopSession(n)
       \/ doing[n] = "open" /\ UNCHANGED sessionVars
       \/ doing[n] = "open" /\ OrphanSession(n, "delta") /\ spark' = AfterStop(n)
    /\ Do(n, "idle")
    /\ left' = Set(left, n, 0)
    /\ UNCHANGED <<sharedVars, running, environmentVars>>

\* Mutant of ListingCloses: the session is not closed after the last database.
ListingLeavesSession(n) ==
    /\ doing[n] = "list"
    /\ left' = Set(left, n, left[n] - 1)
    /\ Do(n, IF left[n] = 1 THEN "idle" ELSE "open")
    /\ UNCHANGED <<sharedVars, running, environmentVars, sessionVars>>

\* The schemas of one database are read, each with its own answer to errors, and
\* leaving the with block stops the session.
ListingCloses(n) ==
    /\ doing[n] = "list"
    /\ left' = Set(left, n, left[n] - 1)
    /\ Do(n, IF left[n] = 1 THEN "idle" ELSE "open")
    /\ StopSession(n)
    /\ UNCHANGED <<sharedVars, running, environmentVars>>

---------------------------------------------------------------------------
(* The notebooks and their server.                                         *)

\* The user calls spark.stop().
UserStopsSession(n) ==
    /\ Ready(n) /\ spark[n] = "live"
    /\ StopSession(n)
    /\ UNCHANGED <<sharedVars, running, environmentVars, callVars>>

\* A notebook inherits the environment the container was started with.
StartNotebook(n) ==
    /\ n \notin running /\ running' = running \cup {n}
    /\ master' = Set(master, n, pod.master) /\ keys' = Set(keys, n, pod.key)
    /\ UNCHANGED <<sharedVars, sessionVars, callVars>>

\* Its process ends, in a call or not; whatever it changed stays changed.
EndNotebook(n) ==
    /\ n \in running /\ running' = running \ {n}
    /\ session' = Set(session, n, NoSession)
    /\ spark' = Set(spark, n, "none")
    /\ Do(n, "idle") /\ left' = Set(left, n, 0)
    /\ orphaned' = orphaned \ {n}
    /\ toldCluster' = IF toldCluster = n THEN Outside ELSE toldCluster
    /\ toldKeys' = IF toldKeys = n THEN Outside ELSE toldKeys
    /\ UNCHANGED <<cluster, made, key, pod, environmentVars>>

\* The Hub stops the server, or gives up or fails a start of it: the cluster goes,
\* another takes its place or the keys change while notebooks still run.
HubChanges ==
    /\ \/ cluster' = NoMaster /\ toldCluster' = Outside /\ UNCHANGED <<made, key, toldKeys>>
       \/ NewCluster /\ toldCluster' = Outside /\ UNCHANGED <<key, toldKeys>>
       \/ /\ key < MaxKeys /\ key' = key + 1 /\ toldKeys' = Outside
          /\ UNCHANGED <<cluster, made, toldCluster>>
    /\ UNCHANGED <<pod, running, environmentVars, sessionVars, callVars>>

\* What SPARK_MASTER_URL may hold in the Hub's own environment or in that of the
\* user's spawner: nothing, what the user had before, another user's address.
InheritedMasters == (1..made) \cup {NoMaster, Foreign}

\* The Hub starts the server anew: _configure_environment asks for credentials,
\* _start_spark_cluster for a cluster, and the pod gets what came of it.  A request
\* that fails, or whose answer is lost, is only logged: the pod gets the address the
\* environment already held (KubeServerLifecycle says how it came there), and the
\* old cluster may have outlived the old server.
StartServer ==
    /\ key < MaxKeys /\ key' = key + 1
    /\ toldKeys' = Server
    /\ \/ /\ NewCluster
          /\ toldCluster' = Server
          /\ pod' = [master |-> made + 1, key |-> key + 1]
       \/ /\ \/ cluster' \in {cluster, NoMaster} /\ UNCHANGED made
             \/ AnswersGetLost /\ NewCluster
          /\ toldCluster' = Outside
          /\ pod' \in [master : InheritedMasters, key : {key + 1}]
    /\ running' = {}
    /\ session' = [n \in Notebooks |-> NoSession]
    /\ spark' = [n \in Notebooks |-> "none"]
    /\ doing' = [n \in Notebooks |-> "idle"]
    /\ left' = [n \in Notebooks |-> 0]
    /\ orphaned' = {}
    /\ UNCHANGED environmentVars

---------------------------------------------------------------------------

CallProceeds(n) ==
    \/ OpenSession(n) \/ GetSessionRaises(n)
    \/ ListingOpens(n) \/ ListingRaises(n) \/ ListingCloses(n)

Next ==
    \/ \E n \in Notebooks :
          \/ StartNotebook(n) \/ EndNotebook(n)
          \/ CreateCluster(n) \/ DeleteCluster(n) \/ GetMinioCredentials(n)
          \/ \E kind \in Kinds : GetSparkSession(n, kind)
          \/ \E found \in 1..MaxDatabases : BeginListing(n, found)
          \/ UserStopsSession(n)
          \/ CallProceeds(n)
    \/ HubChanges \/ StartServer

Spec == Init /\ [][Next]_vars

---------------------------------------------------------------------------
(* Properties.                                                             *)

\* A notebook's environment names the live cluster as long as the last change of
\* the cluster was its own, or the start of the server that handed its address on;
\* so with the keys.  create_cluster, delete_cluster and get_minio_credentials keep
\* the caller's environment in step.  What another process changed, what the Hub
\* failed to make and what a lost answer would have told is not in step.
EnvironmentIsCurrent ==
    \A n \in running :
        /\ toldCluster \in {n, Server} => master[n] = cluster
        /\ toldKeys \in {n, Server} => keys[n] = key

\* No session is left behind: between calls a process has an active session only
\* if the notebook's variable holds it, and the variable is never taken for live
\* when the process has none.  A get_spark_session that raises with the session
\* already made is the one exception, until the next call stops that session.
SessionsAreHeld ==
    \A n \in Notebooks :
        /\ doing[n] # "list"
              => (session[n] # NoSession <=> (spark[n] = "live" \/ n \in orphaned))
        /\ n \in orphaned => spark[n] # "live"
        /\ doing[n] = "list" => session[n] # NoSession /\ spark[n] # "live"

\* A session that get_spark_session makes, for the user or for a listing, runs on
\* the live cluster if this notebook was the last to be told of it, and uses the
\* keys MinIO accepts if it was the last to be told of them.  Others may change
\* both from the moment it is called.
NewSessionWorks ==
    [][\A n \in Notebooks : session'[n] \notin {NoSession, session[n]} =>
          /\ session'[n].kind # "local" /\ toldCluster \in {n, Server}
                => session'[n].master = cluster
          /\ session'[n].kind = "delta" /\ toldKeys \in {n, Server}
                => session'[n].key = key]_vars
=============================================================================
