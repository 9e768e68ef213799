# A TLA+ model of CDM JupyterHub

CDM JupyterHub gives every KBase user a notebook server (a container) and a
Spark cluster of their own, with MinIO storage and tables shared through a
catalog. The repository holds the Hub's configuration, its two spawners, its
authenticator, and the Python library a notebook imports. This directory holds
TLA+ modules for the parts of it where order, failure and concurrency decide
whether it is right, TLC configurations that check them on small instances, and
theorems about them, checked by TLAPS for instances of every size.

Paths below are relative to the repository. `PROJECT.json` maps each TLA+
definition to the source lines it translates.

## 1. The system

One Hub process runs JupyterHub with this repository's spawner and
authenticator. Its event loop is a single thread. `start()` of the spawners is an
ordinary method, so from its first line until it awaits `super().start()` the
Hub does nothing else, for any user; `stop()`, `poll()` and the authenticator's
methods give way at each `await`.

| component | state it keeps | operations |
|---|---|---|
| Server life cycle, `custom_kube_spawner.py` | spawner environment (token, `SPARK_MASTER_URL`), `idle_timeout`, the pod | `start`, `stop`, `poll`, called by the Hub |
| Spark Cluster Manager calls, `spark/cluster.py` | the user's cluster (remote), `SPARK_MASTER_URL` in the environment of the calling process | `create_cluster`, `delete_cluster`, `get_cluster_status`, `check_api_health` |
| Preparation of the home directory, both spawners | home directory, start-up files, virtual environment, favorites file and its lock, all on a shared volume | `_ensure_user_directory` and the other `_ensure_*` and `_configure_*` steps of `start` |
| Container configuration, both spawners | spawner environment, volumes | `_configure_environment`, credentials from the governance service |
| Docker spawner, `custom_docker_spawner.py` | spawner configuration, `idle_timeout`, the container, which may be kept and used again | `start`, `poll` |
| KBase authenticator, `kb_jupyterhub_auth.py` | auth state and admin flag in the Hub's database, cookie of the browser | `authenticate`, `refresh_user`, `pre_spawn_start`, two page handlers |
| KBase auth client, `kb_auth.py` | none (two requests per validation) | `validate_token` |
| Hub configuration and entry points | the key that seals auth state | process start |
| Single-user environment, `hub_singleuser.py` | users and groups of the container, owner and mode of the home | group, user, `chown`, `chmod`, then the server |
| Spark sessions and credentials, `spark/utils.py`, `minio_governance/utils.py` | the process's active session, `MINIO_*` and `SPARK_MASTER_URL` variables | `get_spark_session`, `get_minio_credentials`, `read_csv` |
| Namespaces, tables, sharing, `spark_db_utils.py`, `minio_governance/utils.py` | databases and tables of the catalog; access rights by path, at the governance service | `create_namespace_if_not_exists`, `remove_table`, `share_table`, `unshare_table`, `make_table_public`, `make_table_private`, `get_table_access_info` |
| Data governance client, `minio_governance/client.py` | requests under way | one request per call, given up after a minute |
| Metastore listings, `data_store.py`, `hive_metastore.py` | none (several reads of the catalog) | `get_databases`, `get_tables`, `get_db_structure` |
| Notebook helpers, generated API client, argument checkers, pages | none that outlives a call | |

How they meet:

- the authenticator's `pre_spawn_start` puts the user's token into the spawner's
  environment; `start()`, `stop()` and every notebook use that copy;
- `start()` and `stop()` call `create_cluster` and `delete_cluster` in the Hub's
  own process, so those write the *Hub's* `SPARK_MASTER_URL`, and
  `_configure_environment` copies the Hub's variables into each spawner;
- KubeSpawner, external to the repository, calls the overridden `stop()` from
  inside `start()` (a pod of that name exists) and from inside `poll()` (the
  container has exited);
- DockerSpawner, external too, removes a container that is in the way of a start, or
  joins it or starts it again, according to its setting `remove`; the container runs
  `hub_singleuser.py` each time it is started;
- a notebook calls `create_cluster` and `delete_cluster` too, whenever its user likes:
  they replace or end the cluster whose address the pod, and the Hub, were given;
- a sharing call names a path it computes from its caller and a database name, while
  the catalog says where the database lies;
- home directories outlive containers and Hubs; JupyterLab in a container writes
  the favorites file that `start()` rewrites;
- a restart of the Hub loses every Spawner attribute and makes a new key for the
  auth state, while pods, clusters, homes, database and browser sessions stay.

What makes it hard: resources (pod, cluster) acquired in order and released from
several places; calls whose answer is lost; a process environment shared by all
users; state read before an `await` and used after it; files whose existence is
taken for their completeness; and the death of the Hub between any two steps.
`PROJECT.json` lists these hazards at their lines.

What makes each part correct:

- server life cycle: a cluster ends with its server; a pod is given its own
  user's address, and that of a live cluster; a tracked server can be polled and
  stopped; idle servers end; spawns resolve; and where one of these fails, it is
  for a known reason;
- preparation: a server that starts has a complete home; favorites the user
  chose are kept; a start ends, whatever an earlier one left behind;
- authenticator: no user gets another's token; whoever is let in was accepted
  and approved by KBase at one moment since the request came; the admin flag was
  KBase's word at such a moment;
- sessions: a session works with the user's live cluster and valid keys;
- namespaces: a namespace belongs to the target it was asked for;
- sharing: whoever can read a table was let in by its owner, and not before an unshare
  that succeeded; an answer of success is true of the table it names;
- a server under Docker: it runs as its user in a closed home, with the credentials of
  its start; a container runs only where the Hub will find it.

## 2. Plan

Most important first. All of it is done but 10.

1. `ServerLease`, the abstract promise, and `KubeServerLifecycle`, the spawner,
   cluster calls and Hub that implement it. `KubeServerProofs`: type correctness
   and every safety invariant. `KubeServerRefinement`: the implementation proof.
2. `SpawnPreparation`, the steps of `start()` on the shared volume.
3. `KBaseAuthFlow` and `KBaseAuthProofs`, the authenticator.
4. `NotebookSession` and `NotebookProofs`: the processes of one user's notebooks,
   their environment, sessions and keys.
5. `Warehouse` and `WarehouseProofs`: namespaces and tables of several users and
   tenants, with names as sequences of characters, and a listing over a catalog
   that changes between its reads.
6. Runs for what the source says and the code does not keep.
7. `TableSharing` and `SharingProofs`: rights by path against tables by name, with
   overlapping calls that time out, succeed in part, or take effect late.
8. `DockerServerLifecycle` and `DockerServerProofs`: the Docker spawner, the
   container's configuration, which the two spawners share, and the set-up in the
   container.
9. `PreparationProofs`: the invariants of `SpawnPreparation`.
   `KBaseAdmission` and `FavoritesFile`, the abstract specifications of the
   authenticator and of the locked file, and the proofs that they are implemented.
10. Left: the requests of `cluster.py` one by one in a notebook (`NotebookSession`
    takes a call for one step, which reaches the same states of its environment and
    keys); two `stop()` calls of one user that overlap with the next start; an abstract
    specification for sharing and one for notebooks; the safety half of the liveness
    properties of the two life cycles, as it is proved for `StartEnds`.

## 3. Modules

### KubeServerLifecycle

One record of state per user for the Hub, the Spawner object, the pod and the
cluster. `phase` says where the Hub is with the user's server; the actions are
the stretches of code between two points where something else may happen.

| action | code |
|---|---|
| `RequestSpawn` | the Hub's spawn handler with `pre_spawn_start`, which writes the token |
| `Configure` | `start()` up to the cluster: `idle_timeout` (line 24), preparation, `_configure_environment` with the copy of the Hub's variables, the request for credentials |
| `CreateCluster` | `_start_spark_cluster` and `create_cluster`: success, an error, or a lost answer |
| `CreatePod`, `ReplacePod`, `PodReplaced`, `PodReady`, `PodEndsEarly`, `LaunchTimesOut` | `await super().start()` |
| `LateCreatePod`, `LateReplacePod`, `LatePodReplaced` | the same, going on after `start_timeout` has given it up: it makes its pod, or meets one of the next start and replaces that through the overridden `stop()` |
| `Stop` inside `Poll`, `UserStop`, `AbortSpawn` | `stop()`: token check, `_stop_spark_cluster` with `delete_cluster`, then `super().stop()` |
| `FinishStop` | the pod is gone; the Hub drops the Spawner object |
| `StopFails` | `super().stop()` raises, the cluster deleted already: JupyterHub drops a server that it stopped itself (`stopping`), a `poll` that raises leaves it served (`culling`), a start that was replacing a pod fails |
| `NotebookCreates`, `NotebookDeletes` | `create_cluster` and `delete_cluster` in a notebook, with any token of its user that KBase accepts |
| `Poll` | `poll()`: `super().poll()`, then the idle check |
| `Crash`, `Restart` | the Hub process |
| `Login`, `Expire`, `SetIdle`, `ContainerExits`, `RemovePod` | users, KBase, Kubernetes |

`HubFree` in the guards is the single thread: no action of the Hub is taken while
a `start()` is in its synchronous part, but the Hub may die there and the world
goes on. An address names an incarnation of a cluster (`owner`, `id`), so that a
dead address differs from a live one. `faulted` is history: it lets an invariant
say exactly which faults a bad state needs. `called` and `strays` are history too: whose
notebooks have changed a cluster, and who has made one behind a `stop()` or in a pod
that the Hub does not track, which nothing will delete.

`ServerLease` is the same without pods, environments, polls and addresses: a
server that is off, starting, on or stopping, and whether its user holds a
cluster, which users may take and give back themselves. `KubeServerLifecycle` implements it under `serverView` and `leaseView`.

### SpawnPreparation

One home directory, several `start()` calls for it that may overlap (an old Hub
and its successor), each with a program counter. Files are missing, torn or
whole. The test whether a file or the virtual environment exists, its making and
its completion are separate steps, so that two starts may find it missing and make it
both (`Left` is what the slower one leaves behind). The favorites file is a count of
entries per path and whether it has the key at all; reading, opening for writing (which
truncates) and writing are separate steps, under a lock that JupyterLab does not take.
JupyterLab's own save is two steps, opening and writing; where it overlaps with a
start's, the file may end up torn (`tangled`). A start can be cut short at any step,
and the container in the midst of a save. That the shared directory is missing is one
of the things that may make `_add_favorite_dir` raise (`ReadRaises`), at any time. The two spawners share these steps line for line;
`map` names lines of either.

`FavoritesFile` is the promise of the lock, without starts: one update (`Update`) reads
the favorites, appends what is missing and writes them back. It is not quite atomic,
for JupyterLab's saves do not wait: `basis` is what an update under way had read if that
is no longer what is there, and `LostSave` puts it back. A file that an interrupt, or
two writers at once, left torn is `broken` until the user saves again. `SpawnPreparation` implements it
under `Broken` and `ReadBefore`.

### DockerServerLifecycle

One user's server, since users share nothing under Docker. `remove` and `governance`
are the two settings that matter, chosen once. `phase` is where the Hub is;
`spawner` is what the Spawner object is configured with, `late` the same of a start
that went on after the Hub gave it up, `container.config` what the container was
made with.

| action | code |
|---|---|
| `Configure`, `ConfigureRaises` | `start()` up to `super().start()`: preparation (which writes to the home with the Hub's owner), `_configure_environment`, new keys, volumes by role |
| `Launch`, `LaunchRemoves`, `LaunchRaises`, `LaunchTimesOut`, `LateLaunch` | `await super().start()` under `start_timeout`, which does not cancel it |
| `ServerAnswers`, `AnswerTimesOut` | `http_timeout` |
| `Poll`, `UserStop`, `AbortSpawn`, `FinishStop`, `StopFails`, `Crash`, `Restart` | `poll()` with its idle check and its own stop (`culling`), a stop that raises, and the Hub |
| `FindUser`, `AddGroup`, `AddUser`, `OwnWorkspace`, `CloseWorkspace` | `hub_singleuser.py`, a command per step |
| `ContainerExits` | a command raises, the server ends, memory runs out |
| `RotateKeys`, `ChangeRoles`, `SetIdle` | notebooks, administrators, the user |

Keys are not numbered: `holders` says who has those that MinIO accepts now. `rotated`,
`launch` and `faulted` are history. What is given by the user's role decides two
things, mounts and keys; `_ensure_user_volume` also computes an `access_mode`
(`custom_docker_spawner.py:338`) that nothing uses. `keys` names the pair in
`MINIO_ACCESS_KEY` and `MINIO_SECRET_KEY`. The Hub's `MINIO_RW_*` variables, which come
with its environment, are taken out only for a user who gets the Hub's restricted pair
(lines 268-269): with governance credentials they stay beside the user's own, which no
property here is about.

### KBaseAuthFlow

Requests call `validate_token`. Its two answers are separate steps (`AskToken`, `AskMe`),
and a third is the Hub's acting on them (`Act`); before each of them tokens are revoked,
roles change, the cookie changes, other requests run and the Hub may restart. What an
answer said is kept in the request until it is acted on. `saw` is history: what KBase
would have said of the request's token, as a whole, at each moment since the request
came. What JupyterHub stores of a login (session, admin flag, auth state) is one step;
none of it is read before all of it is there.
`LoggedIn` is what JupyterHub does with the result of `authenticate`; `Refreshed`
is what it does with `refresh_user`'s `True`. Auth state carries the key that
sealed it: what another key sealed reads as nothing.

`KBaseAdmission` is the same without requests, cookies and keys. At a moment at which it
accepts a token obtained with MFA and approves its owner, KBase may give a voucher
(`Vouch`), which says whether the owner is an administrator. A login or a refresh is one
step and uses a voucher (`Use`), at any later time, whatever KBase thinks by then; a
login stores token and flag, a refresh replaces neither, so never the token of a newer
login. A restart takes all stored tokens and all vouchers away (`Forget`) and stops
every session from being served until its user has logged in again. `KBaseAuthFlow`
implements it under `Held`, the token that the Hub has for a user and can read, and
`Answers`, what KBase has said to the requests under way. An answer may therefore be
stale by the time it is used, and a stored admin flag stays as it is until the next
login; neither is claimed to be otherwise.

### NotebookSession

Each notebook is a process with its own copy of the container's environment, one
active Spark session and the variable the user keeps it in; the cluster and the
MinIO keys are one for all of the user's notebooks. `get_spark_session` is two
steps: it stops the active session, whoever uses it (`GetSparkSession`), then
configures from the environment and opens a new one (`OpenSession`) or raises
(`GetSessionRaises`), which it may also do after `getOrCreate`: then the process has a
session that no variable holds (`OrphanSession`). Nothing on the way looks at whether
the cluster of the address lives. Other notebooks go on meanwhile. `CreateCluster`,
`DeleteCluster` and `GetMinioCredentials` change cluster or keys and the
environment of the caller, or, if the answer is lost, only the former. The
`Listing...` actions are the sessions that `get_db_structure` and
`_execute_with_spark` open in a notebook that may hold one. `StartServer` gives a new
container the address of the cluster the Hub has made for it or, when that failed, any
that the Hub's environment may hold: none, an older one of the user's, or another
user's (`InheritedMasters`, `Foreign`). `HubChanges` is what the Hub does to cluster and
keys while notebooks run: a stop, a start that fails. `toldCluster`, `toldKeys` and
`orphaned` are history: who was told of the last change of the cluster and of the keys
(a notebook, every notebook by the start of the server, or none), and whose
`get_spark_session` has left a session behind.

### Warehouse

The catalog is a function from names to databases, each in somebody's warehouse.
`Sanitize`, `Prefix` and `Qualified` do to sequences of characters what
`create_namespace_if_not_exists` does to strings, and `InCatalog` what the metastore does
to the result: it keeps database names in lower case, while the code compares, sanitizes
and returns them as they were spelled. The rest is one listing by
`get_db_structure`, a step per query, while statements of users change the
catalog; with and without `use_postgres` it makes the same queries, because
`_get_structure` does not pass the argument on. `steady` and `seen` are history:
the tables that were there all the while, and at some time, since it began.

### TableSharing

`home` and `tables` are the catalog, `rights` the governance service. A call has
three moments: it is sent (`ShareTable`, `UnshareTable`, `MakeTablePublic`,
`MakeTablePrivate`, `GetTableAccessInfo`, with the path that `_build_table_path`
computes), the service acts on it (`ChangeRights`, `ReadRights`), the caller has the
result or an exception (`HandleResponse`, `TimeOut`). The service may act on all or
some of the recipients, answer with success or an error, and act on a request whose
caller no longer waits. Which names arise for which target is `Warehouse`'s matter;
here a database lies in the warehouse of any user or tenant. `after` is history: the
calls answered before this one was sent, which orders calls as their callers saw them.

### External code

Read from how `src/` uses it, and assumed:

- KubeSpawner answers a 409 from Kubernetes by calling `self.stop(True)` and
  posting again; it repeats a request that gets no answer;
- `KubeSpawner.poll` on an exited container calls `self.stop` when
  `delete_stopped_pods` is set, as it is by default;
- JupyterHub polls before a user's stop, and at start-up takes a server whose poll
  raises for one that is not running;
- the Hub's deployment ends the process without a clean shutdown
  (`scripts/notebook_entrypoint.sh` does not `exec` it), so a redeployment is a
  crash;
- the cluster manager keeps one cluster per user and replaces it on creation;
- a file lock is released when its process dies;
- JupyterHub drops a server whose `stop()` raised, when it was the Hub that called it;
- JupyterLab's server opens its settings file for writing, then writes it, without the
  lock beside it;
- the Hive metastore keeps the names of databases in lower case;
- the governance service makes new MinIO keys whenever it is asked for
  credentials, and the deployment sets `USE_DATA_GOVERNANCE_CREDENTIALS`;
- Spark gives up on a master that is gone, and a kernel inherits the environment of
  its container;
- DockerSpawner with `remove` removes a container that is there before it makes one,
  and removes it on stop; without, it starts an ended container again, environment and
  all, and joins a running one;
- tornado's `with_timeout`, by which the Hub limits a start, does not cancel it, under
  Kubernetes as under Docker;
- the governance service acts on each recipient of a request or not, keeps rights by
  path whether or not there is a table, and may clear the shares of a path that is made
  private ("completely private", `minio_governance/client.py:155`);
- the catalog carries out each statement as a whole; only sessions with Delta Lake
  reach it (`spark/utils.py:130`).

## 4. Runs

| run | shows |
|---|---|
| `ServersFaults` | With two users, their notebooks' own clusters and every kind of fault, any two kinds together and each any number of times: the tracked server is stoppable, and which faults a leaked cluster, an untracked pod, a foreign or a dead address need. |
| `ServersReliable` | Without the faults that leak, the spawner implements `ServerLease`; idle servers end, also when a stop raises, and spawns resolve. |
| `Preparation` | Two overlapping starts, one cut short anywhere, a JupyterLab that opens, writes and may stop in between: which damage needs an interrupt or a save, what loses favorites, the lock makes `FavoritesFile` of the steps on the file, starts end. |
| `Auth` | Two users, three tokens, two requests at a time, revocations and role changes before, between and after the answers, a restart: tokens stay with their user, each admission and each admin flag rests on one moment of KBase's, and the authenticator implements `KBaseAdmission`. |
| `Notebook` | Two notebooks, lost answers, changes by the Hub, servers started without a cluster of their own: whose environment is current, which session is left behind, that a new session works for the notebook that was told last. |
| `Warehouse` | Three targets, two of which clash in lower case only, statements between any two queries of a listing: whose warehouse a namespace lies in, and that listings are regular. |
| `Sharing` | Three overlapping calls of two users on tables that come and go: who can read, what an answer of success is worth, what access information says. |
| `Docker` | Containers removed or kept, either kind of credentials, crashes, starts that go on after they were given up, stops that raise, set-ups cut short, keys rotated, roles changed: the server's user, workspace, mounts and keys, untracked containers, idle servers, spawns. |
| `ServersAddress` | Violated: another user's address reaches a pod. |
| `ServersIdle` | Violated: an idle pod that survived its Hub runs for ever. |
| `PreparationVenv` | Violated: a half-made virtual environment is taken for a whole one. |
| `WarehouseNames` | Violated: a user and a tenant are given one database. |

Bounds. Two users suffice for every property of the life cycle: each relates one
user to the Hub's one environment, which one other user writes. Two clusters per
user let a start meet a cluster of an earlier one; the bound is only on starting,
so a behaviour ends rather than being cut. Only one of the users has a second cluster
in a behaviour (`MayAsk`), and only one user's launch at a time goes on late
(`LateUsers`). `MaxFaultKinds = 2` (one in `ServersReliable`) limits the kinds of fault
in one behaviour, the users whose notebooks call the cluster manager counted among
them, not how often each occurs; every invariant names the kinds that break it, so a
third kind adds nothing that two do not show. The theorems are for all values of
`MaxClusters` and `MaxFaultKinds`; `MayAsk` and `LateUsers` stand in the actions, and
the proofs use neither. Symmetry is over users, requests or calls, which no
definition tells apart, and only in runs without liveness. In `Preparation`
two starts, one interrupt and one save give every order of a read, a save and a
write; that a second save changes nothing more is proved. `Choices` are two sets of
favorites a user may save, with and without the home. In `Auth` only one user's roles
change, and only that user ages and starts servers (`Active`); one token is ever revoked
(`Revocable`); the first user has a token with MFA and one without, so that a newer
login of one user with another good token is left to the proofs, which know no bound. `Notebook` has two notebooks because every property
relates one notebook to the others taken together; three clusters and two key
pairs let each be replaced while a call is under way. `Warehouse` has a target
for each case: a clash by prefix (user `a` and tenant `A-a`, in lower case only), a
clash with a name made without prefix, and no clash; one table per database, since no query distinguishes tables; two databases
at once, and three changes of the catalog during one listing, which suffice to
make, drop and make anew between its reads. `Sharing` has three calls: one that lets
a reader in, one that shuts the reader out, and one that overlaps or asks; two users
and a tenant, so that a database can lie with the caller, with another user or with
neither; one group as the only recipient that callers name, beside everyone, since
recipients are independent of one another. In `Docker` one
start at a time goes on after it was given up, a behaviour has at most two kinds of
fault, and the user is nobody in particular or an administrator (`Roles`); a member of
`minio_rw` who is no administrator, and all three kinds of fault together, are left to
the proofs. `Warehouse`, `Sharing` and `Docker`
check deadlock; the other runs switch it off where the system may
stop: nobody has to start a server, and bounded starts, saves and restarts run
out.

Fairness, in `FairSpec`. The event loop's queue is first in, first out, so a step
that is due is taken once the loop is free, although other users' `start()` may
take the loop any number of times before: strong fairness of the Hub's steps and
of `Poll`, which JupyterHub repeats every 30 seconds. Kubernetes answers one of
the requests that KubeSpawner repeats (`PodAnswered`). The deployment restarts the
Hub (weak fairness of `Restart`). A `start()` goes on to its next step, and the
lock, which is polled, may be found taken any number of times (strong fairness
of `StartStep`). A stop that raises is a fault that may come again each
time; Kubernetes and Docker carry out one of the stops that `poll()` repeats, so that
strong fairness of the Hub's progress, and of `FinishStop`, is what the properties need
of them. Under Docker no other user is in the state, so weak fairness of the
Hub's next step, of `Poll` and of `Restart` is enough for the rest; each await of a start ends
within `start_timeout` or `http_timeout`. The set-up in a container is not fair: it may
hang. `NotebookSession`, `Warehouse` and `TableSharing` need no fairness: what they
promise is safety. One assumption is the deployment's and not the code's: a cluster
manager that answers or hangs up. The generated client has no timeout
(`client.py:171`, `None`, which httpx takes for none), so that one that keeps silent
stops the Hub's only thread in `CreateCluster` or `Stop`. Users, KBase, faults,
evictions and container exits are never fair: a property holds only if it needs none
of them.

## 5. Proofs

`KubeServerProofs`, `KubeServerRefinement`, `DockerServerProofs`, `PreparationProofs`,
`KBaseAuthProofs`, `NotebookProofs`, `WarehouseProofs` and `SharingProofs` hold for every
set of users, starts, tokens, requests, notebooks, names, tables and calls, any bounds
and any allowed faults. They use only the named assumptions of the modules: null
values lie outside the sets they stand beside, bounds are naturals,
`DeleteStoppedPods` is a Boolean, `Owner` maps tokens to users, names are sequences
of characters, the underscore is not alphanumeric and its own lower case, the lower case of an
alphanumeric is one, users are not tenants.

The invariants are not inductive as the runs state them. What each needs:

- `TypeCorrect` stands alone; all others use it.
- `FaultsAreRecorded`: while the Hub is down, or a token is revoked, the fault is
  in `faulted`. Then a step that is possible only after a fault has its excuse.
- `Stoppable` is inductive with types.
- `Untracked` follows from types and `FaultsAreRecorded`: a pod that runs under `off` was
  running when the server was dropped, which takes a crash or a stop that raised, or was
  made later, by a launch in `late`, which takes a timeout.
- `ClusterEnds` needs `HeldClustersAreStoppable`: clusters are held only in the
  phases from which every way out passes `stop()`, no pod is missing where a poll
  would drop the server with its cluster, and `stopping` and `culling` hold nothing, each of it
  unless a leak fault was met or a notebook made the cluster in them (`strays`).
- `ForeignAddress` needs `LaunchEnvironmentIsOwn`: from the cluster's creation to
  the pod's, the environment already names the user's own cluster, or a creation
  did not succeed.
- `OwnAddressLive` needs `StartsAreUndisturbed`: between the creation of the
  cluster and the pod nothing deletes it, since no pod is there to be replaced, no stop
  has raised, no launch is late, and no notebook of the user calls.
- `HubAddressLive` is inductive with types: the Hub's delete removes the address whichever
  cluster it names, so that a live address may be lost but no dead one kept; a
  notebook's delete does not, hence its exception.
- `LeaseImplemented`: the initial states correspond, and each action is a step of
  `ServerLease` or changes neither view. `Stop` is `Release`, `Forget` is `Drop`,
  `StopFails` is `Gone`, `Resume` or nothing, a notebook's call `TakeOwn` or
  `GiveBackOwn`, the delete of a late launch `Lose`; the first two need
  `HeldClustersAreStoppable` and, where the lease is reliable, that no leak fault is
  among those allowed (`FaultsAreAllowed`).
- `TokensStay` needs that only a token with MFA is answered for
  (`AnswersWereAdmitted`), since the login comes later; `ServedUsers` needs
  `AdmissionInv`, by which a refresh under way carries a token of the very user it
  refreshes.
- `AdmissionRecent` needs `RecentInv`: what KBase would answer now counts as seen by
  every request under way (`SawNow`), so that what it did answer was seen too
  (`SawAnswer`), and stays so while roles change and tokens are revoked before the Hub
  acts. A first answer alone adds nothing to it: an approval put together of two
  moments is what the property excludes.
- `ImplementsAtomicAdmission` needs `AdmissionInv`, for the user that a refresh lets in,
  and `KeysArePast`: no auth state was sealed with a key that is yet to come, so that a
  restart makes all of them unreadable. `AskMe` is `Vouch` or a stutter, `Act` is `Login`
  or `Refresh`; each other step of a request is a stutter.
- `EnvironmentCurrent` needs that whoever was told of the last change still runs or is
  the server (`ToldRun`), so that a notebook started under the name of an ended one does
  not pass for it, and that the container's own environment is current while the start
  of the server is the last change (`PodIsCurrent`). `NewSessions` follows from it at the
  steps that open a session (`WhoOpens`). `SessionsHeld` is inductive with
  types; the types need that a listing under way has a database left
  (`ListingHasMore`).
- `NamespacesOwn` needs `NamesAreAskedFor`: a database's name is what both its maker
  and whoever was given it asked for. Two requests that join to one name of
  the catalog, in lower case, clash (`SameNameClashes`), since two beginnings of one
  sequence nest. `PlainNamesApart` draws the practical conclusion: names of letters and
  digits share a namespace only if they are the same but for case, as "KBase" and "kbase"
  are, and such names do.
- `ListingRegular` needs `ListingInv`: a steady table is in the structure already, or
  its database is still to be looked at. `QuietListingExact` says more of a listing
  that no statement disturbs: it returns the catalog, also the databases without
  tables. It needs that every database is in the structure or still to be looked at,
  and nothing else is (`QuietListingAgrees`).
- `OnlyAskedReaders`, `SharesLast` and `AccessInfoCorrect` follow from one invariant on
  paths, which knows nothing of tables: a right on a path has a call that let the
  reader in and that no answered revocation came after; a right that an answer of
  success promised is there unless a later or overlapping call shut the reader out;
  and both for what a reader of rights was told. It needs that `after` is
  a history: whoever is in it had been answered (`Progress`). The theorems add what the
  path has to do with the table: in a user's warehouse, it is the owner's.
  `AnswersTellTheRights` draws the conclusion for a careful caller: where the calls about
  a path were all answered, one at a time, a reader whom an answer let in has the right
  until a later call may take it, and whoever has it was let in by an answer that no
  later one took back. It needs that what an answer of success says was
  asked of that reader (`LetIn`, `ShutOut`).
- `ServerInv`, for the server under Docker: who is past a stage of the set-up has what
  the stage makes (`AccountsAreMade`), no start writes to a home between its container's
  launch and its end (`WorkspaceIsReady`), what a start has configured reaches the
  container made for it (`StartIsConfigured`), and without a fault (a death of the Hub, a start that
  went on, a stop that raised) a container runs only in phases where the Hub finds it
  (`RunningIsTracked`).
- `PrepInv`, for the home directory: its parts say who is at work on a file that is not
  whole, or what left it like that (`EmptyVenvIsBuilt`, `TornDotfileIsCopied`,
  `FavoritesAreLocked`, `TornFileHasCause`), that two write at a time only where a save
  met a start (`SavesMeetStarts`), and where the user's favorites are while no file holds
  them (`WantedIsCarried`, `ListedOnce`).
- `ImplementsAtomicFavorites` needs of it that only the holder of the lock is between
  its read and its write (`FavoritesAreLocked`) and that the file is there when it
  opens it (`FileIsThere`). `WriteFavorites` is `Update`, or `LostSave` after a save; a cut
  is `Break` or `GiveUp`, and so is JupyterLab's opening of the file, whose write is `Save`; a
  start's reading and opening are stutters, as are the steps on other
  files. It holds for any number of starts, cuts and saves.
- `LockIsGivenBack` and `StartsGoForward` are the part of `StartEnds` that is safety. No
  start is stuck: the home directory is there once it is needed (`HomeIsThere`), and a
  start that waits for the lock waits for one that can go on. No start takes a step
  twice. What is left to TLC is that fair starts then end.
- `NoClusterIsStray` is proved of `ServerLease` (`LeaseIsNeverStray`) and carried over to
  `start()`, `stop()` and `poll()` by `LeaseImplemented`: where no fault that leaks is
  allowed, a user holds a cluster only while the server starts or runs, or made it behind
  the stop.

Only model-checked: the liveness properties (`IdleServerEnds`, `SpawnResolves`,
`IdleContainerEnds`, `StartEnds`), which are beyond this prover. Every other property of
a run that passes is a theorem. Only proved: `LockIsGivenBack`, `StartsGoForward`, `AnswersTellTheRights`, `QuietListingExact`, `NoClusterIsStray` and
`PlainNamesApart`, which no run checks. No module declares a RECURSIVE operator.

## 6. What the source says and the code does not keep

Each is a run that TLC refutes, with its lines in `PROJECT.json` under `findings`.

- `spark/cluster.py:161`, "Set the master URL for the user": it is set for the Hub
  process. A user whose own cluster could not be created is served with that of
  the user whose cluster was created last (`AddressIsForTheUser`).
- `custom_kube_spawner.py:132`, an idle container is stopped: not one that
  survived a restart of the Hub, whose poll raises (`IdleServerStopped`).
- `custom_kube_spawner.py:231`, the virtual environment is ensured to exist: an
  empty directory passes for it (`StartedServerHasVenv`).
- `docs/tenant_sql_warehouse_guide.md:93`, where the tables of a namespace are stored:
  names joined with an underscore that both may contain are not unique, and the
  database is that of whoever came first (`NamespaceIsInWarehouse`).

More of the kind shows in the exceptions that invariants have to make:

- a start that meets a leftover pod deletes it through the overridden `stop()`, and with
  it the cluster it has just created (`ReplacePod`, and the crash in
  `OwnAddressIsLive`); so does a launch that goes on after its timeout, to the cluster
  and the pod of the start that followed (`LateReplacePod`);
- a `stop()` that raises after the cluster was deleted leaves a pod without a cluster:
  untracked where JupyterHub called it, served on where `poll()` did (`stopFail` in
  `UntrackedPodNeedsFault` and `OwnAddressIsLive`);
- `create_cluster` in a notebook ends the cluster that the pod's other notebooks and the
  Hub's environment name, in ordinary use and without any fault (`called` in
  `OwnAddressIsLive` and `HubAddressIsLive`);
- a pod whose cluster could not be created gets whatever address the Hub's environment
  holds, which may be a dead cluster or another user's, and `get_spark_session` takes
  it (`toldCluster` in `EnvironmentIsCurrent` and `NewSessionWorks`);
- a start cut short between `open(..., "w")` and the end of `json5.dump`
  (`custom_kube_spawner.py:486`) loses the favorites a user had saved, and every later
  start of the user fails on the torn file (`cut` in `FavoritesKept`);
- what KBase has answered may be out of date when the Hub acts on it, by as much as the
  request has lasted, and the admin flag stays until the next login (`saw` in
  `AdmissionIsRecent`, `vouchers` in `KBaseAdmission`);
- users whose names differ in case only are given one database, since names are not
  lowered before they are compared or joined (`Clash` in `NamespaceIsOnesOwn`);
- `get_spark_session` takes the keys of its own process, which does not learn that
  another notebook's call has replaced them (`toldKeys` in `NewSessionWorks`);
- `docker-compose.yaml` keeps containers and uses governance credentials (lines 146 and
  155): a container that is started again has the keys it was made with, which the
  request for keys of this very start has made invalid
  (`launch = "created"` in `ServedContainerIsConfigured`);
- a table in a tenant's warehouse, or in another user's, is not at the path that
  `share_table` names, and its answer is one of success (`InUserWarehouse` and the
  caller in `SharesReachTheTable`, which says nothing of such tables; it also excuses an
  earlier unshare that timed out and is acted on after the share). For the same reason the example of
  `docs/data_sharing_guide.md:294`, which asks for the access to somebody else's table,
  is told of the caller's own path;
- `remove_table` leaves the rights of its path, so that a table made anew under the name
  is shared from the start (`ReadersWereLetIn` names no table).

## 7. Not modelled

- Two `stop()` calls of one user at a time (an idle stop while the user presses Stop)
  are one stop: the second would only meet a cluster and a pod that are gone. One that
  is still under way when the next start begins is left out.
- JupyterHub's own steps between the result of `authenticate` and the database (the
  session, the admin flag and the sealed auth state) are one step of `Act`.
- A call of `cluster.py` from a notebook is one step of `NotebookSession` and of
  `KubeServerLifecycle`; as the
  environment and the cluster change only at its ends, other interleavings reach the
  same states, with the lost answer as a case of its own.
- Expiry and clocks: an expiry is a revocation, a timeout may happen at any time, and
  the difference of `datetime.now()` and `last_activity` is idle or not idle.
- `read_csv` and the delimiter guess, the MinIO client, data frame display, widgets and
  re-exports, argument checkers, the generated API client, page handlers, logging,
  policies and the container build: they keep nothing from call to call, or what they do
  is in the outcomes of the calls that use them.

## 8. Running

```
tlasany KubeServerLifecycle.tla
tlc -workers 2 -config ServersFaults.cfg MCServers
tlapm KubeServerProofs.tla
```
