------------------------ MODULE DockerServerLifecycle ------------------------
(***************************************************************************)
(* One user's server in a deployment with Docker: CustomDockerSpawner.start*)
(* and poll, the container's configuration, and what the container does    *)
(* before it serves (hub_singleuser.py).  Users share nothing here.        *)
(*                                                                         *)
(* What super().start() does with a container that is still there depends  *)
(* on DockerSpawner.remove; a start that the Hub has given up goes on.     *)
(***************************************************************************)

EXTENDS Naturals, FiniteSets

CONSTANTS
    NoConfig, NoContainer,
    Roles,          \* bound: what the Hub may know of the user
    MaxFaultKinds   \* bound: kinds of fault in one behaviour

VARIABLES
    remove,         \* DockerSpawner.remove, a setting of the deployment
    governance,     \* USE_DATA_GOVERNANCE_CREDENTIALS, another
    hubUp,
    roles,          \* what the Hub knows of the user: admin, member of minio_rw
    phase,          \* where the Hub is with the server
    spawner,        \* what the Spawner object is configured with
    late,           \* the same for a start that the Hub has given up
    container,
    home,           \* the user's directory: whose it is, and closed to others
    holders,        \* who has the keys that MinIO accepts now
    rotated,        \* somebody else has asked for keys since the start did (history)
    launch,         \* what the last super().start() did with the container (history)
    idle,           \* last_activity is older than the idle timeout
    faulted         \* kinds of fault met so far (history)

settings == <<remove, governance>>
hubVars == <<hubUp, roles, phase, spawner, late>>
keyVars == <<holders, rotated>>
vars == <<settings, hubVars, container, home, keyVars, launch, idle, faulted>>

Configs == [mounts : {"all", "own"}, keys : {"own", "rw", "hub"}]
Stages == {"lookup", "group", "account", "owner", "mode", "serving"}
Containers ==
    [state : {"running", "exited"}, config : Configs, stage : Stages,
     group : BOOLEAN, account : BOOLEAN]

ASSUME NoneAssumption == NoConfig \notin Configs /\ NoContainer \notin Containers
ASSUME BoundsAssumption ==
    Roles \subseteq [admin : BOOLEAN, rw : BOOLEAN] /\ MaxFaultKinds \in Nat

TypeOK ==
    /\ remove \in BOOLEAN /\ governance \in BOOLEAN /\ hubUp \in BOOLEAN
    /\ roles \in [admin : BOOLEAN, rw : BOOLEAN]
    /\ phase \in {"off", "launching", "waiting", "on", "culling", "stopping", "failed"}
    /\ spawner \in Configs \cup {NoConfig} /\ late \in Configs \cup {NoConfig}
    /\ hubUp /\ phase \in {"launching", "waiting", "on", "culling"} => spawner # NoConfig
    /\ container \in Containers \cup {NoContainer}
    /\ home \in {"mixed", "owned", "private"}
    /\ holders \subseteq {"spawner", "late", "container"}
    /\ rotated \in BOOLEAN /\ idle \in BOOLEAN
    /\ launch \in {"none", "created", "resumed", "joined"}
    /\ faulted \subseteq {"crash", "late", "stopFail"}

Exists == container # NoContainer
Running == Exists /\ container.state = "running"

Init ==
    /\ remove \in BOOLEAN /\ governance \in BOOLEAN /\ hubUp = TRUE
    /\ roles = [admin |-> FALSE, rw |-> FALSE]
    /\ phase = "off" /\ spawner = NoConfig /\ late = NoConfig
    /\ container = NoContainer /\ home = "mixed"
    /\ holders = {} /\ rotated = FALSE
    /\ launch = "none" /\ idle = FALSE /\ faulted = {}

Fault(kind) ==
    /\ faulted' = faulted \cup {kind}
    /\ Cardinality(faulted') <= MaxFaultKinds

---------------------------------------------------------------------------
(* start().                                                                *)

IsRwMinioUser == roles.admin \/ roles.rw

\* _configure_environment and _ensure_user_volume.  access_mode is computed there and
\* not used: membership of minio_rw decides on keys only.  The Hub's MINIO_RW_* keys are
\* copied with its environment and taken out only with "hub": beside "own" they stay.
Configured ==
    [mounts |-> IF roles.admin THEN "all" ELSE "own",
     keys |-> IF governance THEN "own" ELSE IF IsRwMinioUser THEN "rw" ELSE "hub"]

\* Up to super().start() nothing else runs in the Hub.  The start-up templates are
\* copied into the home with the Hub's owner and mode, and the request for
\* credentials makes new keys.
Configure ==
    /\ hubUp /\ phase = "off"
    /\ phase' = "launching" /\ spawner' = Configured
    /\ home' = "mixed"
    /\ holders' = {"spawner"} /\ rotated' = FALSE
    /\ UNCHANGED <<settings, hubUp, roles, late, container, launch, idle, faulted>>

\* The preparation raises, there is no token, the governance service refuses or is
\* silent for a minute, which it may be after it has made new keys; or a favorite
\* is missing after all of that.
ConfigureRaises ==
    /\ hubUp /\ phase = "off"
    /\ phase' = "failed"
    /\ home' \in {home, "mixed"}
    /\ \/ UNCHANGED keyVars
       \/ home' = "mixed" /\ holders' = {} /\ rotated' = FALSE
    /\ UNCHANGED <<settings, hubUp, roles, spawner, late, container, launch, idle, faulted>>

New(config) ==
    [state |-> "running", config |-> config, stage |-> "lookup",
     group |-> FALSE, account |-> FALSE]

\* What super().start() finds: no container, one it has to remove first, one that
\* runs, or one that has ended and is started again as it was made.
Create(config, who) ==
    /\ ~Exists
    /\ container' = New(config) /\ launch' = "created"
    /\ holders' = IF who \in holders THEN holders \cup {"container"} ELSE holders
Join ==
    /\ Running /\ launch' = "joined"
    /\ UNCHANGED <<container, holders>>
Resume ==
    /\ Exists /\ ~Running
    /\ container' = [container EXCEPT !.state = "running", !.stage = "lookup"]
    /\ launch' = "resumed" /\ UNCHANGED holders

\* Mutant of Launch: an ended container is started again whatever the setting.
LaunchResumes ==
    /\ hubUp /\ phase = "launching"
    /\ Create(spawner, "spawner") \/ Join \/ Resume
    /\ phase' = "waiting"
    /\ UNCHANGED <<settings, hubUp, roles, spawner, late, home, rotated, idle, faulted>>

Launch ==
    /\ hubUp /\ phase = "launching"
    /\ Create(spawner, "spawner") \/ (~remove /\ (Join \/ Resume))
    /\ phase' = "waiting"
    /\ UNCHANGED <<settings, hubUp, roles, spawner, late, home, rotated, idle, faulted>>

RemoveContainer ==
    /\ Exists /\ container' = NoContainer
    /\ holders' = holders \ {"container"}

LaunchRemoves ==
    /\ hubUp /\ phase = "launching" /\ remove
    /\ RemoveContainer
    /\ UNCHANGED <<settings, hubVars, home, rotated, launch, idle, faulted>>

\* Docker refuses, or start_timeout is over.
LaunchRaises ==
    /\ hubUp /\ phase = "launching" /\ phase' = "failed"
    /\ UNCHANGED <<settings, hubUp, roles, spawner, late, container, home, keyVars,
                   launch, idle, faulted>>

\* start_timeout is over while an image is pulled, say; the start is not cancelled.
\* One such start at a time.
LaunchTimesOut ==
    /\ hubUp /\ phase = "launching" /\ phase' = "failed"
    /\ late = NoConfig /\ late' = spawner
    /\ holders' = IF "spawner" \in holders THEN holders \cup {"late"} ELSE holders
    /\ Fault("late")
    /\ UNCHANGED <<settings, hubUp, roles, spawner, container, home, rotated, launch, idle>>

LateLaunch ==
    /\ hubUp /\ late # NoConfig
    /\ \/ Create(late, "late") /\ late' = NoConfig
       \/ ~remove /\ Resume /\ late' = NoConfig
       \/ ~remove /\ Running /\ late' = NoConfig /\ UNCHANGED <<container, holders, launch>>
       \/ remove /\ RemoveContainer /\ UNCHANGED <<late, launch>>
    /\ UNCHANGED <<settings, hubUp, roles, phase, spawner, home, rotated, idle, faulted>>

ServerAnswers ==
    /\ hubUp /\ phase = "waiting"
    /\ Running /\ container.stage = "serving"
    /\ phase' = "on"
    /\ UNCHANGED <<settings, hubUp, roles, spawner, late, container, home, keyVars,
                   launch, idle, faulted>>

\* http_timeout, two minutes, is over.
AnswerTimesOut ==
    /\ hubUp /\ phase = "waiting" /\ phase' = "failed"
    /\ UNCHANGED <<settings, hubUp, roles, spawner, late, container, home, keyVars,
                   launch, idle, faulted>>

---------------------------------------------------------------------------
(* poll(), and the stop() of DockerSpawner, which is not overridden.        *)

\* A new Spawner object will be made for the next start.
FreshSpawner == spawner' = NoConfig /\ holders' = holders \ {"spawner"}

Stop ==
    /\ phase' = "stopping"
    /\ UNCHANGED <<spawner, holders>>

Forget ==
    /\ phase' = "off"
    /\ FreshSpawner

\* Mutant of Poll: an idle container is reported as ended and left to run.
PollDropsIdle ==
    /\ hubUp /\ phase = "on"
    /\ ~Running \/ idle
    /\ Forget
    /\ UNCHANGED <<settings, hubUp, roles, late, container, home, rotated, launch, idle, faulted>>

\* Mutant of Poll: no idle check.
PollWithoutIdle ==
    /\ hubUp /\ phase = "on" /\ ~Running
    /\ Forget
    /\ UNCHANGED <<settings, hubUp, roles, late, container, home, rotated, launch, idle, faulted>>

\* An ended container is reported, and the Hub does not call stop; an idle one is
\* stopped by poll itself, before the Hub knows.
Poll ==
    /\ hubUp /\ phase = "on"
    /\ \/ ~Running /\ Forget
       \/ Running /\ idle /\ phase' = "culling" /\ UNCHANGED <<spawner, holders>>
    /\ UNCHANGED <<settings, hubUp, roles, late, container, home, rotated, launch, idle, faulted>>

UserStop ==
    /\ hubUp /\ phase = "on" /\ Running
    /\ Stop
    /\ UNCHANGED <<settings, hubUp, roles, late, container, home, rotated, launch, idle, faulted>>

\* Mutant of AbortSpawn: a container that has ended is waited for.
AbortRunning ==
    /\ hubUp /\ phase = "failed"
    /\ Running /\ Stop
    /\ UNCHANGED <<settings, hubUp, roles, late, container, home, rotated, launch, idle, faulted>>

\* The Hub cleans up after a start that raised: poll, then stop() if it runs.
AbortSpawn ==
    /\ hubUp /\ phase = "failed"
    /\ IF Running THEN Stop ELSE Forget
    /\ UNCHANGED <<settings, hubUp, roles, late, container, home, rotated, launch, idle, faulted>>

FinishStop ==
    /\ hubUp /\ phase \in {"stopping", "culling"}
    /\ phase' = "off" /\ spawner' = NoConfig
    /\ container' = IF remove \/ ~Exists THEN NoContainer
                    ELSE [container EXCEPT !.state = "exited"]
    /\ holders' = IF remove THEN holders \ {"spawner", "container"} ELSE holders \ {"spawner"}
    /\ UNCHANGED <<settings, hubUp, roles, late, home, rotated, launch, idle, faulted>>

\* Docker refuses to end the container, or to remove it once it has ended.  The Hub
\* drops a server that it stopped itself; a poll that raises leaves it served.
StopFails ==
    /\ hubUp /\ phase \in {"stopping", "culling"} /\ Exists
    /\ IF phase = "culling" THEN phase' = "on" /\ UNCHANGED <<spawner, holders>>
       ELSE Forget
    /\ \/ UNCHANGED container
       \/ remove /\ Running /\ container' = [container EXCEPT !.state = "exited"]
    /\ Fault("stopFail")
    /\ UNCHANGED <<settings, hubUp, roles, late, home, rotated, launch, idle>>

\* The Spawner object dies with the Hub, and the start that was given up; the Hub's
\* database still says that there is a server.
Crash ==
    /\ hubUp /\ hubUp' = FALSE
    /\ spawner' = NoConfig /\ late' = NoConfig
    /\ holders' = holders \ {"spawner", "late"}
    /\ Fault("crash")
    /\ UNCHANGED <<settings, roles, phase, container, home, rotated, launch, idle>>

\* Mutant of Restart: a poll that raises counts as running.
RestartKeepsContainer ==
    /\ ~hubUp /\ hubUp' = TRUE
    /\ phase' = IF phase # "off" /\ Running THEN "on" ELSE "off"
    /\ UNCHANGED <<settings, roles, spawner, late, container, home, keyVars, launch, idle,
                   faulted>>

\* The Hub polls the server that its database names.  A Spawner object whose start()
\* has not run has no idle_timeout: with a running container the poll raises, which
\* counts as not running.
Restart ==
    /\ ~hubUp /\ hubUp' = TRUE
    /\ phase' = IF phase # "off" /\ Running /\ spawner # NoConfig THEN "on" ELSE "off"
    /\ UNCHANGED <<settings, roles, spawner, late, container, home, keyVars, launch, idle,
                   faulted>>

---------------------------------------------------------------------------
(* hub_singleuser.py.  The lock on the user's creation is one of the        *)
(* container's own directory, where nothing else takes it.                  *)

At(stage) == Running /\ container.stage = stage
SetupUnchanged ==
    UNCHANGED <<settings, hubVars, keyVars, launch, idle, faulted>>

\* Mutant of FindUser: everything is done for a user who exists.
FindUserReady ==
    /\ At("lookup")
    /\ container' = [container EXCEPT !.stage = IF container.account THEN "serving" ELSE "group"]
    /\ UNCHANGED home /\ SetupUnchanged

FindUser ==
    /\ At("lookup")
    /\ container' = [container EXCEPT !.stage = IF container.account THEN "owner" ELSE "group"]
    /\ UNCHANGED home /\ SetupUnchanged

AddGroup ==
    /\ At("group")
    /\ container' = [container EXCEPT !.stage = "account", !.group = TRUE]
    /\ UNCHANGED home /\ SetupUnchanged

AddUser ==
    /\ At("account") /\ container.group
    /\ container' = [container EXCEPT !.stage = "owner", !.account = TRUE]
    /\ UNCHANGED home /\ SetupUnchanged

\* chown -R: the directory's owner is an account of this container.
OwnWorkspace ==
    /\ At("owner") /\ container.account
    /\ container' = [container EXCEPT !.stage = "mode"]
    /\ home' = "owned"
    /\ SetupUnchanged

\* chmod -R 750, then the server is started as the user.
CloseWorkspace ==
    /\ At("mode")
    /\ container' = [container EXCEPT !.stage = "serving"]
    /\ home' = IF home = "owned" THEN "private" ELSE home
    /\ SetupUnchanged

\* A command of the set-up fails and raises, the server ends, memory runs out: the
\* container ends, and keeps its accounts.
ContainerExits ==
    /\ Running
    /\ container' = [container EXCEPT !.state = "exited"]
    /\ UNCHANGED home /\ SetupUnchanged

---------------------------------------------------------------------------
(* The world.                                                              *)

\* get_minio_credentials in a notebook, or any other request with the user's token.
RotateKeys ==
    /\ holders' = {} /\ rotated' = TRUE
    /\ UNCHANGED <<settings, hubVars, container, home, launch, idle, faulted>>

\* A login sets the admin flag, an administrator changes the group.
ChangeRoles(known) ==
    /\ hubUp /\ roles' = known
    /\ UNCHANGED <<settings, hubUp, phase, spawner, late, container, home, keyVars, launch,
                   idle, faulted>>

\* last_activity moves with use and falls behind without; only a poll reads it.
SetIdle(b) ==
    /\ phase = "on" /\ idle' = b
    /\ UNCHANGED <<settings, hubVars, container, home, keyVars, launch, faulted>>

Setup == FindUser \/ AddGroup \/ AddUser \/ OwnWorkspace \/ CloseWorkspace

Next ==
    \/ Configure \/ ConfigureRaises
    \/ Launch \/ LaunchRemoves \/ LaunchRaises \/ LaunchTimesOut \/ LateLaunch
    \/ ServerAnswers \/ AnswerTimesOut
    \/ Poll \/ UserStop \/ AbortSpawn \/ FinishStop \/ StopFails
    \/ Crash \/ Restart
    \/ Setup \/ ContainerExits
    \/ RotateKeys
    \/ \E known \in Roles : ChangeRoles(known)
    \/ \E b \in BOOLEAN : SetIdle(b)

Spec == Init /\ [][Next]_vars

\* Each await of the Hub ends, within its timeout where it has one; it polls every 30
\* seconds and is restarted.  Docker carries out one of the stops that poll() repeats.
\* A set-up that hangs is not excluded.
HubProgress ==
    \/ Launch \/ LaunchRemoves \/ LaunchRaises
    \/ ServerAnswers \/ AnswerTimesOut
    \/ AbortSpawn \/ FinishStop

Fairness ==
    WF_vars(HubProgress) /\ SF_vars(FinishStop) /\ WF_vars(Poll) /\ WF_vars(Restart)
FairSpec == Spec /\ Fairness

---------------------------------------------------------------------------
(* Properties.                                                             *)

\* A server runs in a container where its user exists, in a directory that is the
\* user's and closed to others, although a set-up may have been cut short anywhere and
\* the container started again: unless a start has written to the home of a container
\* that was running already.
ServerFollowsSetup ==
    At("serving") =>
        /\ container.group /\ container.account
        /\ hubUp /\ phase = "on" /\ launch # "joined" => home = "private"

\* A served container has the keys, and the mounts, of the start that serves it,
\* unless it was kept from an earlier start, as only a deployment does that does not
\* remove containers, or a start the Hub had given up made it.  Its keys work until
\* somebody else asks for new ones.
ServedContainerIsConfigured ==
    hubUp /\ phase = "on" /\ Running /\ "late" \notin faulted =>
        /\ remove => launch = "created"
        /\ launch = "created" => container.config = spawner
        /\ launch = "created" /\ ~rotated => "container" \in holders

\* A container runs that the Hub knows nothing of only after the Hub's death, a stop
\* that raised, or a start that went on after it was given up.
UntrackedContainerNeedsFault ==
    phase = "off" /\ Running => faulted # {}

\* The container of an idle server is stopped, or used again, or ends, also when a stop
\* from poll() raises, unless the Hub dies, a start that was given up makes it anew, or
\* the Hub has dropped it after a stop of the user's own that raised.
IdleContainerEnds ==
    phase = "on" /\ Running /\ idle ~>
        \/ ~Running \/ ~idle
        \/ {"crash", "late"} \cap faulted # {}
        \/ phase = "off" /\ "stopFail" \in faulted

\* A spawn ends with a server that is served or with none, also when Docker or the
\* set-up in the container fails or hangs.
SpawnResolves == phase \in {"launching", "waiting", "failed"} ~> phase \in {"on", "off"}
=============================================================================
