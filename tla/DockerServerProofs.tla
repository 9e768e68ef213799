------------------------- MODULE DockerServerProofs -------------------------
(***************************************************************************)
(* Proofs about DockerServerLifecycle, for either setting of remove and    *)
(* governance and any interleaving of the Hub, its container and the world.*)
(***************************************************************************)
EXTENDS DockerServerLifecycle, TLAPS

---------------------------------------------------------------------------
(* The inductive invariant, in named parts.                                *)

\* Stages of the set-up follow one another: who is past one has what it makes.
AccountsAreMade ==
    Exists =>
        /\ container.stage = "account" \/ container.account => container.group
        /\ container.stage \in {"owner", "mode", "serving"} => container.account

\* While a start waits for its server, and while that is served, nothing writes to a
\* home that the container has set up since it was started.
WorkspaceIsReady ==
    hubUp /\ phase \in {"waiting", "on", "culling"} /\ launch # "joined" =>
        /\ At("mode") => home = "owned"
        /\ At("serving") => home = "private"

\* What a start has configured reaches the container, if it is made for the start.
StartIsConfigured ==
    "late" \notin faulted /\ hubUp =>
        /\ late = NoConfig
        /\ phase = "launching" /\ ~rotated => "spawner" \in holders
        /\ phase \in {"waiting", "on", "culling"} =>
              /\ Exists /\ (remove => launch = "created")
              /\ launch = "created" => container.config = spawner
              /\ launch = "created" /\ ~rotated => "container" \in holders

\* Without a fault a container runs only where the Hub will find it.
RunningIsTracked ==
    faulted = {} =>
        /\ hubUp /\ late = NoConfig
        /\ Running => phase \in {"waiting", "on", "culling", "stopping", "failed"}

\* A Hub that is down has no Spawner object.
SpawnerIsTheHubs == ~hubUp => spawner = NoConfig /\ late = NoConfig

ServerInv ==
    /\ TypeOK
    /\ AccountsAreMade
    /\ WorkspaceIsReady
    /\ StartIsConfigured
    /\ RunningIsTracked
    /\ SpawnerIsTheHubs

Launching == Configure \/ ConfigureRaises \/ Launch \/ LaunchRemoves \/ LaunchRaises
             \/ LaunchTimesOut \/ LateLaunch \/ ServerAnswers \/ AnswerTimesOut
Ending == Poll \/ UserStop \/ AbortSpawn \/ FinishStop \/ StopFails \/ Crash \/ Restart
World == RotateKeys \/ (\E known \in Roles : ChangeRoles(known))
         \/ (\E b \in BOOLEAN : SetIdle(b))

\* The steps of the module, in four groups.
LEMMA Steps == ASSUME [Next]_vars
               PROVE  Launching \/ Ending \/ Setup \/ ContainerExits \/ World \/ UNCHANGED vars
  BY DEF Next, Launching, Ending, World

---------------------------------------------------------------------------

\* The initial states satisfy the invariant.
LEMMA InitServerInv == ASSUME Init PROVE ServerInv
  BY NoneAssumption DEF Init, ServerInv, TypeOK, AccountsAreMade, WorkspaceIsReady,
       StartIsConfigured, RunningIsTracked, SpawnerIsTheHubs, Exists, Running, At

\* What is either true or false stays so.
BooleanType ==
    /\ remove \in BOOLEAN /\ governance \in BOOLEAN /\ hubUp \in BOOLEAN
    /\ rotated \in BOOLEAN /\ idle \in BOOLEAN

LEMMA BooleanStep == ASSUME BooleanType, [Next]_vars PROVE BooleanType'
<1> USE DEF BooleanType, vars, settings, hubVars, keyVars
<1>1. CASE Configure \/ ConfigureRaises
  BY <1>1, Zenon DEF Configure, ConfigureRaises
<1>2. CASE Launch \/ LaunchRemoves
  BY <1>2, Zenon DEF Launch, LaunchRemoves
<1>3. CASE LateLaunch
  BY <1>3, Zenon DEF LateLaunch
<1>4. CASE LaunchRaises \/ LaunchTimesOut \/ ServerAnswers \/ AnswerTimesOut
  BY <1>4, Zenon DEF LaunchRaises, LaunchTimesOut, ServerAnswers, AnswerTimesOut
<1>5. CASE Poll \/ UserStop \/ AbortSpawn
  BY <1>5, Zenon DEF Poll, UserStop, AbortSpawn
<1>6. CASE FinishStop \/ StopFails \/ Crash \/ Restart
  BY <1>6, Zenon DEF FinishStop, StopFails, Crash, Restart
<1>7. CASE Setup \/ ContainerExits
  BY <1>7, Zenon DEF Setup, FindUser, AddGroup, AddUser, OwnWorkspace, CloseWorkspace,
       ContainerExits, SetupUnchanged
<1>8. CASE World
  BY <1>8, Zenon DEF World, RotateKeys, ChangeRoles, SetIdle
<1>9. CASE UNCHANGED vars
  BY <1>9, Zenon
<1> QED  BY Steps, <1>1, <1>2, <1>3, <1>4, <1>5, <1>6, <1>7, <1>8, <1>9 DEF Launching, Ending

\* A container has the form of one, and a Spawner object in use is configured.
ContainerType == container \in Containers \cup {NoContainer}
SpawnerType ==
    /\ roles \in [admin : BOOLEAN, rw : BOOLEAN]
    /\ phase \in {"off", "launching", "waiting", "on", "culling", "stopping", "failed"}
    /\ spawner \in Configs \cup {NoConfig} /\ late \in Configs \cup {NoConfig}
    /\ hubUp /\ phase \in {"launching", "waiting", "on", "culling"} => spawner # NoConfig
OtherType ==
    /\ home \in {"mixed", "owned", "private"}
    /\ holders \subseteq {"spawner", "late", "container"}
    /\ launch \in {"none", "created", "resumed", "joined"}
    /\ faulted \subseteq {"crash", "late", "stopFail"}

LEMMA TypeParts == TypeOK <=> BooleanType /\ ContainerType /\ SpawnerType /\ OtherType
  BY Zenon DEF TypeOK, BooleanType, ContainerType, SpawnerType, OtherType

LEMMA ContainerStep ==
    ASSUME ContainerType, SpawnerType, [Next]_vars PROVE ContainerType'
<1> USE NoneAssumption DEF ContainerType, Containers, Stages, Exists, Running
<1>2. ASSUME NEW config \in Configs, NEW who, Create(config, who) PROVE ContainerType'
  BY <1>2 DEF Create, New
<1>3. ASSUME Resume PROVE ContainerType'
  BY <1>3 DEF Resume
<1>4. ASSUME RemoveContainer \/ Join \/ UNCHANGED container PROVE ContainerType'
  BY <1>4 DEF Join, RemoveContainer
<1>5. CASE Setup
  BY <1>5 DEF Setup, FindUser, AddGroup, AddUser, OwnWorkspace, CloseWorkspace, At
<1>6. CASE ContainerExits
  BY <1>6 DEF ContainerExits
<1>7. CASE FinishStop \/ StopFails
  BY <1>7 DEF FinishStop, StopFails
<1> HIDE DEF ContainerType
<1>8. CASE Launching
  <2>1. CASE Launch
    <3>1. spawner \in Configs
      BY <2>1 DEF Launch, SpawnerType
    <3> QED  BY <2>1, <3>1, <1>2, <1>3, <1>4 DEF Launch
  <2>2. CASE LateLaunch
    <3>1. late \in Configs
      BY <2>2 DEF LateLaunch, SpawnerType
    <3> QED  BY <2>2, <3>1, <1>2, <1>3, <1>4 DEF LateLaunch
  <2>3. CASE LaunchRemoves
    BY <2>3, <1>4 DEF LaunchRemoves
  <2>4. CASE Configure \/ ConfigureRaises \/ LaunchRaises \/ LaunchTimesOut
             \/ ServerAnswers \/ AnswerTimesOut
    BY <2>4, <1>4 DEF Configure, ConfigureRaises, LaunchRaises, LaunchTimesOut,
         ServerAnswers, AnswerTimesOut
  <2> QED  BY <1>8, <2>1, <2>2, <2>3, <2>4 DEF Launching
<1>9. CASE Poll \/ UserStop \/ AbortSpawn \/ Crash \/ Restart
  BY <1>9, <1>4 DEF Poll, UserStop, AbortSpawn, Crash, Restart
<1>10. CASE World \/ UNCHANGED vars
  BY <1>10, <1>4 DEF World, RotateKeys, ChangeRoles, SetIdle, vars
<1> QED  BY Steps, <1>5, <1>6, <1>7, <1>8, <1>9, <1>10 DEF Ending

LEMMA SpawnerStep ==
    ASSUME SpawnerType, SpawnerIsTheHubs, [Next]_vars PROVE SpawnerType' /\ SpawnerIsTheHubs'
<1> USE NoneAssumption DEF SpawnerType, SpawnerIsTheHubs, hubVars
<1>1. CASE Configure
  BY <1>1 DEF Configure, Configured, Configs
<1>2. CASE ConfigureRaises \/ Launch \/ LaunchRemoves \/ LateLaunch \/ LaunchRaises
           \/ LaunchTimesOut \/ ServerAnswers \/ AnswerTimesOut
  BY <1>2 DEF ConfigureRaises, Launch, LaunchRemoves, LateLaunch, LaunchRaises,
       LaunchTimesOut, ServerAnswers, AnswerTimesOut
<1>3. CASE Ending
  BY <1>3 DEF Ending, Poll, UserStop, AbortSpawn, FinishStop, StopFails, Crash, Restart, Stop, Forget, Fault,
       FreshSpawner
<1>4. CASE Setup \/ ContainerExits
  BY <1>4 DEF Setup, FindUser, AddGroup, AddUser, OwnWorkspace, CloseWorkspace,
       ContainerExits, SetupUnchanged
<1>5. CASE World \/ UNCHANGED vars
  BY <1>5, BoundsAssumption DEF World, RotateKeys, ChangeRoles, SetIdle, vars
<1> QED  BY Steps, <1>1, <1>2, <1>3, <1>4, <1>5 DEF Launching

LEMMA OtherStep == ASSUME OtherType, [Next]_vars PROVE OtherType'
<1> USE DEF OtherType, keyVars
<1>1. CASE Launching
  BY <1>1 DEF Launching, Configure, ConfigureRaises, Launch, LaunchRemoves, LateLaunch,
       LaunchRaises, LaunchTimesOut, ServerAnswers, AnswerTimesOut, Create, Join, Resume,
       RemoveContainer, Fault
<1>3. CASE Ending
  BY <1>3 DEF Ending, Poll, UserStop, AbortSpawn, FinishStop, StopFails, Crash, Restart, Stop, Forget, Fault,
       FreshSpawner
<1>4. CASE Setup \/ ContainerExits
  BY <1>4 DEF Setup, FindUser, AddGroup, AddUser, OwnWorkspace, CloseWorkspace,
       ContainerExits, SetupUnchanged
<1>5. CASE World \/ UNCHANGED vars
  BY <1>5 DEF World, RotateKeys, ChangeRoles, SetIdle, vars
<1> QED  BY Steps, <1>1, <1>3, <1>4, <1>5

---------------------------------------------------------------------------
(* The parts of the invariant, each by the groups of steps that touch it.   *)

\* Nothing undoes a stage of the set-up but the making of a container.
LEMMA AccountsStep ==
    ASSUME ContainerType, AccountsAreMade, [Next]_vars PROVE AccountsAreMade'
<1> USE NoneAssumption DEF AccountsAreMade, Exists, Running, ContainerType, Containers
<1>1. ASSUME NEW config, NEW who, Create(config, who) PROVE AccountsAreMade'
  BY <1>1 DEF Create, New
<1>2. ASSUME Resume PROVE AccountsAreMade'
  BY <1>2 DEF Resume
<1>3. ASSUME RemoveContainer \/ Join \/ UNCHANGED container PROVE AccountsAreMade'
  BY <1>3 DEF Join, RemoveContainer
<1>4. CASE Setup \/ ContainerExits
  BY <1>4 DEF Setup, FindUser, AddGroup, AddUser, OwnWorkspace, CloseWorkspace,
       ContainerExits, At
<1>5. CASE FinishStop \/ StopFails
  BY <1>5 DEF FinishStop, StopFails
<1> HIDE DEF AccountsAreMade, Exists, Running
<1>6. CASE Launching
  BY <1>6, <1>1, <1>2, <1>3 DEF Launching, Configure, ConfigureRaises, Launch, LaunchRemoves,
       LateLaunch, LaunchRaises, LaunchTimesOut, ServerAnswers, AnswerTimesOut
<1>7. CASE Poll \/ UserStop \/ AbortSpawn \/ Crash \/ Restart
  BY <1>7, <1>3 DEF Poll, UserStop, AbortSpawn, Crash, Restart
<1>8. CASE World \/ UNCHANGED vars
  BY <1>8, <1>3 DEF World, RotateKeys, ChangeRoles, SetIdle, vars
<1> QED  BY Steps, <1>4, <1>5, <1>6, <1>7, <1>8 DEF Ending

\* Only a start writes to the home, and no start waits for a server meanwhile; a
\* container made or started again for one begins with the first stage.
LEMMA WorkspaceStep ==
    ASSUME ContainerType, WorkspaceIsReady, SpawnerIsTheHubs, [Next]_vars
    PROVE  WorkspaceIsReady'
<1> USE NoneAssumption DEF WorkspaceIsReady, At, Exists, Running, ContainerType, Containers,
        settings, hubVars, keyVars
<1>1. ASSUME NEW config, NEW who, Create(config, who) PROVE WorkspaceIsReady'
  BY <1>1 DEF Create, New
<1>2. ASSUME Resume PROVE WorkspaceIsReady'
  BY <1>2 DEF Resume
<1>3. ASSUME Join \/ RemoveContainer PROVE WorkspaceIsReady'
  BY <1>3 DEF Join, RemoveContainer
<1>4. CASE Configure \/ ConfigureRaises \/ LaunchRaises \/ LaunchTimesOut \/ AnswerTimesOut
  BY <1>4 DEF Configure, ConfigureRaises, LaunchRaises, LaunchTimesOut, AnswerTimesOut
<1>5. CASE ServerAnswers
  BY <1>5 DEF ServerAnswers
<1>6. CASE LateLaunch /\ UNCHANGED <<container, launch>>
  BY <1>6 DEF LateLaunch
<1>7. CASE Ending
  BY <1>7 DEF Ending, Poll, UserStop, AbortSpawn, FinishStop, StopFails, Crash, Restart, Stop, Forget, Fault,
       SpawnerIsTheHubs
<1>8. CASE Setup \/ ContainerExits
  BY <1>8 DEF Setup, FindUser, AddGroup, AddUser, OwnWorkspace, CloseWorkspace,
       ContainerExits, SetupUnchanged
<1>9. CASE World \/ UNCHANGED vars
  BY <1>9 DEF World, RotateKeys, ChangeRoles, SetIdle, vars
<1> HIDE DEF WorkspaceIsReady, Exists, Running
<1>10. CASE Launch \/ LaunchRemoves \/ LateLaunch
  BY <1>10, <1>1, <1>2, <1>3, <1>6 DEF Launch, LaunchRemoves, LateLaunch
<1> QED  BY Steps, <1>4, <1>5, <1>7, <1>8, <1>9, <1>10 DEF Launching

\* The set-up of a container changes neither its configuration nor that it is there.
LEMMA SetupKeepsConfig ==
    ASSUME ContainerType, Setup \/ ContainerExits
    PROVE  Exists /\ Exists' /\ container'.config = container.config
<1> USE NoneAssumption DEF Exists, Running, At, ContainerType, Containers, Stages
<1>1. Exists
  BY DEF Setup, FindUser, AddGroup, AddUser, OwnWorkspace, CloseWorkspace, ContainerExits
<1>2. Exists'
  <2>1. container \in Containers
    BY <1>1
  <2>2. container' \in Containers
    BY <2>1 DEF Setup, FindUser, AddGroup, AddUser, OwnWorkspace, CloseWorkspace, ContainerExits
  <2> QED  BY <2>2
<1>3. container'.config = container.config
  BY <1>1 DEF Setup, FindUser, AddGroup, AddUser, OwnWorkspace, CloseWorkspace, ContainerExits
<1> QED  BY <1>1, <1>2, <1>3

\* Keys that a start was given are in its Spawner object, then in the container made for
\* it, until somebody else asks for keys.
LEMMA ConfiguredStep ==
    ASSUME ContainerType, SpawnerType, StartIsConfigured, SpawnerIsTheHubs, [Next]_vars
    PROVE  StartIsConfigured'
<1> USE NoneAssumption DEF StartIsConfigured, ContainerType, Containers, SpawnerType, Stages,
        settings, hubVars, keyVars
<1>1. CASE Configure \/ ConfigureRaises
  BY <1>1 DEF Configure, ConfigureRaises
<1>2. CASE Launch
  <2>1. CASE Create(spawner, "spawner")
    <3>0. spawner \in Configs /\ container' = New(spawner) /\ launch' = "created"
      BY <1>2, <2>1 DEF Launch, Create
    <3>1. New(spawner) \in Containers /\ New(spawner).config = spawner
      BY <3>0 DEF New
    <3>5. Exists' /\ container'.config = spawner /\ launch' = "created"
      BY <3>0, <3>1 DEF Exists
    <3>2. spawner' = spawner /\ late' = late /\ phase' = "waiting" /\ hubUp
      BY <1>2 DEF Launch
    <3>3. (rotated' <=> rotated) /\ faulted' = faulted
      BY <1>2 DEF Launch
    <3>4. "spawner" \in holders => "container" \in holders'
      BY <2>1 DEF Create
    <3> QED  BY <1>2, <3>5, <3>2, <3>3, <3>4 DEF Launch
  <2>2. CASE ~remove /\ (Join \/ Resume)
    <3>1. Exists'
      BY <2>2 DEF Join, Resume, Exists, Running
    <3>2. ~remove' /\ late' = late /\ faulted' = faulted /\ phase' = "waiting" /\ hubUp
      BY <1>2, <2>2 DEF Launch
    <3>3. launch' # "created"
      BY <2>2 DEF Join, Resume
    <3> QED  BY <3>1, <3>2, <3>3
  <2> QED  BY <1>2, <2>1, <2>2 DEF Launch
<1>3. CASE LaunchRemoves
  BY <1>3 DEF LaunchRemoves, RemoveContainer
<1>4. CASE LaunchRaises \/ LaunchTimesOut \/ ServerAnswers \/ AnswerTimesOut
  BY <1>4 DEF LaunchRaises, LaunchTimesOut, ServerAnswers, AnswerTimesOut, Exists, Fault
<1>5. CASE LateLaunch
  BY <1>5 DEF LateLaunch
<1>6. CASE Ending
  <2>1. CASE Poll \/ UserStop \/ AbortSpawn \/ FinishStop
    BY <2>1 DEF Poll, UserStop, AbortSpawn, FinishStop, Stop, Forget, FreshSpawner, Exists
  <2>2. CASE Crash \/ Restart
    BY <2>2 DEF Crash, Restart, Fault, SpawnerIsTheHubs, Exists
  <2>3. CASE StopFails
    <3>1. Exists' /\ container'.config = container.config
      BY <2>3 DEF StopFails, Exists
    <3> QED  BY <2>3, <3>1 DEF StopFails, Forget, FreshSpawner, Fault
  <2> QED  BY <1>6, <2>1, <2>2, <2>3 DEF Ending
<1>7. CASE Setup \/ ContainerExits
  <2>1. Exists /\ Exists' /\ container'.config = container.config
    BY <1>7, SetupKeepsConfig
  <2>2. UNCHANGED <<settings, hubVars, keyVars, launch, idle, faulted>>
    BY <1>7 DEF Setup, FindUser, AddGroup, AddUser, OwnWorkspace, CloseWorkspace,
         ContainerExits, SetupUnchanged
  <2> QED  BY <2>1, <2>2
<1>8. CASE World \/ UNCHANGED vars
  BY <1>8 DEF World, RotateKeys, ChangeRoles, SetIdle, vars, Exists
<1> QED  BY Steps, <1>1, <1>2, <1>3, <1>4, <1>5, <1>6, <1>7, <1>8 DEF Launching

\* While nothing went wrong, a container that runs is that of a start or a server.
LEMMA TrackedStep ==
    ASSUME ContainerType, RunningIsTracked, [Next]_vars
    PROVE  RunningIsTracked'
<1> USE NoneAssumption DEF RunningIsTracked, ContainerType, Containers, Running, Exists,
        settings, hubVars, keyVars
<1>1. CASE Configure \/ ConfigureRaises \/ LaunchRaises \/ LaunchTimesOut \/ ServerAnswers
           \/ AnswerTimesOut
  BY <1>1 DEF Configure, ConfigureRaises, LaunchRaises, LaunchTimesOut, ServerAnswers,
       AnswerTimesOut, Fault
<1>2. CASE Launch
  BY <1>2 DEF Launch
<1>3. CASE LaunchRemoves
  BY <1>3 DEF LaunchRemoves, RemoveContainer
<1>4. CASE LateLaunch
  BY <1>4 DEF LateLaunch
<1>5. CASE Poll \/ UserStop \/ AbortSpawn \/ Restart
  BY <1>5 DEF Poll, UserStop, AbortSpawn, Restart, Stop, Forget
<1>6. CASE FinishStop \/ StopFails
  BY <1>6 DEF FinishStop, StopFails, Fault, Forget, FreshSpawner
<1>7. CASE Crash
  BY <1>7 DEF Crash, Fault
<1>8. CASE Setup \/ ContainerExits
  BY <1>8 DEF Setup, FindUser, AddGroup, AddUser, OwnWorkspace, CloseWorkspace,
       ContainerExits, SetupUnchanged, At
<1>9. CASE World \/ UNCHANGED vars
  BY <1>9 DEF World, RotateKeys, ChangeRoles, SetIdle, vars
<1> QED  BY Steps, <1>1, <1>2, <1>3, <1>4, <1>5, <1>6, <1>7, <1>8, <1>9 DEF Launching, Ending

---------------------------------------------------------------------------

\* Every reachable state satisfies the invariant.
THEOREM ServerInvariant == Spec => []ServerInv
<1>1. Init => ServerInv
  BY InitServerInv
<1>2. ServerInv /\ [Next]_vars => ServerInv'
  <2> SUFFICES ASSUME ServerInv, [Next]_vars PROVE ServerInv'
    OBVIOUS
  <2>1. BooleanType /\ ContainerType /\ SpawnerType /\ OtherType
    BY TypeParts DEF ServerInv
  <2>2. BooleanType' /\ ContainerType' /\ SpawnerType' /\ OtherType' /\ SpawnerIsTheHubs'
    BY <2>1, BooleanStep, ContainerStep, SpawnerStep, OtherStep DEF ServerInv
  <2>3. TypeOK'
    BY <2>2, TypeParts, PTL
  <2>4. AccountsAreMade' /\ WorkspaceIsReady'
    BY <2>1, AccountsStep, WorkspaceStep DEF ServerInv
  <2>5. StartIsConfigured' /\ RunningIsTracked'
    BY <2>1, ConfiguredStep, TrackedStep DEF ServerInv
  <2> QED  BY <2>2, <2>3, <2>4, <2>5 DEF ServerInv
<1> QED  BY <1>1, <1>2, PTL DEF Spec

\* Every reachable state is well typed: a server the Hub tracks has a Spawner object that
\* a start has configured, also after the Hub was restarted.
THEOREM ServerTypeOK == Spec => []TypeOK
<1>1. ServerInv => TypeOK
  BY DEF ServerInv
<1> QED  BY ServerInvariant, <1>1, PTL

\* hub_singleuser.py serves as an existing user from a directory of the user's own,
\* wherever an earlier set-up of the same container was cut short.
THEOREM SetupDone == Spec => []ServerFollowsSetup
<1>1. ServerInv => ServerFollowsSetup
  BY DEF ServerInv, AccountsAreMade, WorkspaceIsReady, ServerFollowsSetup, At, Running
<1> QED  BY ServerInvariant, <1>1, PTL

\* Keys and mounts of a served container are those of the start that serves it, unless
\* the deployment keeps containers or a start went on after it was given up.
THEOREM ContainerConfigured == Spec => []ServedContainerIsConfigured
<1>1. ServerInv => ServedContainerIsConfigured
  BY DEF ServerInv, StartIsConfigured, ServedContainerIsConfigured
<1> QED  BY ServerInvariant, <1>1, PTL

\* Only the Hub's death, a stop that raised or a start that went on leaves a container
\* that nobody polls.
THEOREM ContainersTracked == Spec => []UntrackedContainerNeedsFault
<1>1. ServerInv => UntrackedContainerNeedsFault
  BY DEF ServerInv, RunningIsTracked, UntrackedContainerNeedsFault
<1> QED  BY ServerInvariant, <1>1, PTL
=============================================================================
