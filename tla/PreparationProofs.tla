------------------------- MODULE PreparationProofs -------------------------
(***************************************************************************)
(* Proofs about SpawnPreparation, for any number of overlapping starts on  *)
(* one home, any favorites and any bounds on interrupts and saves.         *)
(***************************************************************************)
EXTENDS SpawnPreparation, TLAPS

---------------------------------------------------------------------------
(* The inductive invariant, in named parts.                                *)

\* A directory that is no environment is being filled, or was left like that.
EmptyVenvIsBuilt ==
    /\ venv = "torn" => "build" \in cut \/ \E t \in Starters : pc[t] = "build"
    /\ \A s \in Starters :
          pc[s] \in {"build", "configure", "lock", "read", "open", "write", "done"}
            => venv # "absent"

\* A start-up file is torn while a start copies it, or one was cut short doing so.
TornDotfileIsCopied ==
    /\ dotfile[".bashrc"] = "torn" =>
          "copyBashrc" \in cut \/ \E t \in Starters : pc[t] = "copyBashrc"
    /\ dotfile[".bash_profile"] = "torn" =>
          "copyProfile" \in cut \/ \E t \in Starters : pc[t] = "copyProfile"

\* The favorites are read and written with the lock.
FavoritesAreLocked ==
    \A s \in Starters : pc[s] \in {"read", "open", "write"} => lock = s

\* They are torn while someone writes, and where someone was cut short or two wrote.
TornFileHasCause ==
    file = "torn" => \/ {"write", "save"} \cap cut # {} \/ saving \/ overlapped
                     \/ \E t \in Starters : pc[t] = "write"

\* Without the lock JupyterLab keeps starts from reading only by what it leaves of the
\* file: a start that holds what it read has read before the save, or after.
SavesMeetStarts ==
    /\ tangled => overlapped
    /\ saving /\ ~overlapped =>
          file = "torn" /\ \A s \in Starters : pc[s] \notin {"open", "write"}

\* What the user wants is in the file, or in the hands of whoever is to write it.
WantedIsCarried ==
    ~overlapped =>
        /\ file = "absent" => wanted = {}
        /\ file = "whole" => \A p \in wanted : listed[p] > 0
        /\ \A s \in Starters : pc[s] \in {"open", "write"} =>
              \A p \in wanted : read[s][p] > 0

\* No favorite is listed twice, nor read twice.
ListedOnce ==
    /\ \A p \in Paths : listed[p] <= 1
    /\ \A s \in Starters, p \in Paths : read[s][p] <= 1

\* A file that was never made lists nothing; whoever has the lock is at a step that it
\* needs the lock for.
FileIsThere ==
    /\ file = "absent" => listed = Nothing /\ hasKey
    /\ lock # NoStarter => pc[lock] \in {"read", "open", "write"}

PrepInv ==
    /\ TypeOK
    /\ EmptyVenvIsBuilt
    /\ TornDotfileIsCopied
    /\ FavoritesAreLocked
    /\ TornFileHasCause
    /\ SavesMeetStarts
    /\ WantedIsCarried
    /\ ListedOnce
    /\ FileIsThere

\* The steps of start() before the favorites, and all others but theirs.
OnDisk(s) == EnsureUserDirectory(s) \/ EnsureBashrc(s) \/ EnsureUserJupyterDirectory(s)
             \/ EnsureVirtualEnvironment(s) \/ MakeVirtualEnvironment(s)
             \/ BuildVirtualEnvironment(s)
             \/ ConfigureContainer(s)
OnFile(s) == LockFavorites(s) \/ ReadFavorites(s) \/ OpenFavorites(s) \/ WriteFavorites(s)
Saves == LabOpens \/ \E chosen \in Choices, key \in BOOLEAN : LabSaves(chosen, key)

\* The steps of the module, in groups.
LEMMA StepKinds ==
    ASSUME [Next]_vars
    PROVE  \/ \E s \in Starters : Begin(s) \/ OnDisk(s) \/ OnFile(s) \/ Interrupt(s)
           \/ Saves \/ NotebookStops \/ UNCHANGED vars
  BY Zenon DEF Next, StartStep, OnDisk, OnFile, Saves

---------------------------------------------------------------------------

\* The initial states satisfy the invariant.
LEMMA InitPrepInv == ASSUME Init PROVE PrepInv
<1> USE DEF Init, Nothing
<1>1. TypeOK
  BY DEF TypeOK, Nobody, Dotfiles
<1>2. EmptyVenvIsBuilt /\ TornDotfileIsCopied /\ FavoritesAreLocked
      /\ TornFileHasCause /\ SavesMeetStarts
  BY DEF EmptyVenvIsBuilt, TornDotfileIsCopied, FavoritesAreLocked, TornFileHasCause,
         SavesMeetStarts, Dotfiles
<1>3. WantedIsCarried /\ ListedOnce /\ FileIsThere
  BY DEF WantedIsCarried, ListedOnce, FileIsThere
<1> QED  BY <1>1, <1>2, <1>3 DEF PrepInv

---------------------------------------------------------------------------
(* Types.                                                                  *)

BooleanType ==
    /\ home \in BOOLEAN /\ hasKey \in BOOLEAN /\ saving \in BOOLEAN
    /\ tangled \in BOOLEAN /\ notebook \in BOOLEAN /\ overlapped \in BOOLEAN
DiskType ==
    /\ pc \in [Starters -> Steps \cup Nobody]
    /\ dotfile \in [Dotfiles -> {"absent", "torn", "whole"}]
    /\ venv \in {"absent", "torn", "whole"}
    /\ cut \subseteq Steps \cup {"save"}
    /\ lock \in Starters \cup {NoStarter}
FileType ==
    /\ file \in {"absent", "torn", "whole"}
    /\ listed \in [Paths -> Nat]
    /\ read \in [Starters -> [Paths -> Nat]]
    /\ interrupts \in Nat
    /\ saves \in Nat
    /\ wanted \subseteq Paths

\* TypeOK in the parts that one prover each can handle.
LEMMA TypeParts == TypeOK <=> BooleanType /\ DiskType /\ FileType
  BY Zenon DEF TypeOK, BooleanType, DiskType, FileType

\* What is either true or false stays so.
LEMMA BooleanStep == ASSUME BooleanType, [Next]_vars PROVE BooleanType'
<1> USE DEF BooleanType, vars, diskVars, fileVars, userVars, cutVars, labVars, Quiet
<1>1. ASSUME NEW s \in Starters, Begin(s) \/ OnDisk(s) PROVE BooleanType'
  <2>1. CASE Begin(s)
    BY <2>1, Zenon DEF Begin
  <2>2. CASE EnsureUserDirectory(s) \/ EnsureUserJupyterDirectory(s) \/ ConfigureContainer(s)
    BY <2>2, Zenon DEF EnsureUserDirectory, EnsureUserJupyterDirectory, ConfigureContainer
  <2>3. CASE EnsureBashrc(s)
    BY <2>3, Zenon DEF EnsureBashrc, CheckDotfile, OpenDotfile, CopyDotfile, Left
  <2>4. CASE EnsureVirtualEnvironment(s) \/ MakeVirtualEnvironment(s)
             \/ BuildVirtualEnvironment(s)
    BY <2>4, Zenon DEF EnsureVirtualEnvironment, MakeVirtualEnvironment, BuildVirtualEnvironment, Left
  <2> QED  BY <1>1, <2>1, <2>2, <2>3, <2>4 DEF OnDisk
<1>2. ASSUME NEW s \in Starters, OnFile(s) PROVE BooleanType'
  BY <1>2, Zenon DEF OnFile, LockFavorites, ReadFavorites, ReadRaises, Unlock, OpenFavorites, WriteFavorites, WhenWritten
<1>3. ASSUME NEW s \in Starters, Interrupt(s) PROVE BooleanType'
  BY <1>3, Zenon DEF Interrupt
<1>4. CASE Saves
  BY <1>4, Zenon DEF Saves, LabOpens, LabSaves, WhenWritten, Holding
<1>5. CASE NotebookStops \/ UNCHANGED vars
  BY <1>5, Zenon DEF NotebookStops
<1> HIDE DEF BooleanType, vars, diskVars, fileVars, userVars, cutVars, labVars, Quiet
<1> QED  BY StepKinds, <1>1, <1>2, <1>3, <1>4, <1>5, Zenon

\* Each step goes to a step, and leaves files in a state that files have.
LEMMA DiskStep == ASSUME DiskType, [Next]_vars PROVE DiskType'
<1> USE DEF DiskType, vars, diskVars, fileVars, userVars, cutVars, labVars, Quiet, Go, At, Steps, Nobody
<1>1. ASSUME NEW s \in Starters, Begin(s) \/ OnDisk(s) PROVE DiskType'
  <2>1. CASE Begin(s) \/ EnsureUserDirectory(s) \/ EnsureUserJupyterDirectory(s)
             \/ ConfigureContainer(s)
    BY <2>1 DEF Begin, EnsureUserDirectory, EnsureUserJupyterDirectory, ConfigureContainer
  <2>2. CASE EnsureBashrc(s)
    <3>1. CASE \E f \in Dotfiles, here \in Steps, opening \in Steps, next \in Steps :
                 CheckDotfile(s, f, here, opening, next)
      BY <3>1 DEF CheckDotfile
    <3>2. CASE \E f \in Dotfiles, opening \in Steps, copying \in Steps :
                 OpenDotfile(s, f, opening, copying)
      BY <3>2 DEF OpenDotfile
    <3>3. CASE \E f \in Dotfiles, copying \in Steps, next \in Steps :
                 CopyDotfile(s, f, copying, next)
      BY <3>3 DEF CopyDotfile, Left
    <3> QED  BY <2>2, <3>1, <3>2, <3>3, Zenon DEF EnsureBashrc, Dotfiles
  <2>3. CASE EnsureVirtualEnvironment(s) \/ MakeVirtualEnvironment(s)
    BY <2>3 DEF EnsureVirtualEnvironment, MakeVirtualEnvironment
  <2>4. CASE BuildVirtualEnvironment(s)
    BY <2>4 DEF BuildVirtualEnvironment, Left
  <2> QED  BY <1>1, <2>1, <2>2, <2>3, <2>4, Zenon DEF OnDisk
<1>2. ASSUME NEW s \in Starters, OnFile(s) PROVE DiskType'
  BY <1>2 DEF OnFile, LockFavorites, ReadFavorites, ReadRaises, Unlock,
       OpenFavorites, WriteFavorites, WhenWritten
<1>3. ASSUME NEW s \in Starters, Interrupt(s) PROVE DiskType'
  BY <1>3 DEF Interrupt, Unlock
<1>4. CASE Saves \/ NotebookStops \/ UNCHANGED vars
  BY <1>4 DEF Saves, LabOpens, LabSaves, WhenWritten, Holding, NotebookStops
<1> HIDE DEF DiskType, vars, Quiet, Go, At, Steps, Nobody
<1> QED  BY StepKinds, <1>1, <1>2, <1>3, <1>4, Zenon

\* Counts stay counts.
LEMMA FileStep == ASSUME FileType, [Next]_vars PROVE FileType'
<1> USE DEF FileType
<1>1. Nothing \in [Paths -> Nat]
  BY DEF Nothing
<1>2. ASSUME NEW s \in Starters, Begin(s) \/ OnDisk(s) PROVE FileType'
  BY <1>2 DEF Begin, OnDisk, EnsureUserDirectory, EnsureUserJupyterDirectory,
       ConfigureContainer, EnsureBashrc, CheckDotfile, OpenDotfile, CopyDotfile, Left,
       EnsureVirtualEnvironment, MakeVirtualEnvironment, BuildVirtualEnvironment, Left, Quiet, fileVars, cutVars, labVars, userVars
<1>3. ASSUME NEW s \in Starters, LockFavorites(s) \/ OpenFavorites(s) PROVE FileType'
  BY <1>3 DEF LockFavorites, OpenFavorites, Quiet, fileVars, cutVars, labVars, userVars
<1>4. ASSUME NEW s \in Starters, ReadFavorites(s) PROVE FileType'
  BY <1>1, <1>4 DEF ReadFavorites, ReadRaises, Unlock, Quiet, fileVars, cutVars, labVars, userVars
<1>5. ASSUME NEW s \in Starters, WriteFavorites(s) PROVE FileType'
  BY <1>1, <1>5 DEF WriteFavorites, WhenWritten, Quiet, cutVars, labVars, userVars
<1>6. ASSUME NEW s \in Starters, Interrupt(s) PROVE FileType'
  BY <1>1, <1>6 DEF Interrupt, fileVars, userVars
<1>7. CASE Saves
  BY <1>7, BoundsAssumption DEF Saves, LabOpens, LabSaves, WhenWritten, cutVars
<1>8. CASE NotebookStops \/ UNCHANGED vars
  BY <1>8 DEF NotebookStops, vars, fileVars, cutVars, labVars, userVars
<1> HIDE DEF FileType
<1> QED  BY StepKinds, <1>2, <1>3, <1>4, <1>5, <1>6, <1>7, <1>8, Zenon DEF OnFile

---------------------------------------------------------------------------
(* The parts of the invariant, each by the steps that touch it.             *)

\* The directory appears with a build under way, which ends with an environment or
\* is cut short.
LEMMA VenvStep ==
    ASSUME DiskType, EmptyVenvIsBuilt, [Next]_vars PROVE EmptyVenvIsBuilt'
<1> USE DEF EmptyVenvIsBuilt, DiskType, vars, diskVars, cutVars, labVars, Quiet, Go, At, Steps, Nobody
<1>1. ASSUME NEW s \in Starters, EnsureVirtualEnvironment(s) PROVE EmptyVenvIsBuilt'
  BY <1>1 DEF EnsureVirtualEnvironment
<1>2. ASSUME NEW s \in Starters, BuildVirtualEnvironment(s) PROVE EmptyVenvIsBuilt'
  <2>1. CASE "build" \in cut \/ \E t \in Starters \ {s} : pc[t] = "build"
    BY <1>2, <2>1 DEF BuildVirtualEnvironment, Left
  <2>2. CASE ~("build" \in cut \/ \E t \in Starters \ {s} : pc[t] = "build")
    <3>1. venv' = "whole"
      BY <1>2, <2>2 DEF BuildVirtualEnvironment, Left
    <3> QED  BY <1>2, <3>1 DEF BuildVirtualEnvironment
  <2> QED  BY <2>1, <2>2
<1>9. ASSUME NEW s \in Starters, MakeVirtualEnvironment(s) PROVE EmptyVenvIsBuilt'
  BY <1>9 DEF MakeVirtualEnvironment
<1>3. ASSUME NEW s \in Starters, Begin(s) \/ EnsureUserDirectory(s)
                                 \/ EnsureUserJupyterDirectory(s) \/ ConfigureContainer(s)
      PROVE EmptyVenvIsBuilt'
  BY <1>3 DEF Begin, EnsureUserDirectory, EnsureUserJupyterDirectory, ConfigureContainer
<1>4. ASSUME NEW s \in Starters, EnsureBashrc(s) PROVE EmptyVenvIsBuilt'
  BY <1>4 DEF EnsureBashrc, CheckDotfile, OpenDotfile, CopyDotfile, Left
<1>5. ASSUME NEW s \in Starters, LockFavorites(s) \/ OpenFavorites(s) \/ WriteFavorites(s)
      PROVE EmptyVenvIsBuilt'
  BY <1>5 DEF LockFavorites, OpenFavorites, WriteFavorites, WhenWritten
<1>6. ASSUME NEW s \in Starters, ReadFavorites(s) PROVE EmptyVenvIsBuilt'
  BY <1>6 DEF ReadFavorites, ReadRaises, Unlock
<1>7. ASSUME NEW s \in Starters, Interrupt(s) PROVE EmptyVenvIsBuilt'
  BY <1>7 DEF Interrupt
<1>8. CASE Saves \/ NotebookStops \/ UNCHANGED vars
  BY <1>8 DEF Saves, LabOpens, LabSaves, WhenWritten, Holding, NotebookStops
<1> HIDE DEF EmptyVenvIsBuilt, DiskType, vars, Quiet, Go, At, Steps, Nobody
<1> QED  BY StepKinds, <1>1, <1>2, <1>3, <1>4, <1>5, <1>6, <1>7, <1>8, <1>9, Zenon
         DEF OnDisk, OnFile

\* A copy is made by the one start that found the file missing.
LEMMA DotfileStep ==
    ASSUME DiskType, TornDotfileIsCopied, [Next]_vars PROVE TornDotfileIsCopied'
<1> USE DEF TornDotfileIsCopied, DiskType, vars, diskVars, cutVars, labVars, Quiet, Go, At, Steps,
        Nobody, Dotfiles
<1>1. ASSUME NEW s \in Starters, EnsureBashrc(s) PROVE TornDotfileIsCopied'
  <2>1. CASE \/ CheckDotfile(s, ".bashrc", "bashrc", "openBashrc", "profile")
             \/ CheckDotfile(s, ".bash_profile", "profile", "openProfile", "jupyter")
    BY <2>1 DEF CheckDotfile
  <2>2. CASE OpenDotfile(s, ".bashrc", "openBashrc", "copyBashrc")
    BY <2>2 DEF OpenDotfile
  <2>3. CASE OpenDotfile(s, ".bash_profile", "openProfile", "copyProfile")
    BY <2>3 DEF OpenDotfile
  <2>4. CASE CopyDotfile(s, ".bashrc", "copyBashrc", "profile")
    <3>1. CASE "copyBashrc" \in cut \/ \E t \in Starters \ {s} : pc[t] = "copyBashrc"
      BY <2>4, <3>1 DEF CopyDotfile, Left
    <3>2. CASE ~("copyBashrc" \in cut \/ \E t \in Starters \ {s} : pc[t] = "copyBashrc")
      <4>1. dotfile' = [dotfile EXCEPT ![".bashrc"] = "whole"]
        BY <2>4, <3>2 DEF CopyDotfile, Left
      <4> QED  BY <2>4, <4>1 DEF CopyDotfile
    <3> QED  BY <3>1, <3>2
  <2>5. CASE CopyDotfile(s, ".bash_profile", "copyProfile", "jupyter")
    <3>1. CASE "copyProfile" \in cut \/ \E t \in Starters \ {s} : pc[t] = "copyProfile"
      BY <2>5, <3>1 DEF CopyDotfile, Left
    <3>2. CASE ~("copyProfile" \in cut \/ \E t \in Starters \ {s} : pc[t] = "copyProfile")
      <4>1. dotfile' = [dotfile EXCEPT ![".bash_profile"] = "whole"]
        BY <2>5, <3>2 DEF CopyDotfile, Left
      <4> QED  BY <2>5, <4>1 DEF CopyDotfile
    <3> QED  BY <3>1, <3>2
  <2> QED  BY <1>1, <2>1, <2>2, <2>3, <2>4, <2>5 DEF EnsureBashrc
<1>2. ASSUME NEW s \in Starters, Begin(s) \/ EnsureUserDirectory(s)
                                 \/ EnsureUserJupyterDirectory(s) \/ ConfigureContainer(s)
      PROVE TornDotfileIsCopied'
  BY <1>2 DEF Begin, EnsureUserDirectory, EnsureUserJupyterDirectory, ConfigureContainer
<1>3. ASSUME NEW s \in Starters, EnsureVirtualEnvironment(s) \/ MakeVirtualEnvironment(s)
             \/ BuildVirtualEnvironment(s)
      PROVE TornDotfileIsCopied'
  BY <1>3 DEF EnsureVirtualEnvironment, MakeVirtualEnvironment, BuildVirtualEnvironment, Left
<1>4. ASSUME NEW s \in Starters, LockFavorites(s) \/ OpenFavorites(s) \/ WriteFavorites(s)
      PROVE TornDotfileIsCopied'
  BY <1>4 DEF LockFavorites, OpenFavorites, WriteFavorites, WhenWritten
<1>5. ASSUME NEW s \in Starters, ReadFavorites(s) PROVE TornDotfileIsCopied'
  BY <1>5 DEF ReadFavorites, ReadRaises, Unlock
<1>6. ASSUME NEW s \in Starters, Interrupt(s) PROVE TornDotfileIsCopied'
  BY <1>6 DEF Interrupt
<1>7. CASE Saves \/ NotebookStops \/ UNCHANGED vars
  BY <1>7 DEF Saves, LabOpens, LabSaves, WhenWritten, Holding, NotebookStops
<1> HIDE DEF TornDotfileIsCopied, DiskType, vars, Quiet, Go, At, Steps, Nobody
<1> QED  BY StepKinds, <1>1, <1>2, <1>3, <1>4, <1>5, <1>6, <1>7, Zenon DEF OnDisk, OnFile

\* The lock is given to one start, which keeps it until it is done or has failed.
LEMMA LockStep ==
    ASSUME DiskType, FavoritesAreLocked, [Next]_vars PROVE FavoritesAreLocked'
<1> USE StarterAssumption DEF FavoritesAreLocked, DiskType, vars, fileVars, cutVars, labVars, Quiet,
        Go, At, Steps, Nobody
<1>1. ASSUME NEW s \in Starters, Begin(s) PROVE FavoritesAreLocked'
  BY <1>1 DEF Begin
<1>2. ASSUME NEW s \in Starters, OnDisk(s) PROVE FavoritesAreLocked'
  BY <1>2 DEF OnDisk, EnsureUserDirectory, EnsureUserJupyterDirectory, ConfigureContainer,
       EnsureBashrc, CheckDotfile, OpenDotfile, CopyDotfile, Left, EnsureVirtualEnvironment,
       MakeVirtualEnvironment, BuildVirtualEnvironment, Left
<1>3. ASSUME NEW s \in Starters, LockFavorites(s) PROVE FavoritesAreLocked'
  BY <1>3 DEF LockFavorites
<1>4. ASSUME NEW s \in Starters, ReadFavorites(s) PROVE FavoritesAreLocked'
  BY <1>4 DEF ReadFavorites, ReadRaises, Unlock
<1>5. ASSUME NEW s \in Starters, OpenFavorites(s) PROVE FavoritesAreLocked'
  BY <1>5 DEF OpenFavorites
<1>6. ASSUME NEW s \in Starters, WriteFavorites(s) PROVE FavoritesAreLocked'
  BY <1>6 DEF WriteFavorites, WhenWritten, Unlock
<1>7. ASSUME NEW s \in Starters, Interrupt(s) PROVE FavoritesAreLocked'
  BY <1>7 DEF Interrupt, Unlock
<1>8. CASE Saves \/ NotebookStops \/ UNCHANGED vars
  BY <1>8 DEF Saves, LabOpens, LabSaves, WhenWritten, Holding, NotebookStops
<1> HIDE DEF FavoritesAreLocked, DiskType, vars, Quiet, Go, At, Steps, Nobody
<1> QED  BY StepKinds, <1>1, <1>2, <1>3, <1>4, <1>5, <1>6, <1>7, <1>8, Zenon DEF OnFile

\* What the steps that open and write the favorites do to who has met whom.
LEMMA MeetStep ==
    ASSUME BooleanType, DiskType, SavesMeetStarts, [Next]_vars PROVE SavesMeetStarts'
<1> USE DEF SavesMeetStarts, DiskType, BooleanType, vars, fileVars, userVars, cutVars, labVars,
        Quiet, Go, At, Steps, Nobody
<1>1. ASSUME NEW s \in Starters, Begin(s) PROVE SavesMeetStarts'
  BY <1>1 DEF Begin
<1>2. ASSUME NEW s \in Starters, OnDisk(s) PROVE SavesMeetStarts'
  BY <1>2 DEF OnDisk, EnsureUserDirectory, EnsureUserJupyterDirectory, ConfigureContainer,
       EnsureBashrc, CheckDotfile, OpenDotfile, CopyDotfile, EnsureVirtualEnvironment,
       MakeVirtualEnvironment, BuildVirtualEnvironment
<1>3. ASSUME NEW s \in Starters, LockFavorites(s) PROVE SavesMeetStarts'
  BY <1>3 DEF LockFavorites
<1>4. ASSUME NEW s \in Starters, ReadFavorites(s) PROVE SavesMeetStarts'
  BY <1>4 DEF ReadFavorites, ReadRaises, Unreadable
<1>5. ASSUME NEW s \in Starters, OpenFavorites(s) PROVE SavesMeetStarts'
  BY <1>5 DEF OpenFavorites
<1>6. ASSUME NEW s \in Starters, WriteFavorites(s) PROVE SavesMeetStarts'
  BY <1>6 DEF WriteFavorites
<1>7. ASSUME NEW s \in Starters, Interrupt(s) PROVE SavesMeetStarts'
  BY <1>7 DEF Interrupt
<1>8. CASE LabOpens
  BY <1>8 DEF LabOpens, Holding, Open
<1>9. ASSUME NEW chosen \in Choices, NEW key \in BOOLEAN, LabSaves(chosen, key)
      PROVE  SavesMeetStarts'
  BY <1>9 DEF LabSaves, Holding, Open
<1>10. CASE NotebookStops \/ UNCHANGED vars
  BY <1>10 DEF NotebookStops
<1> HIDE DEF SavesMeetStarts, DiskType, BooleanType, vars, Quiet, Go, At, Steps, Nobody
<1> QED  BY StepKinds, <1>1, <1>2, <1>3, <1>4, <1>5, <1>6, <1>7, <1>8, <1>9, <1>10, Zenon
         DEF OnFile, Saves

\* What is written is whole, unless two write at a time.
LEMMA WhenWrittenIs == ASSUME BooleanType, ~tangled PROVE WhenWritten = {"whole"}
  BY DEF WhenWritten

\* A cut, a save or a write leaves the file torn for the reason it says.
LEMMA TornStep ==
    ASSUME BooleanType, DiskType, SavesMeetStarts, TornFileHasCause, [Next]_vars
    PROVE  TornFileHasCause'
<1> USE DEF TornFileHasCause, DiskType, BooleanType, vars, fileVars, userVars, cutVars,
        labVars, Quiet, Go, At, Steps, Nobody
<1>1. ASSUME NEW s \in Starters, Begin(s) PROVE TornFileHasCause'
  BY <1>1 DEF Begin
<1>2. ASSUME NEW s \in Starters, OnDisk(s) PROVE TornFileHasCause'
  BY <1>2 DEF OnDisk, EnsureUserDirectory, EnsureUserJupyterDirectory, ConfigureContainer,
       EnsureBashrc, CheckDotfile, OpenDotfile, CopyDotfile, EnsureVirtualEnvironment,
       MakeVirtualEnvironment, BuildVirtualEnvironment
<1>3. ASSUME NEW s \in Starters, LockFavorites(s) PROVE TornFileHasCause'
  BY <1>3 DEF LockFavorites
<1>4. ASSUME NEW s \in Starters, ReadFavorites(s) PROVE TornFileHasCause'
  BY <1>4 DEF ReadFavorites, ReadRaises
<1>5. ASSUME NEW s \in Starters, OpenFavorites(s) PROVE TornFileHasCause'
  BY <1>5 DEF OpenFavorites
<1>6. ASSUME NEW s \in Starters, WriteFavorites(s) PROVE TornFileHasCause'
  <2>1. overlapped' = overlapped
    BY <1>6 DEF WriteFavorites
  <2>2. file' = "torn" => overlapped
    <3>1. tangled => overlapped
      BY DEF SavesMeetStarts
    <3>2. ~tangled => file' = "whole"
      BY <1>6, WhenWrittenIs DEF WriteFavorites
    <3> QED  BY <3>1, <3>2
  <2> QED  BY <2>1, <2>2
<1>7. ASSUME NEW s \in Starters, Interrupt(s) PROVE TornFileHasCause'
  BY <1>7 DEF Interrupt
<1>8. CASE LabOpens
  BY <1>8 DEF LabOpens
<1>9. ASSUME NEW chosen \in Choices, NEW key \in BOOLEAN, LabSaves(chosen, key)
      PROVE  TornFileHasCause'
  <2>1. overlapped => overlapped'
    BY <1>9 DEF LabSaves
  <2>2. file' = "torn" => overlapped
    <3>1. tangled => overlapped
      BY DEF SavesMeetStarts
    <3>2. ~tangled => file' = "whole"
      BY <1>9, WhenWrittenIs DEF LabSaves
    <3> QED  BY <3>1, <3>2
  <2> QED  BY <2>1, <2>2
<1>10. CASE NotebookStops
  BY <1>10 DEF NotebookStops
<1>11. CASE UNCHANGED vars
  BY <1>11
<1> HIDE DEF TornFileHasCause, DiskType, BooleanType, vars, Quiet, Go, At, Steps, Nobody
<1> QED  BY StepKinds, <1>1, <1>2, <1>3, <1>4, <1>5, <1>6, <1>7, <1>8, <1>9, <1>10, <1>11,
            Zenon
         DEF OnFile, Saves

\* A save while a start holds what it has read counts as overlapped; otherwise what is
\* written is what was read, and more.
LEMMA WantedStep ==
    ASSUME BooleanType, DiskType, FileType, SavesMeetStarts, WantedIsCarried, [Next]_vars PROVE WantedIsCarried'
<1> USE DEF WantedIsCarried, SavesMeetStarts, BooleanType, DiskType, FileType, vars, labVars, fileVars, userVars, Quiet, Go, At,
        Steps, Nobody
<1>1. ASSUME NEW s \in Starters, Begin(s) PROVE WantedIsCarried'
  BY <1>1 DEF Begin
<1>2. ASSUME NEW s \in Starters, OnDisk(s) PROVE WantedIsCarried'
  BY <1>2 DEF OnDisk, EnsureUserDirectory, EnsureUserJupyterDirectory, ConfigureContainer,
       EnsureBashrc, CheckDotfile, OpenDotfile, CopyDotfile, Left, EnsureVirtualEnvironment,
       MakeVirtualEnvironment, BuildVirtualEnvironment, Left
<1>3. ASSUME NEW s \in Starters, LockFavorites(s) \/ OpenFavorites(s) PROVE WantedIsCarried'
  BY <1>3 DEF LockFavorites, OpenFavorites
<1>4. ASSUME NEW s \in Starters, ReadFavorites(s) PROVE WantedIsCarried'
  BY <1>4 DEF ReadFavorites, ReadRaises, Unreadable
<1>5. ASSUME NEW s \in Starters, WriteFavorites(s) PROVE WantedIsCarried'
  BY <1>5 DEF WriteFavorites, WhenWritten
<1>6. ASSUME NEW s \in Starters, Interrupt(s) PROVE WantedIsCarried'
  BY <1>6 DEF Interrupt
<1>7. CASE LabOpens
  <2>1. UNCHANGED <<pc, read, listed, wanted>> /\ file' = "torn"
    BY <1>7 DEF LabOpens
  <2>2. overlapped => overlapped'
    BY <1>7 DEF LabOpens
  <2> QED  BY <2>1, <2>2
<1>9. ASSUME NEW chosen \in Choices, NEW key \in BOOLEAN, LabSaves(chosen, key)
      PROVE  WantedIsCarried'
  <2>1. ~overlapped' => Holding = {}
    BY <1>9 DEF LabSaves
  <2>2. /\ file' # "absent" /\ UNCHANGED pc
        /\ \A p \in wanted' : listed'[p] > 0
    <3>1. wanted' = (IF key THEN chosen ELSE {}) /\ chosen \subseteq Paths
      BY <1>9, BoundsAssumption DEF LabSaves
    <3>2. listed' = [p \in Paths |-> IF key /\ p \in chosen THEN 1 ELSE 0]
      BY <1>9 DEF LabSaves
    <3> QED  BY <1>9, <3>1, <3>2 DEF LabSaves, WhenWritten
  <2> QED  BY <2>1, <2>2 DEF Holding
<1>8. CASE NotebookStops \/ UNCHANGED vars
  BY <1>8 DEF NotebookStops
<1> HIDE DEF WantedIsCarried, SavesMeetStarts, BooleanType, DiskType, FileType, vars, Quiet, Go, At, Steps, Nobody
<1> QED  BY StepKinds, <1>1, <1>2, <1>3, <1>4, <1>5, <1>6, <1>7, <1>8, <1>9, Zenon DEF OnFile, Saves

\* Only an entry that was not read is appended.
LEMMA ListedStep ==
    ASSUME FileType, ListedOnce, [Next]_vars PROVE ListedOnce'
<1> USE DEF ListedOnce, FileType
<1>1. ASSUME UNCHANGED <<listed, read>> PROVE ListedOnce'
  BY <1>1
<1>2. ASSUME NEW s \in Starters, Begin(s) \/ OnDisk(s) \/ LockFavorites(s) \/ OpenFavorites(s)
      PROVE  UNCHANGED <<listed, read>>
  BY <1>2 DEF Begin, OnDisk, EnsureUserDirectory, EnsureUserJupyterDirectory,
       ConfigureContainer, EnsureBashrc, CheckDotfile, OpenDotfile, CopyDotfile, Left,
       EnsureVirtualEnvironment, MakeVirtualEnvironment, BuildVirtualEnvironment, Left, LockFavorites, OpenFavorites, fileVars
<1>3. ASSUME NEW s \in Starters, ReadFavorites(s) PROVE ListedOnce'
  BY <1>3 DEF ReadFavorites, ReadRaises, Unlock, fileVars, Nothing
<1>4. ASSUME NEW s \in Starters, WriteFavorites(s) PROVE ListedOnce'
  BY <1>4 DEF WriteFavorites, WhenWritten, Missing, Nothing
<1>5. ASSUME NEW s \in Starters, Interrupt(s) PROVE ListedOnce'
  BY <1>5 DEF Interrupt, fileVars, Nothing
<1>6. CASE Saves
  BY <1>6 DEF Saves, LabOpens, LabSaves, WhenWritten, Holding
<1>7. CASE NotebookStops \/ UNCHANGED vars
  BY <1>7 DEF NotebookStops, vars, fileVars
<1> HIDE DEF ListedOnce, FileType
<1> QED  BY StepKinds, <1>1, <1>2, <1>3, <1>4, <1>5, <1>6, <1>7, Zenon DEF OnFile

\* Only whoever has the lock opens the file, and it opens one that it has read.
LEMMA FileIsThereStep ==
    ASSUME DiskType, FavoritesAreLocked, FileIsThere, [Next]_vars PROVE FileIsThere'
<1> USE StarterAssumption DEF FavoritesAreLocked, FileIsThere, DiskType, vars, fileVars,
        cutVars, labVars, Quiet, Go, At, Steps, Nobody
<1>1. ASSUME NEW s \in Starters, Begin(s) PROVE FileIsThere'
  BY <1>1 DEF Begin, Nothing
<1>2. ASSUME NEW s \in Starters, OnDisk(s) PROVE FileIsThere'
  BY <1>2 DEF OnDisk, EnsureUserDirectory, EnsureUserJupyterDirectory, ConfigureContainer,
       EnsureBashrc, CheckDotfile, OpenDotfile, CopyDotfile, Left, EnsureVirtualEnvironment,
       MakeVirtualEnvironment, BuildVirtualEnvironment, Left, Nothing
<1>3. ASSUME NEW s \in Starters, LockFavorites(s) PROVE FileIsThere'
  BY <1>3 DEF LockFavorites, Nothing
<1>4. ASSUME NEW s \in Starters, ReadFavorites(s) PROVE FileIsThere'
  BY <1>4 DEF ReadFavorites, ReadRaises, Unreadable, Unlock, Nothing
<1>5. ASSUME NEW s \in Starters, OpenFavorites(s) PROVE FileIsThere'
  BY <1>5 DEF OpenFavorites
<1>6. ASSUME NEW s \in Starters, WriteFavorites(s) PROVE FileIsThere'
  BY <1>6 DEF WriteFavorites, WhenWritten, Unlock
<1>7. ASSUME NEW s \in Starters, Interrupt(s) PROVE FileIsThere'
  BY <1>7 DEF Interrupt, Unlock, Nothing
<1>8. CASE Saves
  BY <1>8 DEF Saves, LabOpens, LabSaves, WhenWritten, Holding
<1>9. CASE NotebookStops \/ UNCHANGED vars
  BY <1>9 DEF NotebookStops, Nothing
<1> HIDE DEF FavoritesAreLocked, FileIsThere, DiskType, vars, Quiet, Go, At, Steps, Nobody
<1> QED  BY StepKinds, <1>1, <1>2, <1>3, <1>4, <1>5, <1>6, <1>7, <1>8, <1>9, Zenon DEF OnFile

---------------------------------------------------------------------------
(* The theorems.                                                           *)

\* The invariant holds in every reachable state.
THEOREM PreparationInvariant == Spec => []PrepInv
<1>1. Init => PrepInv
  BY InitPrepInv
<1>2. PrepInv /\ [Next]_vars => PrepInv'
  <2> SUFFICES ASSUME PrepInv, [Next]_vars PROVE PrepInv'
    OBVIOUS
  <2>1. BooleanType /\ DiskType /\ FileType
    BY TypeParts DEF PrepInv
  <2>2. BooleanType' /\ DiskType' /\ FileType'
    BY <2>1, BooleanStep, DiskStep, FileStep
  <2>3. TypeOK'
    BY <2>2, Zenon DEF TypeOK, BooleanType, DiskType, FileType
  <2>4. EmptyVenvIsBuilt' /\ TornDotfileIsCopied' /\ FavoritesAreLocked'
    BY <2>1, VenvStep, DotfileStep, LockStep DEF PrepInv
  <2>6. SavesMeetStarts' /\ TornFileHasCause'
    BY <2>1, MeetStep, TornStep DEF PrepInv
  <2>5. WantedIsCarried' /\ ListedOnce' /\ FileIsThere'
    BY <2>1, WantedStep, ListedStep, FileIsThereStep DEF PrepInv
  <2> QED  BY <2>3, <2>4, <2>5, <2>6 DEF PrepInv
<1> QED  BY <1>1, <1>2, PTL DEF Spec

\* Every reachable state of the home directory and of the starts on it is well typed.
THEOREM PreparationTypeOK == Spec => []TypeOK
<1>1. PrepInv => TypeOK
  BY DEF PrepInv
<1> QED  BY <1>1, PreparationInvariant, PTL

\* A start that is done finds a whole virtual environment, unless venv.create was cut
\* short or another start is inside it: _ensure_virtual_environment of both spawners.
THEOREM VenvIsWhole == Spec => []IncompleteVenvNeedsInterrupt
<1>1. PrepInv => IncompleteVenvNeedsInterrupt
  BY DEF PrepInv, TypeOK, EmptyVenvIsBuilt, IncompleteVenvNeedsInterrupt
<1> QED  BY <1>1, PreparationInvariant, PTL

\* A start-up file is torn only while its copy is made, or after one was cut short:
\* _ensure_user_directory and its bashrc and bash_profile.
THEOREM DotfilesAreWhole == Spec => []TornDotfileNeedsInterrupt
<1>1. PrepInv => TornDotfileNeedsInterrupt
  BY DEF PrepInv, TornDotfileIsCopied, TornDotfileNeedsInterrupt, Dotfiles
<1> QED  BY <1>1, PreparationInvariant, PTL

\* Under its lock no start reads favorites that another is writing.
THEOREM ReadsAreWhole == Spec => []TornReadNeedsCause
<1>1. PrepInv => TornReadNeedsCause
  BY DEF PrepInv, FavoritesAreLocked, TornFileHasCause, TornReadNeedsCause
<1> QED  BY <1>1, PreparationInvariant, PTL

\* Favorites a user saved are in the file, or in the hands of the start that writes it,
\* whatever starts there are, unless a save met a start between its read and its write,
\* or one of them was cut short after it had emptied the file.
THEOREM FavoritesSurvive == Spec => []FavoritesKept
<1>1. PrepInv => FavoritesKept
  <2> SUFFICES ASSUME PrepInv, wanted # {}, ~overlapped
               PROVE  \/ file = "whole" /\ Has(listed, wanted)
                      \/ \E s \in Open : Has(read[s], wanted)
                      \/ file = "torn" /\ (saving \/ {"write", "save"} \cap cut # {})
    BY DEF FavoritesKept
  <2>1. file \in {"absent", "torn", "whole"} /\ file # "absent"
    BY DEF PrepInv, TypeOK, WantedIsCarried
  <2>2. CASE file = "whole"
    BY <2>2 DEF PrepInv, WantedIsCarried, Has
  <2>3. CASE file = "torn"
    BY <2>3 DEF PrepInv, TornFileHasCause, WantedIsCarried, Has, Open
  <2> QED  BY <2>1, <2>2, <2>3
<1> QED  BY <1>1, PreparationInvariant, PTL

\* A count of at most one is none or one.
LEMMA AtMostOne == \A i \in Nat : i <= 1 => i = 0 \/ i = 1
  OBVIOUS

\* The step that ends a start leaves both its favorites, and nothing listed twice.
THEOREM StartsListHome == Spec => StartListsHomeOnce
<1> DEFINE Listed == \A s \in Starters : pc[s] # "done" /\ pc'[s] = "done"
          => /\ file' = "whole" \/ tangled
             /\ listed'[Home] = 1 /\ listed'[Shared] = 1
             /\ \A p \in Paths : listed'[p] <= 1
<1>1. PrepInv /\ [Next]_vars => [Listed]_vars
  <2> SUFFICES ASSUME PrepInv, [Next]_vars PROVE Listed
    OBVIOUS
  <2> USE DEF PrepInv, TypeOK
  <2>1. ASSUME NEW t \in Starters, WriteFavorites(t) PROVE Listed
    <3>1. /\ \A p \in Paths : read[t][p] \in Nat /\ read[t][p] <= 1
          /\ listed' = [p \in Paths |-> read[t][p] + IF p \in Missing(read[t]) THEN 1 ELSE 0]
      BY <2>1 DEF WriteFavorites, WhenWritten, ListedOnce
    <3>2. \A p \in Paths : listed'[p] <= 1
      BY <3>1 DEF Missing
    <3>3. Home \in Paths /\ Shared \in Paths
      BY DEF Paths
    <3>4. ASSUME NEW p \in Paths, p \in {Home, Shared} PROVE listed'[p] = 1
      <4>1. p \in Missing(read[t]) <=> read[t][p] = 0
        BY <3>4 DEF Missing
      <4>2. read[t][p] = 0 \/ read[t][p] = 1
        BY <3>1, AtMostOne
      <4>3. listed'[p] = read[t][p] + IF p \in Missing(read[t]) THEN 1 ELSE 0
        BY <3>1
      <4>4. CASE read[t][p] = 0
        BY <4>1, <4>3, <4>4
      <4>5. CASE read[t][p] = 1
        BY <4>1, <4>3, <4>5
      <4> QED  BY <4>2, <4>4, <4>5
    <3>5. file' = "whole" \/ tangled
      BY <2>1 DEF WriteFavorites, WhenWritten
    <3> QED  BY <3>2, <3>3, <3>4, <3>5
  <2>2. ASSUME NEW t \in Starters, Begin(t) \/ OnDisk(t) PROVE Listed
    BY <2>2 DEF Begin, OnDisk, EnsureUserDirectory, EnsureUserJupyterDirectory,
         ConfigureContainer, EnsureBashrc, CheckDotfile, OpenDotfile, CopyDotfile, Left,
         EnsureVirtualEnvironment, MakeVirtualEnvironment, BuildVirtualEnvironment, Left, Go
  <2>3. ASSUME NEW t \in Starters,
               LockFavorites(t) \/ ReadFavorites(t) \/ OpenFavorites(t) \/ Interrupt(t)
        PROVE  Listed
    BY <2>3 DEF LockFavorites, ReadFavorites, ReadRaises, Unlock, OpenFavorites, Interrupt, Go
  <2>4. CASE Saves \/ NotebookStops \/ UNCHANGED vars
    BY <2>4 DEF Saves, LabOpens, LabSaves, WhenWritten, Holding, NotebookStops, vars
  <2> HIDE DEF Listed, PrepInv, TypeOK
  <2> QED  BY StepKinds, <2>1, <2>2, <2>3, <2>4, Zenon DEF OnFile
<1> QED  BY <1>1, PreparationInvariant, PTL DEF Spec, StartListsHomeOnce
---------------------------------------------------------------------------
(* The favorites implement FavoritesFile.                                  *)

Writing == {"open", "write"}

\* A step that leaves the file, the starts that are to write it and what they have
\* read changes nothing of the abstract file.
LEMMA FavoritesFrame ==
    ASSUME UNCHANGED <<file, listed, hasKey>>,
           \A t \in Starters :
              /\ pc'[t] \in Writing <=> pc[t] \in Writing
              /\ pc[t] \in Writing => read'[t] = read[t]
    PROVE  UNCHANGED Favorites!fileVars
<1>1. ReadBefore' = ReadBefore
  BY DEF ReadBefore, Holding, Writing
<1>2. Broken' = Broken
  BY DEF Broken, Holding, Writing
<1> QED  BY <1>1, <1>2 DEF Favorites!fileVars

\* Where nobody is about to write, no update is based on anything.
LEMMA NobodyWrites ==
    ASSUME \A t \in Starters : pc[t] \notin Writing
    PROVE  ReadBefore = {} /\ Broken = (file = "torn")
  BY DEF ReadBefore, Broken, Holding, Writing

\* Likewise after a step.
LEMMA NobodyWritesNext ==
    ASSUME \A t \in Starters : pc'[t] \notin Writing
    PROVE  ReadBefore' = {} /\ Broken' = (file' = "torn")
  BY DEF ReadBefore, Broken, Holding, Writing

\* A file that a start is to write is not broken.
LEMMA WritersMend ==
    ASSUME NEW s \in Starters
    PROVE  /\ pc[s] \in Writing => Broken = FALSE
           /\ pc'[s] \in Writing => Broken' = FALSE
<1>1. pc[s] \in Writing => ~Broken
  BY DEF Broken, Holding, Writing
<1>2. pc'[s] \in Writing => ~Broken'
  BY DEF Broken, Holding, Writing
<1> QED  BY <1>1, <1>2 DEF Broken

\* Where one start is about to write, it alone may have read something else.
LEMMA OneWrites ==
    ASSUME NEW s \in Starters, pc[s] \in Writing,
           \A t \in Starters : t # s => pc[t] \notin Writing
    PROVE  /\ read[s] # listed \/ ~hasKey => ReadBefore = {read[s]}
           /\ read[s] = listed /\ hasKey => ReadBefore = {}
           /\ Broken = FALSE
<1>1. ASSUME read[s] # listed \/ ~hasKey PROVE ReadBefore = {read[s]}
  BY <1>1 DEF ReadBefore, Holding, Writing
<1>2. ASSUME read[s] = listed, hasKey PROVE ReadBefore = {}
  BY <1>2 DEF ReadBefore, Holding, Writing
<1>3. Broken = FALSE
  BY WritersMend
<1> QED  BY <1>1, <1>2, <1>3

\* Whoever has the lock is the only one that may be about to write.
LEMMA OthersWait ==
    ASSUME FavoritesAreLocked, NEW s \in Starters, pc[s] \in {"read", "open", "write"}
    PROVE  \A t \in Starters : t # s => pc[t] \notin Writing
  BY DEF FavoritesAreLocked, Writing

\* Steps before the favorites.
LEMMA DiskStepsStutter ==
    ASSUME DiskType, NEW s \in Starters, Begin(s) \/ OnDisk(s) \/ LockFavorites(s)
    PROVE  UNCHANGED Favorites!fileVars
<1>1. /\ UNCHANGED <<fileVars, read>>
      /\ \E step \in (Steps \cup Nobody) \ Writing : pc' = [pc EXCEPT ![s] = step]
      /\ pc[s] \notin Writing
  BY DEF Begin, OnDisk, LockFavorites, EnsureUserDirectory, EnsureUserJupyterDirectory,
     ConfigureContainer, EnsureBashrc, CheckDotfile, OpenDotfile, CopyDotfile,
     EnsureVirtualEnvironment, MakeVirtualEnvironment, BuildVirtualEnvironment, Go, At, Writing, Steps, Nobody
<1>2. \A t \in Starters : t # s => pc'[t] = pc[t]
  BY <1>1 DEF DiskType
<1>3. pc'[s] \notin Writing
  BY <1>1 DEF DiskType
<1>4. "write" \in Writing
  BY DEF Writing
<1> QED  BY <1>1, <1>2, <1>3, <1>4, FavoritesFrame DEF fileVars

\* A start that reads has what is there, or gives up without having opened the file.
LEMMA ReadStutters ==
    ASSUME PrepInv, NEW s \in Starters, ReadFavorites(s)
    PROVE  UNCHANGED Favorites!fileVars
<1> USE DEF PrepInv, TypeOK
<1>1. pc[s] = "read" /\ UNCHANGED fileVars
  BY DEF ReadFavorites, At
<1>2. \A t \in Starters : t # s => pc[t] \notin Writing /\ pc'[t] \notin Writing
  BY <1>1, OthersWait DEF ReadFavorites, ReadRaises, Go
<1>3. ReadBefore = {} /\ Broken = (file = "torn")
  BY <1>1, <1>2, NobodyWrites DEF Writing
<1>4. CASE ReadRaises(s)
  <2>1. \A t \in Starters : pc'[t] \notin Writing
    BY <1>2, <1>4 DEF ReadRaises, Go, Writing
  <2>2. ReadBefore' = {} /\ Broken' = (file' = "torn")
    BY <2>1, NobodyWritesNext
  <2> QED  BY <1>1, <1>3, <2>2 DEF Favorites!fileVars, fileVars
<1>5. CASE /\ ~Unreadable /\ Go(s, "open")
           /\ read' = [read EXCEPT ![s] = IF file = "absent" THEN Nothing ELSE listed]
  <2>1. pc'[s] = "open" /\ file # "torn"
    BY <1>5 DEF Go, Unreadable
  <2>2. read'[s] = listed /\ hasKey
    <3>1. read'[s] = IF file = "absent" THEN Nothing ELSE listed
      BY <1>5
    <3>2. file = "absent" \/ file = "whole"
      BY <2>1
    <3>3. file = "whole" => hasKey
      BY <1>5 DEF Unreadable
    <3> QED  BY <3>1, <3>2, <3>3 DEF FileIsThere
  <2>3. ReadBefore' = {}
    BY <1>1, <1>2, <2>1, <2>2 DEF ReadBefore, Holding, Writing, fileVars
  <2>4. Broken' = FALSE
    BY <2>1, WritersMend DEF Writing
  <2>5. Broken = FALSE
    BY <1>3, <2>1
  <2> QED  BY <1>1, <1>3, <2>3, <2>4, <2>5 DEF Favorites!fileVars, fileVars
<1> QED  BY <1>4, <1>5 DEF ReadFavorites

\* Opening the file for writing is part of the update to come.
LEMMA OpenStutters ==
    ASSUME PrepInv, NEW s \in Starters, OpenFavorites(s)
    PROVE  UNCHANGED Favorites!fileVars
<1> USE DEF PrepInv, TypeOK
<1>1. pc[s] = "open" /\ pc' = [pc EXCEPT ![s] = "write"] /\ UNCHANGED <<listed, hasKey, read>>
  BY DEF OpenFavorites, At, Go
<1>2. pc'[s] = "write"
  BY <1>1
<1>3. Broken' = FALSE /\ Broken = FALSE
  BY <1>1, <1>2, WritersMend DEF Writing
<1>4. ReadBefore' = ReadBefore
  BY <1>1 DEF ReadBefore, Holding
<1> QED  BY <1>1, <1>3, <1>4 DEF Favorites!fileVars

\* Appending each missing entry to a list of counts of at most one.
LEMMA WritesExtended ==
    ASSUME NEW counts \in [Paths -> Nat], \A p \in Paths : counts[p] <= 1
    PROVE  [p \in Paths |-> counts[p] + IF p \in Missing(counts) THEN 1 ELSE 0]
             = Favorites!Extended(counts)
<1>1. ASSUME NEW p \in Paths
      PROVE  (counts[p] + IF p \in Missing(counts) THEN 1 ELSE 0)
               = IF p \in {Home, Shared} /\ counts[p] = 0 THEN 1 ELSE counts[p]
  <2>1. counts[p] \in Nat
    OBVIOUS
  <2> QED  BY <2>1 DEF Missing
<1> QED  BY <1>1 DEF Favorites!Extended

\* The write is the moment of the update, or of the loss of a save.
LEMMA WriteIsUpdate ==
    ASSUME PrepInv, NEW s \in Starters, WriteFavorites(s)
    PROVE  Favorites!Update \/ Favorites!LostSave
<1> USE DEF PrepInv, TypeOK
<1>1. pc[s] = "write" /\ pc' = [pc EXCEPT ![s] = "done"] /\ hasKey' = TRUE
  BY DEF WriteFavorites, At, Go
<1>2. \A t \in Starters : t # s => pc[t] \notin Writing
  BY <1>1, OthersWait
<1>3. ~Broken
  BY <1>1, WritersMend DEF Writing
<1>4. ReadBefore' = {} /\ Broken' = (file' = "torn")
  BY <1>1, <1>2, NobodyWritesNext DEF Writing
<1>5. listed' = Favorites!Extended(read[s])
  BY WritesExtended DEF WriteFavorites, ListedOnce
<1>6. Favorites!Written
  BY <1>4 DEF Favorites!Written, WriteFavorites, WhenWritten
<1>7. CASE read[s] = listed /\ hasKey
  <2>1. ReadBefore = {}
    BY <1>1, <1>2, <1>7, OneWrites DEF Writing
  <2>2. hasKey' = hasKey
    BY <1>1, <1>7
  <2> QED  BY <1>3, <1>4, <1>5, <1>6, <1>7, <2>1, <2>2 DEF Favorites!Update
<1>8. CASE read[s] # listed \/ ~hasKey
  <2>1. ReadBefore = {read[s]}
    BY <1>1, <1>2, <1>8, OneWrites DEF Writing
  <2> QED  BY <1>1, <1>3, <1>4, <1>5, <1>6, <2>1 DEF Favorites!LostSave
<1> QED  BY <1>7, <1>8

\* A start that is cut short breaks the file, gives up its update, or had begun none.
LEMMA InterruptBreaks ==
    ASSUME PrepInv, NEW s \in Starters, Interrupt(s)
    PROVE  Favorites!Break \/ Favorites!GiveUp \/ UNCHANGED Favorites!fileVars
<1> USE DEF PrepInv, TypeOK
<1>1. /\ pc' = [pc EXCEPT ![s] = "failed"] /\ UNCHANGED <<file, listed, hasKey>>
      /\ \A t \in Starters : t # s => read'[t] = read[t] /\ pc'[t] = pc[t]
      /\ pc'[s] = "failed"
  BY DEF Interrupt, Go, fileVars
<1>2. CASE pc[s] \notin Writing
  BY <1>1, <1>2, FavoritesFrame DEF Writing
<1>3. CASE pc[s] \in Writing
  <2>1. \A t \in Starters : pc'[t] \notin Writing
    BY <1>1, <1>3, OthersWait DEF Writing
  <2>2. ReadBefore' = {}
    BY <2>1, NobodyWritesNext
  <2>3. Broken' = (file = "torn")
    BY <1>1, <2>1, NobodyWritesNext
  <2>4. Broken = FALSE
    BY <1>3, WritersMend
  <2>5. CASE file = "torn"
    BY <1>1, <2>2, <2>3, <2>4, <2>5 DEF Favorites!Break
  <2>6. CASE file # "torn"
    <3>1. Broken' = Broken
      BY <2>3, <2>4, <2>6
    <3> QED  BY <1>1, <2>2, <3>1 DEF Favorites!GiveUp, Favorites!fileVars
  <2> QED  BY <2>5, <2>6
<1> QED  BY <1>2, <1>3

\* A save is one of the abstract file's: a start that is to write goes on from what
\* was there before, or from what it already had.
LEMMA SaveIsSave ==
    ASSUME PrepInv, NEW chosen \in Choices, NEW key \in BOOLEAN, LabSaves(chosen, key)
    PROVE  Favorites!Save(chosen, key)
<1> USE DEF PrepInv, TypeOK
<1>1. /\ UNCHANGED <<pc, read>> /\ hasKey' = key
      /\ listed' = [p \in Paths |-> IF key /\ p \in chosen THEN 1 ELSE 0]
  BY DEF LabSaves
<1>2. Favorites!Written
  <2>1. ~tangled => file' # "torn"
    BY DEF LabSaves, WhenWritten
  <2>2. file' # "torn" => ~Broken'
    BY DEF Broken
  <2> QED  BY <2>1, <2>2 DEF Favorites!Written
<1>3. ReadBefore' \in {{}, {listed}, ReadBefore}
  <2>1. CASE \A t \in Starters : pc[t] \notin Writing
    BY <1>1, <2>1, NobodyWritesNext
  <2>2. ASSUME NEW s \in Starters, pc[s] \in Writing PROVE ReadBefore' \in {{}, {listed}, ReadBefore}
    <3>1. \A t \in Starters : t # s => pc[t] \notin Writing
      BY <2>2, OthersWait DEF Writing
    <3>2. ReadBefore' \in {{}, {read[s]}}
      BY <1>1, <2>2, <3>1 DEF ReadBefore, Holding, Writing
    <3>3. read[s] = listed \/ ReadBefore = {read[s]}
      BY <2>2, <3>1, OneWrites
    <3> QED  BY <3>2, <3>3
  <2> QED  BY <2>1, <2>2
<1> QED  BY <1>1, <1>2, <1>3 DEF Favorites!Save

\* JupyterLab's opening the file breaks it, but not for a start that is to write it.
LEMMA OpeningBreaks ==
    ASSUME PrepInv, LabOpens
    PROVE  Favorites!Break \/ UNCHANGED Favorites!fileVars
<1> USE DEF PrepInv, TypeOK
<1>1. UNCHANGED <<pc, read, listed, hasKey>> /\ file' = "torn"
  BY DEF LabOpens
<1>2. ReadBefore' = ReadBefore
  BY <1>1 DEF ReadBefore, Holding
<1>3. CASE \A t \in Starters : pc[t] \notin Writing
  <2>1. ReadBefore' = {} /\ Broken' = TRUE /\ Broken = (file = "torn")
    BY <1>1, <1>3, NobodyWrites, NobodyWritesNext
  <2>2. CASE file = "torn"
    BY <1>1, <1>2, <2>1, <2>2 DEF Favorites!fileVars
  <2>3. CASE file # "torn"
    BY <1>1, <2>1, <2>3 DEF Favorites!Break
  <2> QED  BY <2>2, <2>3
<1>4. ASSUME NEW s \in Starters, pc[s] \in Writing PROVE UNCHANGED Favorites!fileVars
  <2>1. Broken = FALSE /\ Broken' = FALSE
    BY <1>1, <1>4, WritersMend
  <2> QED  BY <1>1, <1>2, <2>1 DEF Favorites!fileVars
<1> QED  BY <1>3, <1>4

\* The initial states are the abstract file's.
LEMMA InitFavorites == ASSUME Init PROVE Favorites!FavoritesInit
<1>1. ReadBefore = {} /\ ~Broken
  BY DEF Init, ReadBefore, Broken, Holding
<1>2. Broken = FALSE
  BY <1>1 DEF Broken
<1> QED  BY <1>1, <1>2 DEF Init, Nothing, Favorites!FavoritesInit

\* What the steps are to the abstract file.
OnAbstractFile ==
    \/ UNCHANGED Favorites!fileVars
    \/ Favorites!Update \/ Favorites!LostSave \/ Favorites!Break \/ Favorites!GiveUp
    \/ \E chosen \in SUBSET Paths, key \in BOOLEAN : Favorites!Save(chosen, key)

\* Every step is one of the abstract file's, or changes nothing of it.
LEMMA FavoritesStep ==
    ASSUME PrepInv, [Next]_vars
    PROVE  Favorites!FavoritesNext
<1>1. DiskType /\ BooleanType
  BY TypeParts DEF PrepInv
<1>2. ASSUME NEW s \in Starters, Begin(s) \/ OnDisk(s) \/ OnFile(s) \/ Interrupt(s)
      PROVE  OnAbstractFile
  <2>1. CASE Begin(s) \/ OnDisk(s) \/ LockFavorites(s)
    BY <1>1, <2>1, DiskStepsStutter DEF OnAbstractFile
  <2>2. CASE ReadFavorites(s) \/ OpenFavorites(s)
    BY <2>2, ReadStutters, OpenStutters DEF OnAbstractFile
  <2>3. CASE WriteFavorites(s)
    BY <2>3, WriteIsUpdate DEF OnAbstractFile
  <2>4. CASE Interrupt(s)
    BY <2>4, InterruptBreaks DEF OnAbstractFile
  <2> QED  BY <1>2, <2>1, <2>2, <2>3, <2>4, Zenon DEF OnFile
<1>3. ASSUME LabOpens PROVE OnAbstractFile
  <2>1. Favorites!Break \/ UNCHANGED Favorites!fileVars
    BY <1>3, OpeningBreaks
  <2> QED  BY <2>1 DEF OnAbstractFile
<1>4. ASSUME NEW chosen \in Choices, NEW key \in BOOLEAN, LabSaves(chosen, key)
      PROVE  OnAbstractFile
  <2>1. Favorites!Save(chosen, key) /\ chosen \in SUBSET Paths
    BY <1>4, SaveIsSave, BoundsAssumption
  <2> QED  BY <2>1 DEF OnAbstractFile
<1>5. ASSUME NotebookStops \/ UNCHANGED vars PROVE OnAbstractFile
  <2>1. UNCHANGED <<pc, file, listed, hasKey, read>>
    BY <1>5 DEF NotebookStops, vars, fileVars
  <2>2. UNCHANGED Favorites!fileVars
    BY <2>1, FavoritesFrame
  <2> QED  BY <2>2 DEF OnAbstractFile
<1>6. ASSUME Saves PROVE OnAbstractFile
  BY <1>3, <1>4, <1>6 DEF Saves
<1>8. OnAbstractFile
  BY StepKinds, <1>2, <1>5, <1>6
<1>7. tangled' \in BOOLEAN
  BY <1>1, BooleanStep DEF BooleanType
<1> QED  BY <1>7, <1>8 DEF OnAbstractFile, Favorites!FavoritesNext

\* However starts overlap and wherever they are cut short, each updates the favorites
\* as if it read and wrote them at one moment; only a save can be lost to one.
THEOREM ImplementsAtomicFavorites == Spec => ImplementsFavoritesFile
<1>1. PrepInv /\ [Next]_vars => [Favorites!FavoritesNext]_(Favorites!favoritesVars)
  BY FavoritesStep
<1> QED  BY InitFavorites, <1>1, PreparationInvariant, PTL
         DEF Spec, ImplementsFavoritesFile, Favorites!FavoritesSpec

---------------------------------------------------------------------------
(* No start waits for one that cannot go on: what of StartEnds is a matter *)
(* of safety.                                                              *)

\* What the next step of a start needs, beyond being the next one.
CanGoOn(s) ==
    /\ pc[s] = "jupyter" => home
    /\ pc[s] = "lock" => lock = NoStarter

\* A start that cannot go on waits for the lock of another one, and that one can.
NoStartIsStuck ==
    \A s \in Starters : pc[s] \in Steps /\ ~CanGoOn(s)
        => \E t \in Starters : lock = t /\ pc[t] \in {"read", "open", "write"} /\ CanGoOn(t)

\* A start past its first step has a home directory: nothing removes one.
HomeIsThere == \A s \in Starters : pc[s] \in Steps \ {"home"} => home

\* Every step keeps it.
LEMMA HomeStep == ASSUME DiskType, HomeIsThere, [Next]_vars PROVE HomeIsThere'
<1> USE DEF HomeIsThere, DiskType, Go, At, Steps, Nobody
<1>1. ASSUME NEW s \in Starters, Begin(s) \/ Interrupt(s) PROVE HomeIsThere'
  BY <1>1 DEF Begin, Interrupt, diskVars
<1>2. ASSUME NEW s \in Starters, EnsureUserDirectory(s) PROVE HomeIsThere'
  BY <1>2 DEF EnsureUserDirectory
<1>3. ASSUME NEW s \in Starters, OnDisk(s) \/ OnFile(s), ~EnsureUserDirectory(s)
      PROVE  HomeIsThere'
  <2>1. UNCHANGED home /\ pc[s] \in Steps \ {"home"} /\ \A t \in Starters : t # s => pc'[t] = pc[t]
    BY <1>3 DEF OnDisk, OnFile, EnsureUserJupyterDirectory, ConfigureContainer, EnsureBashrc,
       CheckDotfile, OpenDotfile, CopyDotfile, EnsureVirtualEnvironment, MakeVirtualEnvironment, BuildVirtualEnvironment,
       LockFavorites, ReadFavorites, ReadRaises, OpenFavorites, WriteFavorites, diskVars
  <2> QED  BY <2>1
<1>4. CASE Saves \/ NotebookStops \/ UNCHANGED vars
  BY <1>4 DEF Saves, LabOpens, LabSaves, NotebookStops, vars, diskVars
<1> HIDE DEF HomeIsThere, DiskType, Go, At, Steps, Nobody
<1> QED  BY StepKinds, <1>1, <1>2, <1>3, <1>4, Zenon

\* The lock in _add_favorite_dir of both spawners: whoever waits for it waits
\* for a start that is about to read or write, and needs nothing more; a start that
\* failed or died holds it no longer.
THEOREM LockIsGivenBack == Spec => []NoStartIsStuck
<1>1. Init => HomeIsThere
  BY DEF Init, HomeIsThere, Steps
<1>2. PrepInv /\ HomeIsThere /\ [Next]_vars => HomeIsThere'
  BY HomeStep, TypeParts DEF PrepInv
<1>3. PrepInv /\ HomeIsThere => NoStartIsStuck
  <2> SUFFICES ASSUME PrepInv, HomeIsThere, NEW s \in Starters, pc[s] \in Steps, ~CanGoOn(s)
               PROVE  \E t \in Starters :
                         lock = t /\ pc[t] \in {"read", "open", "write"} /\ CanGoOn(t)
    BY DEF NoStartIsStuck
  <2>1. pc[s] = "lock" /\ lock # NoStarter
    BY DEF CanGoOn, HomeIsThere, Steps
  <2>2. lock \in Starters /\ pc[lock] \in {"read", "open", "write"}
    BY <2>1 DEF PrepInv, TypeOK, FileIsThere
  <2> QED  BY <2>2 DEF CanGoOn
<1> QED  BY <1>1, <1>2, <1>3, PreparationInvariant, PTL DEF Spec

\* How far a start is.
Progress ==
    [home |-> 1, bashrc |-> 2, openBashrc |-> 3, copyBashrc |-> 4, profile |-> 5,
     openProfile |-> 6, copyProfile |-> 7, jupyter |-> 8, venv |-> 9, mkdir |-> 10,
     build |-> 11, configure |-> 12, lock |-> 13, read |-> 14, open |-> 15, write |-> 16]

\* A start takes no step twice: whatever other starts, saves and mounts do, it stays
\* where it is, goes on to a later step, or ends.
NoStepTwice ==
    [][\A s \in Starters : pc[s] \in Steps =>
          \/ pc'[s] = pc[s]
          \/ pc'[s] \in {"done", "failed"}
          \/ pc'[s] \in Steps /\ Progress[pc'[s]] > Progress[pc[s]]]_vars

\* start() of both spawners is a straight line: with LockIsGivenBack and a scheduler
\* that is fair to each start, every start ends.
THEOREM StartsGoForward == Spec => NoStepTwice
<1> DEFINE Forward == \A s \in Starters : pc[s] \in Steps =>
          \/ pc'[s] = pc[s]
          \/ pc'[s] \in {"done", "failed"}
          \/ pc'[s] \in Steps /\ Progress[pc'[s]] > Progress[pc[s]]
<1>1. PrepInv /\ [Next]_vars => [Forward]_vars
  <2> SUFFICES ASSUME PrepInv, [Next]_vars PROVE Forward
    OBVIOUS
  <2>1. DiskType
    BY TypeParts DEF PrepInv
  <2>2. ASSUME NEW t \in Starters, Begin(t) \/ Interrupt(t) PROVE Forward
    BY <2>1, <2>2 DEF Begin, Interrupt, Go, DiskType, Nobody, Steps
  <2>3. ASSUME NEW t \in Starters, EnsureBashrc(t) PROVE Forward
    BY <2>1, <2>3 DEF EnsureBashrc, CheckDotfile, OpenDotfile, CopyDotfile, At, Go, DiskType, Progress, Steps
  <2>4. ASSUME NEW t \in Starters, OnDisk(t), ~EnsureBashrc(t) PROVE Forward
    BY <2>1, <2>4 DEF OnDisk, EnsureUserDirectory, EnsureUserJupyterDirectory, ConfigureContainer,
       EnsureVirtualEnvironment, MakeVirtualEnvironment, BuildVirtualEnvironment, At, Go, DiskType, Progress, Steps
  <2>5. ASSUME NEW t \in Starters, OnFile(t) PROVE Forward
    BY <2>1, <2>5 DEF OnFile, LockFavorites, ReadFavorites, ReadRaises, OpenFavorites, WriteFavorites,
       At, Go, DiskType, Progress, Steps
  <2>6. CASE Saves \/ NotebookStops \/ UNCHANGED vars
    BY <2>6 DEF Saves, LabOpens, LabSaves, NotebookStops, vars
  <2> HIDE DEF Forward
  <2> QED  BY StepKinds, <2>2, <2>3, <2>4, <2>5, <2>6, Zenon
<1> QED  BY <1>1, PreparationInvariant, PTL DEF Spec, NoStepTwice

=============================================================================
