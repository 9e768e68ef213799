-------------------------- MODULE SpawnPreparation --------------------------
(***************************************************************************)
(* What start() does to a user's home directory before a container is      *)
(* asked for: CustomKubeSpawner.start and CustomDockerSpawner.start share  *)
(* these steps.  The home is on a shared volume: it outlives containers    *)
(* and Hubs, a Hub may die between any two steps, a Hub that is being      *)
(* replaced overlaps with its successor, and JupyterLab in a container     *)
(* that survived its Hub writes the favorites file too.                    *)
(***************************************************************************)
EXTENDS Naturals, FiniteSets

CONSTANTS
    Starters,       \* calls of start() for the user that may overlap
    NoStarter,      \* nobody holds the favorites lock
    Home, Shared,   \* the two favorites start() wants: user_dir, the group's
    Others,         \* directories users add to their favorites
    Choices,        \* bound: the sets of favorites that users choose to save
    MaxInterrupts,  \* bound: starts that are cut short
    MaxSaves        \* bound: times the user saves favorites in JupyterLab

Paths == {Home, Shared} \cup Others
Dotfiles == {".bashrc", ".bash_profile"}

ASSUME StarterAssumption == NoStarter \notin Starters
ASSUME PathAssumption == Home # Shared /\ Home \notin Others /\ Shared \notin Others
ASSUME BoundsAssumption ==
    MaxInterrupts \in Nat /\ MaxSaves \in Nat /\ Choices \subseteq SUBSET Paths

VARIABLES
    pc,           \* the step each start() is at
    home,         \* the home directory exists
    dotfile,      \* state of each shell start-up file
    venv,         \* state of the user's virtual environment directory
    file,         \* state of favorites.jupyterlab-settings
    listed,       \* how often each path is listed in it
    hasKey,       \* it has a "favorites" key
    lock,         \* who holds the file lock beside it
    saving,       \* JupyterLab has the file open for writing
    tangled,      \* so did JupyterLab and a start at a time, and one still has
    read,         \* what each start() has read from it
    notebook,     \* a container runs on this home
    interrupts,   \* starts cut short so far
    cut,          \* the steps at which they, and saves, were (history)
    saves,        \* times JupyterLab began to save the file
    wanted,       \* favorites the user had when saving last (history)
    overlapped    \* a save met a start between its read and its write (history)

diskVars == <<home, dotfile, venv>>
fileVars == <<file, listed, hasKey>>
labVars == <<saving, tangled>>
userVars == <<saves, wanted, overlapped>>
cutVars == <<interrupts, cut>>
vars == <<pc, home, dotfile, venv, file, listed, hasKey, lock,
          saving, tangled, read, notebook, interrupts, cut, saves, wanted, overlapped>>

\* "bashrc", "profile", "venv": is it missing?  "openBashrc", "openProfile", "mkdir":
\* it was.  "copyBashrc", "copyProfile", "build": copy2 or venv.create runs.
\* "write": the favorites file is open for writing, so empty on disk.
Steps == {"home", "bashrc", "openBashrc", "copyBashrc", "profile", "openProfile",
          "copyProfile", "jupyter", "venv", "mkdir", "build", "configure",
          "lock", "read", "open", "write"}
Nobody == {"idle", "done", "failed"}

TypeOK ==
    /\ pc \in [Starters -> Steps \cup Nobody]
    /\ home \in BOOLEAN
    /\ dotfile \in [Dotfiles -> {"absent", "torn", "whole"}]
    /\ venv \in {"absent", "torn", "whole"}
    /\ file \in {"absent", "torn", "whole"}
    /\ listed \in [Paths -> Nat]
    /\ hasKey \in BOOLEAN
    /\ lock \in Starters \cup {NoStarter}
    /\ saving \in BOOLEAN
    /\ tangled \in BOOLEAN
    /\ read \in [Starters -> [Paths -> Nat]]
    /\ notebook \in BOOLEAN
    /\ interrupts \in Nat
    /\ cut \subseteq Steps \cup {"save"}
    /\ saves \in Nat
    /\ wanted \subseteq Paths
    /\ overlapped \in BOOLEAN

Nothing == [p \in Paths |-> 0]

\* A user who has never had a server.
Init ==
    /\ pc = [s \in Starters |-> "idle"]
    /\ home = FALSE
    /\ dotfile = [f \in Dotfiles |-> "absent"]
    /\ venv = "absent"
    /\ file = "absent"
    /\ listed = Nothing
    /\ hasKey = TRUE
    /\ lock = NoStarter
    /\ saving = FALSE /\ tangled = FALSE
    /\ read = [s \in Starters |-> Nothing]
    /\ notebook = FALSE
    /\ interrupts = 0
    /\ cut = {}
    /\ saves = 0
    /\ wanted = {}
    /\ overlapped = FALSE

---------------------------------------------------------------------------
(* start(), step by step.                                                  *)

At(s, step) == pc[s] = step
Go(s, step) == pc' = [pc EXCEPT ![s] = step]
Quiet == UNCHANGED <<notebook, labVars, cutVars, userVars>>

\* What a start leaves that ends writing what others write too, or did.
Left(s, step) ==
    IF step \in cut \/ \E t \in Starters \ {s} : pc[t] = step
    THEN {"torn", "whole"} ELSE {"whole"}

\* The Hub starts no server for a user who has one, unless it died and does
\* not know.
Begin(s) ==
    /\ pc[s] \in Nobody
    /\ notebook => interrupts > 0
    /\ Go(s, "home")
    /\ UNCHANGED <<diskVars, fileVars, lock, read>> /\ Quiet

EnsureUserDirectory(s) ==
    /\ At(s, "home") /\ Go(s, "bashrc")
    /\ home' = TRUE
    /\ UNCHANGED <<dotfile, venv, fileVars, lock, read>> /\ Quiet

\* Mutant of CheckDotfile: an existing file is opened for writing and left so.
TruncateDotfile(s, f, here, opening, next) ==
    /\ At(s, here) /\ Go(s, next)
    /\ dotfile' = [dotfile EXCEPT ![f] = "torn"]
    /\ UNCHANGED <<home, venv, fileVars, lock, read>> /\ Quiet

\* A start-up file that exists, in whatever state, is left alone.
CheckDotfile(s, f, here, opening, next) ==
    /\ At(s, here)
    /\ Go(s, IF dotfile[f] = "absent" THEN opening ELSE next)
    /\ UNCHANGED <<diskVars, fileVars, lock, read>> /\ Quiet

\* copy2 truncates what another start may have copied since.
OpenDotfile(s, f, opening, copying) ==
    /\ At(s, opening) /\ Go(s, copying)
    /\ dotfile' = [dotfile EXCEPT ![f] = "torn"]
    /\ UNCHANGED <<home, venv, fileVars, lock, read>> /\ Quiet

CopyDotfile(s, f, copying, next) ==
    /\ At(s, copying) /\ Go(s, next)
    /\ \E state \in Left(s, copying) : dotfile' = [dotfile EXCEPT ![f] = state]
    /\ UNCHANGED <<home, venv, fileVars, lock, read>> /\ Quiet

EnsureBashrc(s) ==
    \/ CheckDotfile(s, ".bashrc", "bashrc", "openBashrc", "profile")
    \/ OpenDotfile(s, ".bashrc", "openBashrc", "copyBashrc")
    \/ CopyDotfile(s, ".bashrc", "copyBashrc", "profile")
    \/ CheckDotfile(s, ".bash_profile", "profile", "openProfile", "jupyter")
    \/ OpenDotfile(s, ".bash_profile", "openProfile", "copyProfile")
    \/ CopyDotfile(s, ".bash_profile", "copyProfile", "jupyter")

\* The Jupyter directories are made and the AI configuration is overwritten;
\* nothing of them decides a later step.
EnsureUserJupyterDirectory(s) ==
    /\ At(s, "jupyter") /\ home
    /\ Go(s, "venv")
    /\ UNCHANGED <<diskVars, fileVars, lock, read>> /\ Quiet

\* The directory itself says that the environment is there.
EnsureVirtualEnvironment(s) ==
    /\ At(s, "venv")
    /\ Go(s, IF venv = "absent" THEN "mkdir" ELSE "configure")
    /\ UNCHANGED <<diskVars, fileVars, lock, read>> /\ Quiet

\* mkdir takes a directory that another start has made since for its own, and
\* venv.create writes over what is in it.
MakeVirtualEnvironment(s) ==
    /\ At(s, "mkdir") /\ Go(s, "build")
    /\ venv' = "torn"
    /\ UNCHANGED <<home, dotfile, fileVars, lock, read>> /\ Quiet

\* Mutant of BuildVirtualEnvironment: an exception of venv.create is only logged.
BuildLogsFailure(s) ==
    /\ At(s, "build") /\ Go(s, "configure")
    /\ venv' \in {"torn", "whole"}
    /\ UNCHANGED <<home, dotfile, fileVars, lock, read>> /\ Quiet

BuildVirtualEnvironment(s) ==
    /\ At(s, "build") /\ Go(s, "configure")
    /\ venv' \in Left(s, "build")
    /\ UNCHANGED <<home, dotfile, fileVars, lock, read>> /\ Quiet

\* Environment, notebook directory and volumes: attributes of the Spawner.
ConfigureContainer(s) ==
    /\ At(s, "configure") /\ Go(s, "lock")
    /\ UNCHANGED <<diskVars, fileVars, lock, read>> /\ Quiet

\* Mutant of LockFavorites: the lock is not waited for.
LockIgnored(s) ==
    /\ At(s, "lock") /\ Go(s, "read")
    /\ lock' = s
    /\ UNCHANGED <<diskVars, fileVars, read>> /\ Quiet

LockFavorites(s) ==
    /\ At(s, "lock") /\ lock = NoStarter
    /\ lock' = s
    /\ Go(s, "read")
    /\ UNCHANGED <<diskVars, fileVars, read>> /\ Quiet

\* Mutant of Unlock: only a start that succeeds releases the lock.
UnlockOnSuccess(s) ==
    lock' = IF lock = s /\ pc'[s] = "done" THEN NoStarter ELSE lock

\* What the `with lock` block releases, however it is left.
Unlock(s) == lock' = IF lock = s THEN NoStarter ELSE lock

\* Mutant of Missing: the entries that exist are not looked at.
MissingAlways(counts) == {Home, Shared}

Missing(counts) == {p \in {Home, Shared} : counts[p] = 0}

\* json5 cannot load a torn file, and a missing entry cannot be appended where the
\* "favorites" key is absent.
Unreadable == file = "torn" \/ (file = "whole" /\ ~hasKey)

\* An exception on the way, also when a favorite is no directory: the shared volume
\* comes and goes as it likes.
ReadRaises(s) == Go(s, "failed") /\ Unlock(s) /\ UNCHANGED read

\* Mutant of ReadFavorites: the file is written anew, not extended.
ReadNothing(s) ==
    /\ At(s, "read")
    /\ \/ ReadRaises(s)
       \/ /\ ~Unreadable /\ Go(s, "open")
          /\ read' = [read EXCEPT ![s] = Nothing]
          /\ UNCHANGED lock
    /\ UNCHANGED <<diskVars, fileVars>> /\ Quiet

\* Mutant of ReadFavorites: a missing file counts as no list at all.
ReadNoList(s) ==
    /\ At(s, "read")
    /\ \/ ReadRaises(s)
       \/ /\ ~Unreadable /\ Go(s, "open")
          /\ read' = [read EXCEPT ![s] = IF file = "absent" THEN << >> ELSE listed]
          /\ UNCHANGED lock
    /\ UNCHANGED <<diskVars, fileVars>> /\ Quiet

\* A missing file counts as an empty list.  Nothing is written on the way.
ReadFavorites(s) ==
    /\ At(s, "read")
    /\ \/ ReadRaises(s)
       \/ /\ ~Unreadable /\ Go(s, "open")
          /\ read' = [read EXCEPT ![s] = IF file = "absent" THEN Nothing ELSE listed]
          /\ UNCHANGED lock
    /\ UNCHANGED <<diskVars, fileVars>> /\ Quiet

OpenFavorites(s) ==
    /\ At(s, "open") /\ Go(s, "write")
    /\ file' = "torn" /\ tangled' = saving
    /\ UNCHANGED <<diskVars, listed, hasKey, lock, read, saving>>
    /\ UNCHANGED <<notebook, cutVars, userVars>>

\* Where two have written from the beginning of the file, the end of the longer text
\* may be left behind the shorter.
WhenWritten == IF tangled THEN {"torn", "whole"} ELSE {"whole"}

\* What was read, with the missing entries appended; then the container starts.
WriteFavorites(s) ==
    /\ At(s, "write") /\ Go(s, "done")
    /\ file' \in WhenWritten /\ hasKey' = TRUE
    /\ listed' = [p \in Paths |->
          read[s][p] + IF p \in Missing(read[s]) THEN 1 ELSE 0]
    /\ Unlock(s)
    /\ tangled' = (tangled /\ saving)
    /\ notebook' = TRUE
    /\ read' = [read EXCEPT ![s] = Nothing]
    /\ UNCHANGED <<diskVars, saving, cutVars, userVars>>

\* start() raises (a full disk, venv.create, the governance service) or its Hub
\* dies; the operating system releases the lock of a dead process.
Interrupt(s) ==
    /\ pc[s] \in Steps /\ interrupts < MaxInterrupts
    /\ Go(s, "failed")
    /\ interrupts' = interrupts + 1
    /\ cut' = cut \cup {pc[s]}
    /\ Unlock(s)
    /\ tangled' = (tangled /\ (pc[s] = "write" => saving))
    /\ read' = [read EXCEPT ![s] = Nothing]
    /\ UNCHANGED <<diskVars, fileVars, saving, notebook, userVars>>

---------------------------------------------------------------------------
(* The user.                                                               *)

\* Starts that hold what they have read, to write it; those that have the file open.
Holding == {s \in Starters : pc[s] \in {"open", "write"}}
Open == {s \in Starters : pc[s] = "write"}

\* JupyterLab's server saves the settings without the lock, and opens the file for
\* writing before it writes.
LabOpens ==
    /\ notebook /\ ~saving /\ saves < MaxSaves
    /\ saving' = TRUE /\ saves' = saves + 1
    /\ file' = "torn" /\ tangled' = (Open # {})
    /\ overlapped' = (overlapped \/ Holding # {})
    /\ UNCHANGED <<pc, diskVars, listed, hasKey, lock, read, notebook, cutVars,
                   wanted>>

\* It writes the favorites, or, on "restore to defaults", settings without them.
LabSaves(chosen, key) ==
    /\ saving /\ saving' = FALSE
    /\ file' \in WhenWritten /\ hasKey' = key
    /\ listed' = [p \in Paths |-> IF key /\ p \in chosen THEN 1 ELSE 0]
    /\ wanted' = IF key THEN chosen ELSE {}
    /\ tangled' = (tangled /\ Open # {})
    /\ overlapped' = (overlapped \/ Holding # {})
    /\ UNCHANGED <<pc, diskVars, lock, read, notebook, cutVars, saves>>

\* The container stops, and JupyterLab's server with it, be it in the midst of a save.
NotebookStops ==
    /\ notebook /\ notebook' = FALSE
    /\ saving' = FALSE /\ cut' = IF saving THEN cut \cup {"save"} ELSE cut
    /\ tangled' = (tangled /\ Open # {})
    /\ UNCHANGED <<pc, diskVars, fileVars, lock, read, interrupts, userVars>>

---------------------------------------------------------------------------

StartStep(s) ==
    \/ EnsureUserDirectory(s) \/ EnsureBashrc(s) \/ EnsureUserJupyterDirectory(s)
    \/ EnsureVirtualEnvironment(s) \/ MakeVirtualEnvironment(s)
    \/ BuildVirtualEnvironment(s) \/ ConfigureContainer(s)
    \/ LockFavorites(s) \/ ReadFavorites(s) \/ OpenFavorites(s) \/ WriteFavorites(s)

Next ==
    \/ \E s \in Starters : Begin(s) \/ StartStep(s) \/ Interrupt(s)
    \/ LabOpens \/ \E chosen \in Choices, key \in BOOLEAN : LabSaves(chosen, key)
    \/ NotebookStops

Spec == Init /\ [][Next]_vars

\* A start() runs to its end once begun; the lock is polled, and a starter may
\* find it taken any number of times before it finds it free.
FairSpec == Spec /\ \A s \in Starters : SF_vars(StartStep(s))

---------------------------------------------------------------------------
(* Properties.                                                             *)

\* A server that starts has a complete virtual environment, unless an earlier
\* venv.create was cut short or another start() is still inside it.
IncompleteVenvNeedsInterrupt ==
    \A s \in Starters : pc[s] = "done" /\ venv # "whole"
        => "build" \in cut \/ \E t \in Starters : pc[t] = "build"

\* Likewise for the shell start-up files, which are never written again.
TornDotfileNeedsInterrupt ==
    \A f \in Dotfiles : dotfile[f] = "torn"
        => \/ {"copyBashrc", "copyProfile"} \cap cut # {}
           \/ \E s \in Starters : pc[s] \in {"copyBashrc", "copyProfile"}

\* "Create a file lock to prevent race conditions": a start() never reads another's
\* half-written file.  One that finds the favorites torn meets a save in JupyterLab,
\* which takes no lock, or comes after a start or a save that was cut short writing,
\* or after the two wrote at a time.
TornReadNeedsCause ==
    \A s \in Starters : pc[s] = "read" /\ file = "torn"
        => {"write", "save"} \cap cut # {} \/ saving \/ overlapped

\* The paths are all listed.
Has(counts, paths) == \A p \in paths : counts[p] > 0

\* What a user saved in JupyterLab is in the file, whole, or in the hands of a start
\* that has the file open to write it back, through any number of starts.  Two things
\* lose it: a save that meets a start between its read and its write, and a start, or
\* a save, that is cut short when it has emptied the file.
FavoritesKept ==
    wanted # {} /\ ~overlapped =>
        \/ file = "whole" /\ Has(listed, wanted)
        \/ \E s \in Open : Has(read[s], wanted)
        \/ file = "torn" /\ (saving \/ {"write", "save"} \cap cut # {})

\* "Ensure the user's home directory is always in the favorites": a start() that
\* finishes leaves a file that can be read, unless JupyterLab wrote into it too, with
\* both its favorites and no favorite twice.
StartListsHomeOnce ==
    [][\A s \in Starters : pc[s] # "done" /\ pc'[s] = "done"
          => /\ file' = "whole" \/ tangled
             /\ listed'[Home] = 1 /\ listed'[Shared] = 1
             /\ \A p \in Paths : listed'[p] <= 1]_vars

\* A file that is torn, which no start is to write anew.
Broken == file = "torn" /\ Holding = {}

\* What a start() that is about to write has read, where that is not what is there.
ReadBefore == {read[s] : s \in {t \in Holding : read[t] # listed \/ ~hasKey}}

\* The three steps in which a start() reads, opens and writes the favorites act as
\* one, whatever other starts do; only a save in JupyterLab can fall between them.
Favorites == INSTANCE FavoritesFile
    WITH entries <- listed, keyed <- hasKey, broken <- Broken, basis <- ReadBefore
ImplementsFavoritesFile == Favorites!FavoritesSpec

\* A start() that has begun ends: no start waits for ever on the lock of one that
\* failed or died.
StartEnds == \A s \in Starters : pc[s] = "home" ~> pc[s] \in Nobody

\* "Ensure the user's virtual environment exists. If it does not exist, it is
\* created": the environment of a server that starts is complete.  The code takes
\* the directory for the environment.
StartedServerHasVenv == \A s \in Starters : pc[s] = "done" => venv = "whole"
=============================================================================
