--------------------------- MODULE FavoritesFile ---------------------------
(***************************************************************************)
(* What the file lock beside favorites.jupyterlab-settings promises: the   *)
(* read, the appending and the write of a start() are one update of the    *)
(* file, whatever other starts do.  JupyterLab does not take the lock: an  *)
(* update may be based on what the user had before a save.                 *)
(***************************************************************************)
EXTENDS Naturals

CONSTANTS
    Paths,
    Home, Shared   \* the favorites a start() wants listed

VARIABLES
    entries,   \* how often each path is listed
    keyed,     \* the file has a "favorites" key, or is yet to be made
    broken,    \* the file was emptied, or written by two at a time, and nothing has
               \* replaced it since
    basis,     \* what a start() that is about to write read before a save:
               \* at most one value, none where the file still is what was read
    tangled    \* JupyterLab and a start() have it open, or had, and one still has

fileVars == <<entries, keyed, broken, basis>>
favoritesVars == <<entries, keyed, broken, basis, tangled>>

FavoritesInit ==
    /\ entries = [p \in Paths |-> 0]
    /\ keyed = TRUE
    /\ broken = FALSE
    /\ basis = {}
    /\ tangled = FALSE

\* Each wanted entry that is not there is appended.
Extended(counts) ==
    [p \in Paths |-> IF p \in {Home, Shared} /\ counts[p] = 0 THEN 1 ELSE counts[p]]

\* What is written can be read, unless two write at a time.
Written == broken' => tangled

\* A start() finds favorites it can read and leaves the same ones, extended.
Update ==
    /\ keyed /\ ~broken /\ basis = {}
    /\ entries' = Extended(entries)
    /\ Written
    /\ UNCHANGED <<keyed, basis>>

\* What a start() read before a save replaces what was saved.
LostSave ==
    /\ ~broken
    /\ \E old \in basis : entries' = Extended(old)
    /\ keyed' = TRUE /\ basis' = {}
    /\ Written

Save(chosen, key) ==
    /\ entries' = [p \in Paths |-> IF key /\ p \in chosen THEN 1 ELSE 0]
    /\ keyed' = key
    /\ Written
    /\ basis' \in {{}, {entries}, basis}

\* JupyterLab opens the file to write it, or a start() is cut short that has.
Break ==
    /\ ~broken /\ broken' = TRUE
    /\ basis' = {}
    /\ UNCHANGED <<entries, keyed>>

\* A start() is cut short before, or where a save has mended the file.
GiveUp ==
    /\ basis # {} /\ basis' = {}
    /\ UNCHANGED <<entries, keyed, broken>>

\* Who has the file open is for JupyterLab and the starts to say.
FavoritesNext ==
    /\ \/ UNCHANGED fileVars
       \/ Update \/ LostSave \/ Break \/ GiveUp
       \/ \E chosen \in SUBSET Paths, key \in BOOLEAN : Save(chosen, key)
    /\ tangled' \in BOOLEAN

FavoritesSpec == FavoritesInit /\ [][FavoritesNext]_favoritesVars
=============================================================================
