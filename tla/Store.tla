------------------------------- MODULE Store -------------------------------
(***************************************************************************)
(* The files of the sequencer (packages/sequencer/src/store.ts): the tree  *)
(* and the progress of the synchronisation, the notes, the withdrawals and *)
(* the users, each a JSON file that is written whole to a temporary name   *)
(* and then renamed.  The calls are synchronous, so nothing else of the    *)
(* process runs between their steps, but the process can end there: a     *)
(* temporary file is then left behind, perhaps with a part of the text.    *)
(* Other modules take a save as one assignment; that it is one is          *)
(* Implements, proved in module ChainSyncProofs.                           *)
(***************************************************************************)
CONSTANTS
    Path,        \* statePath, notesPath, withdrawalsPath, usersPath
    Value        \* what is saved

VARIABLES
    directory,   \* the data directory exists
    file,        \* by path: the text under it, if there is one
    temporary,   \* the temporary file being written; each save has a new name
    saving       \* the call of writeJson in progress, if there is one

vars == <<directory, file, temporary, saving>>

\* A text is the JSON of a value; it cannot be parsed unless it is complete.
Text(value, complete) == [of |-> value, complete |-> complete]

Init ==
    /\ directory = FALSE
    /\ file = [p \in Path |-> {}]
    /\ temporary = {} /\ saving = {}

\* init creates the directory.
CreateDirectory ==
    /\ saving = {}
    /\ directory' = TRUE
    /\ UNCHANGED <<file, temporary, saving>>

\* writeJson, of saveState, saveNotes, saveWithdrawals and saveUsers, creates
\* the directory if it was deleted meanwhile.
StartSave(p, v) ==
    /\ saving = {}
    /\ saving' = {[path |-> p, value |-> v]}
    /\ directory' = TRUE
    /\ temporary' = {}
    /\ UNCHANGED file

\* writeFileSync, in one or more parts
WritePart ==
    /\ \E call \in saving :
         /\ Text(call.value, TRUE) \notin temporary
         /\ \E complete \in BOOLEAN : temporary' = {Text(call.value, complete)}
    /\ UNCHANGED <<directory, file, saving>>

Written(call) == temporary = {Text(call.value, TRUE)}

\* renameSync, which replaces the file
Rename ==
    /\ \E call \in saving :
         Written(call) /\ file' = [file EXCEPT ![call.path] = temporary]
    /\ temporary' = {} /\ saving' = {}
    /\ UNCHANGED directory

\* The process ends, or writeFileSync throws: no later step of the call runs.
Interrupt ==
    /\ saving' = {}
    /\ UNCHANGED <<directory, file, temporary>>

Next ==
    \/ CreateDirectory \/ WritePart \/ Rename \/ Interrupt
    \/ \E p \in Path, v \in Value : StartSave(p, v)

Spec == Init /\ [][Next]_vars

-----------------------------------------------------------------------------
\* readJson: the value, or null if there is no file or it cannot be parsed
Read(p) == {t.of : t \in {u \in file[p] : u.complete}}

\* What the callers count on: a cell for each path, which a save sets at once
\* to the value or, when the process ends in it, not at all.
Cells == INSTANCE Cells WITH cell <- [p \in Path |-> Read(p)]

Implements == Cells!Spec

\* No path ever holds a text that readJson takes for missing: after a crash
\* the sequencer does not start afresh from state it had saved.
NeverTorn == \A p \in Path : file[p] # {} => Read(p) # {}
=============================================================================
