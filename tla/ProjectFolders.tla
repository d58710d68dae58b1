--------------------------- MODULE ProjectFolders ---------------------------
(***************************************************************************)
(* One native project of projects.db: update_project, add_folder and       *)
(* remove_folder of control_api/workspace.py.  The routes are plain        *)
(* functions that the API runs in its thread pool, and each helper opens a *)
(* connection of its own to the database, so that a request reads the row  *)
(* of the project, reads its folders and writes in three transactions,     *)
(* with those of other requests in between.                                *)
(***************************************************************************)
EXTENDS Naturals, FiniteSets

CONSTANTS
  Threads,    \* bound: requests at a time
  Folders     \* directories inside the approved roots

None == "none"
Ops == {"add", "remove", "primary", "archive", "unarchive"}

ASSUME FoldersAssumption == None \notin Folders

VARIABLES
  rows,      \* paths in project_folders
  flagged,   \* those of them with is_primary = 1
  primary,   \* projects.primary_path
  shelved,   \* projects.archived
  request,   \* the request each thread runs and what it has read
  crossed    \* history: a removal, or an addition to a project without
             \* folders, has run next to another request

projectVars == <<rows, flagged, primary, shelved>>
foldersVars == <<projectVars, request, crossed>>

Idle == [op |-> None, folder |-> None, step |-> "idle", primary |-> None, first |-> FALSE]

\* create_project takes the first folder when none is named.
CreatedWith(given) ==
  /\ rows = given
  /\ primary \in IF given = {} THEN {None} ELSE given
  /\ flagged = given \cap {primary}
  /\ shelved = FALSE
  /\ request = [r \in Threads |-> Idle]
  /\ crossed = FALSE

Busy == {r \in Threads : request[r].step # "idle"}

-----------------------------------------------------------------------------

\* _get_row.  Only a change of the folders goes on to read them.
ReadRow(r, op, folder) ==
  /\ request[r].step = "idle"
  /\ request' = [request EXCEPT ![r] =
       [op |-> op, folder |-> folder, primary |-> primary, first |-> FALSE,
        step |-> IF folder = None THEN "write" ELSE "row"]]
  /\ crossed' = \/ crossed
                \/ /\ Busy # {}
                   /\ rows = {} \/ "remove" \in {op} \union {request[b].op : b \in Busy}
  /\ UNCHANGED projectVars

\* Mutant: a removal only asks whether the folder is there.
RemovableIfThere(q) == q.folder \in rows

\* The checks of remove_folder.
Removable(q) ==
  /\ Cardinality(rows) > 1
  /\ q.folder # q.primary
  /\ q.folder \in rows

\* What is checked before the write.
Allowed(q) ==
  \/ q.op = "add"
  \/ q.op = "remove" /\ Removable(q)
  \/ q.op = "primary" /\ q.folder \in rows

\* _folder_rows, the checks, and the answer 400 or 404 when one fails.
ReadFolders(r) ==
  /\ request[r].step = "row"
  /\ request' = [request EXCEPT ![r] =
       IF Allowed(@) THEN [@ EXCEPT !.step = "write", !.primary = None, !.first = (rows = {})]
                     ELSE Idle]
  /\ UNCHANGED <<projectVars, crossed>>

Write(r, ops) ==
  /\ request[r].step = "write"
  /\ request[r].op \in ops
  /\ request' = [request EXCEPT ![r] = Idle]
  /\ UNCHANGED crossed

\* The first folder becomes the primary one; INSERT OR IGNORE keeps a row that
\* is already there.
AddRow(r) ==
  /\ Write(r, {"add"})
  /\ LET q == request[r]
     IN  /\ rows' = rows \cup {q.folder}
         /\ flagged' = IF q.first /\ q.folder \notin rows THEN flagged \cup {q.folder} ELSE flagged
         /\ primary' = IF q.first THEN q.folder ELSE primary
  /\ UNCHANGED shelved

RemoveRow(r) ==
  /\ Write(r, {"remove"})
  /\ rows' = rows \ {request[r].folder}
  /\ flagged' = flagged \ {request[r].folder}
  /\ UNCHANGED <<primary, shelved>>

\* Mutant: the flag of the new folder is set and the old one kept.
FlagAdded(folder) == flagged \cup {folder}

\* UPDATE project_folders SET is_primary = (path = ?).
FlagMoved(folder) == rows \cap {folder}

\* One transaction updates the project and the flags of its folders.
UpdatePrimary(r) ==
  /\ Write(r, {"primary"})
  /\ primary' = request[r].folder
  /\ flagged' = FlagMoved(request[r].folder)
  /\ UNCHANGED <<rows, shelved>>

UpdateArchived(r) ==
  /\ Write(r, {"archive", "unarchive"})
  /\ shelved' = (request[r].op = "archive")
  /\ UNCHANGED <<rows, flagged, primary>>

\* A request for one of the operations of ops, step by step.
FoldersStep(r, ops) ==
  \/ \E op \in ops \cap {"add", "remove", "primary"}, folder \in Folders : ReadRow(r, op, folder)
  \/ \E op \in ops \cap {"archive", "unarchive"} : ReadRow(r, op, None)
  \/ ReadFolders(r) \/ AddRow(r) \/ RemoveRow(r) \/ UpdatePrimary(r) \/ UpdateArchived(r)

-----------------------------------------------------------------------------

\* Every variable keeps its shape.
FoldersTypeOK ==
  /\ rows \subseteq Folders
  /\ flagged \subseteq rows
  /\ primary \in Folders \cup {None}
  /\ {shelved, crossed} \subseteq BOOLEAN
  /\ \A r \in Threads :
       /\ request[r].op \in Ops \cup {None}
       /\ request[r].step \in {"idle", "row", "write"}
       /\ request[r].first \in BOOLEAN

\* A project with folders has one of them as its primary folder, so that no
\* submission finds a project without a place to run, and the flag that the
\* listing sorts by is on that folder and no other.  Only a removal, or the first
\* addition, that runs next to another request may break it: remove_folder and
\* add_folder act on what they read two connections earlier.
PrimaryIsOne ==
  ~crossed =>
    /\ IF rows = {} THEN primary = None ELSE primary \in rows
    /\ flagged = rows \cap {primary}

\* No request takes the last folder of a project (remove_folder), unless it ran
\* next to another one.
RetainsAFolder == [][rows # {} /\ ~crossed' => rows' # {}]_foldersVars

=============================================================================
