---------------------------- MODULE Provisioning ----------------------------
(***************************************************************************)
(* How containers of one account come and go: CreateContainer and          *)
(* CreateContainerWithPort, RemoveContainer with its folder, the deletion  *)
(* of the account (by its user or an administrator) and the change of its  *)
(* plan, over the rows, the Docker daemon and the folders on disk.         *)
(*                                                                         *)
(* A create is a sequence of steps with a context of two minutes: when the *)
(* context ends, the step under way fails, and so do the calls that should *)
(* undo the earlier ones, because they are given the same context.  A call *)
(* that reports an error may have taken effect all the same.               *)
(***************************************************************************)
EXTENDS Naturals, FiniteSets

CONSTANTS Workers,      \* create requests under way at one time
          Containers,   \* bound: containers that Docker creates
          Folders,      \* project.Name/project.ID; the client may choose the ID
          Limits,       \* max_containers of the plans
          MaxLimit,     \* the largest of them
          None,
          MaxFaults,    \* bound on failing calls
          MaxCrashes    \* bound on crashes of the server

ASSUME ProvisioningAssumption ==
    /\ IsFiniteSet(Workers)
    /\ IsFiniteSet(Containers)
    /\ MaxLimit \in Nat
    /\ Limits \subseteq 1..MaxLimit
    /\ None \notin Containers \cup Folders
    /\ {MaxFaults, MaxCrashes} \subseteq Nat

VARIABLES job,       \* job[w]: where a create request is, and its locals
          user,      \* the account exists
          limit,     \* max_containers of its plan
          rows,      \* containers with a committed row
          machine,   \* Docker: "unborn", "created", "running", "exited" or "gone"
          home,      \* home[c]: the folder mounted into c
          folders,   \* folders that exist
          removing,  \* removing[c]: the RemoveContainer that has deleted c's row
          excused,   \* history: containers that were left behind (see below)
          kept,      \* history: folders that were left behind
          unsure,    \* history: rows whose COMMIT was reported as failed to a
                     \* create that then undid the rest
          faults, crashes

history == <<excused, kept, unsure>>
vars == <<job, user, limit, rows, machine, home, folders, removing, history,
          faults, crashes>>

PCs == {"idle", "count", "pull", "create", "start", "insert", "commit",
        "undoContainer", "undoFolder"}
\* pcs from os.MkdirAll on
WithFolder == {"create", "start", "insert", "commit", "undoContainer", "undoFolder"}
Kinds == {"plain", "port"}
MachineStates == {"unborn", "created", "running", "exited", "gone"}
Removals == {"no", "keepFolder", "dropFolder", "folder"}
Job == [pc : PCs, kind : Kinds, con : Containers \cup {None},
        folder : Folders \cup {None}, live : BOOLEAN]

\* pcs after the plan's limit was checked and before the outcome is known
Admitted == {"pull", "create", "start", "insert", "commit"}

TypeOK ==
    /\ job \in [Workers -> Job]
    /\ user \in BOOLEAN
    /\ limit \in Limits
    /\ rows \subseteq Containers
    /\ machine \in [Containers -> MachineStates]
    /\ home \in [Containers -> Folders \cup {None}]
    /\ folders \subseteq Folders
    /\ removing \in [Containers -> Removals]
    /\ excused \subseteq Containers
    /\ kept \subseteq Folders
    /\ unsure \subseteq Containers
    /\ faults \in Nat
    /\ crashes \in Nat

NoJob == [pc |-> "idle", kind |-> "plain", con |-> None, folder |-> None,
          live |-> TRUE]

Init ==
    /\ job = [w \in Workers |-> NoJob]
    /\ user = TRUE
    /\ limit \in Limits
    /\ rows = {}
    /\ machine = [c \in Containers |-> "unborn"]
    /\ home = [c \in Containers |-> None]
    /\ folders = {}
    /\ removing = [c \in Containers |-> "no"]
    /\ excused = {}
    /\ kept = {}
    /\ unsure = {}
    /\ faults = 0
    /\ crashes = 0

-----------------------------------------------------------------------------
(***************************************************************************)
(* excused and kept hold the containers and the folders that are left      *)
(* behind:                                                                 *)
(*   - CreateContainerWithPort fails after the start: it cleans up nothing;*)
(*   - the call that should remove the container or the folder fails, for  *)
(*     instance because the context has ended;                             *)
(*   - Docker creates a container although ContainerCreate reports an      *)
(*     error: its id is not known;                                         *)
(*   - the commit of a removal takes effect although it reports an error;  *)
(*   - a removal is asked to keep the folder;                              *)
(*   - the server crashes before a create has committed or while a removal *)
(*     cleans up;                                                          *)
(*   - the account is deleted: only its rows are.                          *)
(* A folder that is deleted is no longer kept.                             *)
(***************************************************************************)
Excuse(cs) == excused' = excused \cup cs
Keep(fs) == kept' = kept \cup fs
DeleteFolder(f) == folders' = folders \ {f} /\ kept' = kept \ {f}

At(w, pc) == job[w].pc = pc
Goto(w, pc) == job' = [job EXCEPT ![w].pc = pc]
Return(w) == job' = [job EXCEPT ![w] = NoJob]
Fault == faults < MaxFaults /\ faults' = faults + 1

\* The handler of POST /containers/create calls one of the two methods.
BeginCreate(w, kind, f) ==
    /\ At(w, "idle")
    /\ job' = [job EXCEPT ![w] = [pc |-> "count", kind |-> kind, con |-> None,
                                  folder |-> f, live |-> TRUE]]
    /\ UNCHANGED <<user, limit, rows, machine, home, folders, removing,
                   history, faults, crashes>>

\* Mutant: the last container of the plan is given twice.
HasRoomOffByOne == Cardinality(rows) <= limit

\* The rows and the plan are read in the transaction, which locks neither.
HasRoom == Cardinality(rows) < limit

CheckPlan(w) ==
    /\ At(w, "count") /\ job[w].live
    /\ IF user /\ HasRoom THEN Goto(w, "pull") ELSE Return(w)
    /\ UNCHANGED <<user, limit, rows, machine, home, folders, removing,
                   history, faults, crashes>>

\* pullImageIfNeeded, then os.MkdirAll, which accepts a folder that exists.
Prepare(w) ==
    /\ At(w, "pull") /\ job[w].live
    /\ folders' = folders \cup {job[w].folder}
    /\ Goto(w, "create")
    /\ UNCHANGED <<user, limit, rows, machine, home, removing, history,
                   faults, crashes>>

ContainerCreate(w, c) ==
    /\ At(w, "create") /\ job[w].live
    /\ machine[c] = "unborn"
    /\ machine' = [machine EXCEPT ![c] = "created"]
    /\ home' = [home EXCEPT ![c] = job[w].folder]
    /\ job' = [job EXCEPT ![w].pc = "start", ![w].con = c]
    /\ UNCHANGED <<user, limit, rows, folders, removing, history, faults,
                   crashes>>

\* ContainerStart and installPackages, whose failure is only logged.
ContainerStart(w) ==
    /\ At(w, "start") /\ job[w].live
    /\ machine' = [machine EXCEPT ![job[w].con] = "running"]
    /\ Goto(w, "insert")
    /\ UNCHANGED <<user, limit, rows, home, folders, removing, history,
                   faults, crashes>>

\* The INSERT; the foreign key needs the account.  (CreateContainerWithPort
\* inspects the container first, which fails in the same way.)
InsertRow(w) ==
    /\ At(w, "insert") /\ job[w].live
    /\ user
    /\ Goto(w, "commit")
    /\ UNCHANGED <<user, limit, rows, machine, home, folders, removing,
                   history, faults, crashes>>

\* Mutant: the deferred cleanup runs after a successful commit too.
CommitThenUndo(w) ==
    /\ At(w, "commit") /\ job[w].live
    /\ rows' = rows \cup {job[w].con}
    /\ Goto(w, "undoContainer")
    /\ UNCHANGED <<user, limit, machine, home, folders, removing, history,
                   faults, crashes>>

Commit(w) ==
    /\ At(w, "commit") /\ job[w].live
    /\ rows' = rows \cup {job[w].con}
    /\ Return(w)
    /\ UNCHANGED <<user, limit, machine, home, folders, removing, history,
                   faults, crashes>>

-----------------------------------------------------------------------------
\* Failures of a create.

\* The request's context ends: its two minutes are over or the client is gone.
ContextEnds(w) ==
    /\ job[w].pc # "idle" /\ job[w].live
    /\ job' = [job EXCEPT ![w].live = FALSE]
    /\ UNCHANGED <<user, limit, rows, machine, home, folders, removing,
                   history, faults, crashes>>

\* A call fails because the context has ended, because the account is gone, or
\* by itself.
CallFails(w) ==
    \/ ~job[w].live /\ UNCHANGED faults
    \/ job[w].live /\ Fault
    \/ At(w, "insert") /\ job[w].live /\ ~user /\ UNCHANGED faults

\* Mutant: only a failed start removes the container.
AfterFailureStartOnly(kind, pc) ==
    CASE pc \in {"count", "pull"} -> "idle"
      [] pc = "create" -> "undoFolder"
      [] pc = "start" -> "undoContainer"
      [] pc \in {"insert", "commit"} -> "idle"

\* Mutant: a failed ContainerCreate leaves the folder.
AfterFailureNoFolder(kind, pc) ==
    CASE pc \in {"count", "pull", "create"} -> "idle"
      [] pc = "start" -> "undoContainer"
      [] pc \in {"insert", "commit"} ->
            IF kind = "plain" THEN "undoContainer" ELSE "idle"

\* Where the error path goes on: the deferred functions of CreateContainer, the
\* explicit cleanup of CreateContainerWithPort.
AfterFailure(kind, pc) ==
    CASE pc \in {"count", "pull"} -> "idle"
      [] pc = "create" -> "undoFolder"
      [] pc = "start" -> "undoContainer"
      [] pc \in {"insert", "commit"} ->
            IF kind = "plain" THEN "undoContainer" ELSE "idle"

TakeErrorPath(w) ==
    LET next == AfterFailure(job[w].kind, job[w].pc) IN
    IF next = "idle" THEN Return(w) ELSE Goto(w, next)

\* A step fails without an effect; CreateContainerWithPort cleans up nothing
\* once the container runs.
CreateFails(w) ==
    LET left == job[w].kind = "port" /\ job[w].pc \in {"insert", "commit"} IN
    /\ job[w].pc \in {"count"} \cup Admitted
    /\ CallFails(w)
    /\ TakeErrorPath(w)
    /\ Excuse(IF left THEN {job[w].con} ELSE {})
    /\ Keep(IF left THEN {job[w].folder} ELSE {})
    /\ UNCHANGED <<user, limit, rows, machine, home, folders, removing, unsure,
                   crashes>>

\* Docker creates the container, but the answer does not arrive.
LateCreate(w, c) ==
    /\ At(w, "create")
    /\ CallFails(w)
    /\ machine[c] = "unborn"
    /\ machine' = [machine EXCEPT ![c] = "created"]
    /\ home' = [home EXCEPT ![c] = job[w].folder]
    /\ Excuse({c})
    /\ TakeErrorPath(w)
    /\ UNCHANGED <<user, limit, rows, folders, removing, kept, unsure, crashes>>

\* So it is with the start of the container.
LateStart(w) ==
    /\ At(w, "start")
    /\ CallFails(w)
    /\ machine' = [machine EXCEPT ![job[w].con] = "running"]
    /\ TakeErrorPath(w)
    /\ UNCHANGED <<user, limit, rows, home, folders, removing, history,
                   crashes>>

\* PostgreSQL commits the row, but tx.Commit returns an error.  CreateContainer
\* then removes the container and the folder of a row that stays;
\* CreateContainerWithPort leaves all three.
LateCommit(w) ==
    /\ At(w, "commit")
    /\ CallFails(w)
    /\ rows' = rows \cup {job[w].con}
    /\ unsure' = IF job[w].kind = "plain" THEN unsure \cup {job[w].con} ELSE unsure
    /\ TakeErrorPath(w)
    /\ UNCHANGED <<user, limit, machine, home, folders, removing, excused, kept,
                   crashes>>

\* ContainerStop and ContainerRemove with the request's context; their errors
\* are ignored.
UndoContainer(w) ==
    LET c == job[w].con IN
    /\ At(w, "undoContainer")
    /\ \/ job[w].live /\ machine' = [machine EXCEPT ![c] = "gone"]
          /\ UNCHANGED <<excused, faults>>
       \/ CallFails(w) /\ Excuse({c}) /\ UNCHANGED machine
    /\ Goto(w, "undoFolder")
    /\ UNCHANGED <<user, limit, rows, home, folders, removing, kept, unsure,
                   crashes>>

\* os.RemoveAll(folderPath), whatever else lies in the folder; its error is
\* ignored.
UndoFolder(w) ==
    LET f == job[w].folder IN
    /\ At(w, "undoFolder")
    /\ \/ DeleteFolder(f) /\ UNCHANGED faults
       \/ Fault /\ Keep({f}) /\ UNCHANGED folders
    /\ Return(w)
    /\ UNCHANGED <<user, limit, rows, machine, home, removing, excused, unsure,
                   crashes>>

-----------------------------------------------------------------------------
\* The rest of the account's life.

\* The process of a container ends by itself, whether or not its row has been
\* committed.  (Who starts it again is ContainerManager's and
\* RecoveryService's matter.)
ContainerExits(c) ==
    /\ machine[c] = "running"
    /\ machine' = [machine EXCEPT ![c] = "exited"]
    /\ UNCHANGED <<job, user, limit, rows, home, folders, removing, history,
                   faults, crashes>>

\* RemoveContainer up to its commit; drop is the remove_folder parameter.
RemoveRow(c, drop) ==
    /\ c \in rows
    /\ rows' = rows \ {c}
    /\ removing' = [removing EXCEPT ![c] = IF drop THEN "dropFolder"
                                                    ELSE "keepFolder"]
    /\ UNCHANGED <<job, user, limit, machine, home, folders, history, faults,
                   crashes>>

\* The commit takes effect but reports an error: RemoveContainer returns it and
\* cleans up nothing.
LateRemoveRow(c) ==
    /\ c \in rows
    /\ Fault
    /\ rows' = rows \ {c}
    /\ Excuse({c})
    /\ Keep({home[c]})
    /\ UNCHANGED <<job, user, limit, machine, home, folders, removing, unsure,
                   crashes>>

\* RemoveContainer after its commit: the container; an error is logged.
RemoveMachine(c) ==
    /\ removing[c] \in {"keepFolder", "dropFolder"}
    /\ \/ machine' = [machine EXCEPT ![c] = "gone"] /\ UNCHANGED <<excused, faults>>
       \/ Fault /\ Excuse({c}) /\ UNCHANGED machine
    /\ IF removing[c] = "keepFolder"
       THEN /\ removing' = [removing EXCEPT ![c] = "no"]
            /\ Keep({home[c]})
       ELSE /\ removing' = [removing EXCEPT ![c] = "folder"]
            /\ UNCHANGED kept
    /\ UNCHANGED <<job, user, limit, rows, home, folders, unsure, crashes>>

\* Then the folder, if it is asked for; an error is logged.
RemoveFolder(c) ==
    /\ removing[c] = "folder"
    /\ \/ DeleteFolder(home[c]) /\ UNCHANGED faults
       \/ Fault /\ Keep({home[c]}) /\ UNCHANGED folders
    /\ removing' = [removing EXCEPT ![c] = "no"]
    /\ UNCHANGED <<job, user, limit, rows, machine, home, excused, unsure,
                   crashes>>

\* DeleteUserByID in a transaction, or the administrator's DELETE, which
\* cascades.  A create between its INSERT and its commit holds the account's row
\* (foreign key), so the deletion waits for it.
DeleteUser ==
    /\ user
    /\ \A w \in Workers : ~At(w, "commit")
    /\ user' = FALSE
    /\ rows' = {}
    /\ Excuse(rows)
    /\ Keep({home[c] : c \in rows})
    /\ UNCHANGED <<job, limit, machine, home, folders, removing, unsure, faults,
                   crashes>>

\* The administrator changes the plan; nothing looks at the rows there are.
UpdateUserPlan(l) ==
    /\ user
    /\ limit' = l
    /\ UNCHANGED <<job, user, rows, machine, home, folders, removing, history,
                   faults, crashes>>

ServerCrash ==
    LET interrupted == {w \in Workers : job[w].pc \in WithFolder}
        removed == {c \in Containers : removing[c] # "no"} IN
    /\ crashes < MaxCrashes
    /\ crashes' = crashes + 1
    /\ Excuse(removed \cup ({job[w].con : w \in interrupted} \ {None}))
    /\ Keep({job[w].folder : w \in interrupted} \cup {home[c] : c \in removed})
    /\ job' = [w \in Workers |-> NoJob]
    /\ removing' = [c \in Containers |-> "no"]
    /\ UNCHANGED <<user, limit, rows, machine, home, folders, unsure, faults>>

-----------------------------------------------------------------------------
WorkerStep(w) ==
    \/ CheckPlan(w)
    \/ Prepare(w)
    \/ \E c \in Containers : ContainerCreate(w, c)
    \/ ContainerStart(w)
    \/ InsertRow(w)
    \/ Commit(w)
    \/ CreateFails(w)
    \/ \E c \in Containers : LateCreate(w, c)
    \/ LateStart(w)
    \/ LateCommit(w)
    \/ UndoContainer(w)
    \/ UndoFolder(w)
    \/ ContextEnds(w)

Next ==
    \/ \E w \in Workers, kind \in Kinds, f \in Folders : BeginCreate(w, kind, f)
    \/ \E w \in Workers : WorkerStep(w)
    \/ \E c \in Containers, drop \in BOOLEAN : RemoveRow(c, drop)
    \/ \E c \in Containers : \/ ContainerExits(c)
                             \/ LateRemoveRow(c)
                             \/ RemoveMachine(c)
                             \/ RemoveFolder(c)
    \/ DeleteUser
    \/ \E l \in Limits : UpdateUserPlan(l)
    \/ ServerCrash

Spec == Init /\ [][Next]_vars

-----------------------------------------------------------------------------
\* Properties.

(***************************************************************************)
(* QuotaOvershoot: creates that run at the same time can all pass the      *)
(* check of CreateContainer before one of them commits its row, so the     *)
(* plan's max_containers is not a bound; but each of them adds at most one *)
(* row, whatever the plan becomes meanwhile.  With one create at a time    *)
(* the limit of the largest plan holds.                                    *)
(***************************************************************************)
QuotaOvershoot ==
    Cardinality(rows) + Cardinality({w \in Workers : job[w].pc \in Admitted})
        < MaxLimit + Cardinality(Workers)

(***************************************************************************)
(* NoOrphan: a container that Docker keeps has a row, or the create or the *)
(* removal that will see to it is still under way, or it was left behind   *)
(* for one of the reasons of excused.  In particular the deferred cleanup  *)
(* of CreateContainer misses no error path while its context lasts.        *)
(***************************************************************************)
NoOrphan ==
    \A c \in Containers :
        machine[c] \in {"created", "running", "exited"} =>
            \/ c \in rows \cup excused
            \/ removing[c] # "no"
            \/ \E w \in Workers : job[w].con = c

(***************************************************************************)
(* RowIsReal: a committed row names a container that was started, still    *)
(* exists (though its process may have ended, before the commit even), and *)
(* that no create means to undo and no removal is about to delete.  The    *)
(* exception is the row whose COMMIT CreateContainer was told had failed.  *)
(***************************************************************************)
RowIsReal ==
    \A c \in rows \ unsure :
        /\ machine[c] \in {"running", "exited"}
        /\ removing[c] = "no"
        /\ \A w \in Workers : job[w].con # c

(***************************************************************************)
(* NoOrphanFolder: a folder on the disk is that of a container with a row, *)
(* or a create or a removal is under way that still has it, or it was left *)
(* for one of the reasons of kept.  So the removeFolderRollBack of the     *)
(* failing creates and the deferred os.RemoveAll together miss no error    *)
(* path, creates that name the same folder included.                       *)
(***************************************************************************)
NoOrphanFolder ==
    \A f \in folders \ kept :
        \/ \E c \in Containers : home[c] = f /\ (c \in rows \/ removing[c] # "no")
        \/ \E w \in Workers : job[w].folder = f /\ job[w].pc \in WithFolder
=============================================================================
