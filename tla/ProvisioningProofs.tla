------------------------- MODULE ProvisioningProofs -------------------------
(***************************************************************************)
(* Proofs about Provisioning: no container without a row, no row without a *)
(* container, no folder that nobody has, and the overshoot of the plan,    *)
(* for any number of creates, containers, folders, failures and crashes.   *)
(***************************************************************************)
EXTENDS Provisioning, FiniteSetTheorems, TLAPS

\* Creates that have not made their container yet, and those that mean to
\* commit it.
Before == {"idle", "count", "pull", "create"}
Making == {"start", "insert", "commit"}
Kept == {"created", "running", "exited"}

\* A create and its container: which one it holds at which pc.
Shape(q) ==
    /\ q.pc # "idle" => q.folder \in Folders
    /\ q.pc \in Before => q.con = None
    /\ q.pc \in Making \cup {"undoContainer"} => q.con \in Containers

\* A container without a row, neither now nor earlier.
Untouched(c) == c \notin rows \cup unsure /\ removing[c] = "no"

\* How far Docker and the database are with a create's container.
Progress(q) ==
    /\ q.con # None => machine[q.con] # "unborn"
    /\ q.pc \in {"insert", "commit"} => machine[q.con] \in {"running", "exited"}
    /\ q.pc \in Making => Untouched(q.con)
    /\ q.pc = "undoFolder" /\ q.con # None =>
          q.con \in excused \/ machine[q.con] = "gone"

TypeInv == TypeOK /\ \A w \in Workers : Shape(job[w])
JobInv == \A w \in Workers : Progress(job[w])

\* No two creates hold the same container.
DistinctInv ==
    \A v, w \in Workers : job[v].con = job[w].con /\ job[v].con # None => v = w

\* A container that does not exist yet has left no trace; a removal begins with
\* the row and ends with the folder.
FreshInv == \A c \in Containers : machine[c] = "unborn" => Untouched(c)
RemovingInv ==
    \A c \in Containers :
        /\ removing[c] # "no" => c \notin rows
        /\ removing[c] = "folder" => c \in excused \/ machine[c] = "gone"

\* A container has a folder from its creation on: the one of its create.
HomeInv ==
    /\ \A c \in Containers : machine[c] = "unborn" <=> home[c] = None
    /\ \A w \in Workers : job[w].con # None => home[job[w].con] = job[w].folder

\* The inductive invariant.
ContainerInv ==
    JobInv /\ DistinctInv /\ FreshInv /\ RemovingInv /\ RowIsReal /\ NoOrphan
FolderInv == HomeInv /\ NoOrphanFolder
PInv == TypeInv /\ ContainerInv /\ FolderInv /\ QuotaOvershoot

-----------------------------------------------------------------------------
\* What a step of a create does to the jobs.

Effect(w, pc, con, folder) ==
    /\ job'[w].pc = pc /\ job'[w].con = con /\ job'[w].folder = folder
    /\ \A v \in Workers : v # w => job'[v] = job[v]

\* The job of one create becomes q, and q has the types of a job.
Becomes(w, q) == q \in Job /\ Shape(q) /\ job' = [job EXCEPT ![w] = q]

\* The idle job.
LEMMA Idle == /\ NoJob \in Job /\ NoJob.pc = "idle" /\ NoJob.con = None
              /\ NoJob.folder = None /\ Shape(NoJob)
BY DEF NoJob, Job, PCs, Kinds, Shape, Before, Making

\* The job ends.
LEMMA ReturnEffect ==
    ASSUME TypeInv, NEW w \in Workers, Return(w)
    PROVE  Effect(w, "idle", None, None) /\ Becomes(w, NoJob)
BY Idle DEF TypeInv, TypeOK, Return, Effect, Becomes

\* The job goes on.
LEMMA GotoEffect ==
    ASSUME TypeInv, NEW w \in Workers, NEW pc \in PCs \ {"idle"}, Goto(w, pc),
           job[w].pc # "idle",
           pc \in Before => job[w].pc \in Before,
           pc \in Making \cup {"undoContainer"} => job[w].pc \in Making \cup {"undoContainer"}
    PROVE  /\ Effect(w, pc, job[w].con, job[w].folder)
           /\ \E q : Becomes(w, q)
<1> DEFINE q == [job[w] EXCEPT !.pc = pc]
<1>1. job \in [Workers -> Job] /\ job[w] \in Job /\ Shape(job[w])
  BY DEF TypeInv, TypeOK
<1>2. job' = [job EXCEPT ![w] = q]
  BY <1>1 DEF Goto, Job
<1>3. q \in Job /\ q.pc = pc /\ q.con = job[w].con /\ q.folder = job[w].folder
  BY <1>1 DEF Job
<1>4. Shape(q)
  BY <1>1, <1>3 DEF Shape
<1>5. Becomes(w, q)
  BY <1>2, <1>3, <1>4 DEF Becomes
<1>6. QED
  BY <1>1, <1>2, <1>3, <1>5 DEF Effect

LEMMA BeginEffect ==
    ASSUME TypeInv, NEW w \in Workers, NEW kind \in Kinds, NEW f \in Folders,
           BeginCreate(w, kind, f)
    PROVE  Effect(w, "count", None, f) /\ \E q : Becomes(w, q)
<1> DEFINE q == [pc |-> "count", kind |-> kind, con |-> None, folder |-> f, live |-> TRUE]
<1>1. q \in Job /\ Shape(q)
  BY DEF Job, PCs, Shape, Before, Making
<1>2. job' = [job EXCEPT ![w] = q]
  BY DEF BeginCreate
<1>3. Becomes(w, q)
  BY <1>1, <1>2 DEF Becomes
<1>4. QED
  BY <1>2, <1>3 DEF TypeInv, TypeOK, Effect

LEMMA CreateEffect ==
    ASSUME TypeInv, NEW w \in Workers, NEW c \in Containers, ContainerCreate(w, c)
    PROVE  Effect(w, "start", c, job[w].folder) /\ \E q : Becomes(w, q)
<1> DEFINE q == [job[w] EXCEPT !.pc = "start", !.con = c]
<1>1. /\ job \in [Workers -> Job] /\ job[w] \in Job /\ Shape(job[w])
      /\ job[w].pc = "create" /\ "start" \in PCs
  BY DEF TypeInv, TypeOK, ContainerCreate, At, PCs
<1>2. job' = [job EXCEPT ![w] = q]
  BY <1>1 DEF ContainerCreate, Job
<1>3. q \in Job /\ q.pc = "start" /\ q.con = c /\ q.folder = job[w].folder
  BY <1>1 DEF Job
<1>4. Shape(q)
  BY <1>1, <1>3 DEF Shape, Before, Making
<1>5. Becomes(w, q)
  BY <1>2, <1>3, <1>4 DEF Becomes
<1>6. QED
  BY <1>1, <1>2, <1>3, <1>5 DEF Effect

LEMMA ContextEffect ==
    ASSUME TypeInv, NEW w \in Workers, ContextEnds(w)
    PROVE  Effect(w, job[w].pc, job[w].con, job[w].folder) /\ \E q : Becomes(w, q)
<1> DEFINE q == [job[w] EXCEPT !.live = FALSE]
<1>1. job \in [Workers -> Job] /\ job[w] \in Job /\ Shape(job[w])
  BY DEF TypeInv, TypeOK
<1>2. job' = [job EXCEPT ![w] = q]
  BY <1>1 DEF ContextEnds, Job
<1>3. q \in Job /\ q.pc = job[w].pc /\ q.con = job[w].con /\ q.folder = job[w].folder
  BY <1>1 DEF Job
<1>4. Shape(q)
  BY <1>1, <1>3 DEF Shape
<1>5. Becomes(w, q)
  BY <1>2, <1>3, <1>4 DEF Becomes
<1>6. QED
  BY <1>1, <1>2, <1>3, <1>5 DEF Effect

\* A create that fails has no container yet, leaves it to itself as the "port"
\* method does, or goes on to undo.
LEMMA ErrorEffect ==
    ASSUME TypeInv, NEW w \in Workers, job[w].pc \in {"count"} \cup Admitted,
           TakeErrorPath(w)
    PROVE  /\ \E q : Becomes(w, q)
           /\ \/ /\ Effect(w, "idle", None, None)
                 /\ \/ job[w].con = None /\ job[w].pc \in {"count", "pull"}
                    \/ job[w].kind = "port" /\ job[w].pc \in {"insert", "commit"}
              \/ /\ Effect(w, "undoFolder", job[w].con, job[w].folder)
                 /\ job[w].pc = "create" /\ job[w].con = None
              \/ /\ Effect(w, "undoContainer", job[w].con, job[w].folder)
                 /\ job[w].pc \in Making
                 /\ job[w].pc \in {"insert", "commit"} => job[w].kind = "plain"
<1> DEFINE next == AfterFailure(job[w].kind, job[w].pc)
<1>1. /\ next = "idle" => Return(w)
      /\ next # "idle" => Goto(w, next)
  BY DEF TakeErrorPath
<1>2. job[w] \in Job /\ Shape(job[w])
  BY DEF TypeInv, TypeOK
<1>3. CASE job[w].pc \in {"count", "pull"}
  <2>1. next = "idle" /\ job[w].con = None
    BY <1>2, <1>3 DEF AfterFailure, Shape, Before
  <2>2. QED
    BY <1>1, <1>3, <2>1, ReturnEffect
<1>4. CASE job[w].pc = "create"
  <2>1. next = "undoFolder" /\ job[w].con = None /\ "undoFolder" \in PCs
    BY <1>2, <1>4 DEF AfterFailure, Shape, Before, PCs
  <2>2. QED
    BY <1>1, <1>4, <2>1, GotoEffect DEF Before, Making
<1>5. CASE job[w].pc = "start"
  <2>1. next = "undoContainer" /\ "undoContainer" \in PCs
    BY <1>5 DEF AfterFailure, PCs
  <2>2. QED
    BY <1>1, <1>5, <2>1, GotoEffect DEF Before, Making
<1>6. CASE job[w].pc \in {"insert", "commit"} /\ job[w].kind = "plain"
  <2>1. next = "undoContainer" /\ "undoContainer" \in PCs
    BY <1>6 DEF AfterFailure, PCs
  <2>2. QED
    BY <1>1, <1>6, <2>1, GotoEffect DEF Before, Making
<1>7. CASE job[w].pc \in {"insert", "commit"} /\ job[w].kind = "port"
  <2>1. next = "idle"
    BY <1>7 DEF AfterFailure
  <2>2. QED
    BY <1>1, <1>7, <2>1, ReturnEffect
<1>8. QED
  BY <1>2, <1>3, <1>4, <1>5, <1>6, <1>7 DEF Admitted, Job, Kinds

-----------------------------------------------------------------------------
\* Types.

LEMMA TypeInit == Init => TypeInv
BY ProvisioningAssumption, Idle
   DEF Init, TypeInv, TypeOK, MachineStates, Removals

\* A step of one create keeps the types of the others.
LEMMA TypeStep ==
    ASSUME TypeInv, NEW w \in Workers, \E q : Becomes(w, q),
           limit' = limit, user' = user, rows' \subseteq Containers,
           machine' \in [Containers -> MachineStates],
           home' \in [Containers -> Folders \cup {None}],
           folders' \subseteq Folders, removing' = removing,
           excused' \subseteq Containers, kept' \subseteq Folders,
           unsure' \subseteq Containers, faults' \in Nat, crashes' = crashes
    PROVE  TypeInv'
<1>0. PICK q : q \in Job /\ Shape(q) /\ job' = [job EXCEPT ![w] = q]
  BY DEF Becomes
<1>1. TypeOK'
  BY <1>0 DEF TypeInv, TypeOK
<1>2. ASSUME NEW v \in Workers PROVE Shape(job'[v])
  BY <1>0 DEF TypeInv, TypeOK
<1>3. QED
  BY <1>1, <1>2 DEF TypeInv, Shape

\* A step of nobody's create.
LEMMA TypeOther ==
    ASSUME TypeInv, TypeOK', job' = job
    PROVE  TypeInv'
BY DEF TypeInv, Shape

\* A container with a row and one that is being removed have a folder.
LEMMA HasHome ==
    ASSUME TypeInv, FreshInv, HomeInv, NEW c \in Containers,
           c \in rows \/ removing[c] # "no"
    PROVE  home[c] \in Folders
BY DEF TypeInv, TypeOK, FreshInv, Untouched, HomeInv

LEMMA TypeNext == TypeInv /\ FreshInv /\ HomeInv /\ [Next]_vars => TypeInv'
<1> SUFFICES ASSUME TypeInv, FreshInv, HomeInv, [Next]_vars PROVE TypeInv'
  OBVIOUS
<1>1. ASSUME NEW w \in Workers, NEW kind \in Kinds, NEW f \in Folders,
             BeginCreate(w, kind, f)
      PROVE  TypeInv'
  BY <1>1, BeginEffect, TypeStep DEF BeginCreate, history, TypeInv, TypeOK
<1>2. ASSUME NEW w \in Workers, WorkerStep(w) PROVE TypeInv'
  <2>0. job[w] \in Job /\ Shape(job[w])
    BY DEF TypeInv, TypeOK
  <2>1. CASE CheckPlan(w)
    <3>1. job[w].pc = "count" /\ "pull" \in PCs
      BY <2>1 DEF CheckPlan, At, PCs
    <3>2. \E q : Becomes(w, q)
      BY <2>1, <3>1, ReturnEffect, GotoEffect DEF CheckPlan, Before, Making
    <3>3. QED
      BY <2>1, <3>2, TypeStep DEF CheckPlan, history, TypeInv, TypeOK
  <2>2. CASE Prepare(w)
    <3>1. job[w].pc = "pull" /\ "create" \in PCs
      BY <2>2 DEF Prepare, At, PCs
    <3>2. \E q : Becomes(w, q)
      BY <2>2, <3>1, GotoEffect DEF Prepare, Before, Making
    <3>3. folders' \subseteq Folders
      BY <2>0, <2>2, <3>1 DEF Prepare, Shape, TypeInv, TypeOK
    <3>4. QED
      BY <2>2, <3>2, <3>3, TypeStep DEF Prepare, history, TypeInv, TypeOK
  <2>3. ASSUME NEW c \in Containers, ContainerCreate(w, c) PROVE TypeInv'
    <3>1. home' \in [Containers -> Folders \cup {None}]
      BY <2>0, <2>3 DEF ContainerCreate, Job, TypeInv, TypeOK
    <3>2. machine' \in [Containers -> MachineStates]
      BY <2>3 DEF ContainerCreate, MachineStates, TypeInv, TypeOK
    <3>3. QED
      BY <2>3, <3>1, <3>2, CreateEffect, TypeStep
         DEF ContainerCreate, history, TypeInv, TypeOK
  <2>4. CASE ContainerStart(w)
    <3>1. job[w].pc = "start" /\ "insert" \in PCs
      BY <2>4 DEF ContainerStart, At, PCs
    <3>2. \E q : Becomes(w, q)
      BY <2>4, <3>1, GotoEffect DEF ContainerStart, Before, Making
    <3>3. machine' \in [Containers -> MachineStates]
      BY <2>4 DEF ContainerStart, MachineStates, TypeInv, TypeOK
    <3>4. QED
      BY <2>4, <3>2, <3>3, TypeStep DEF ContainerStart, history, TypeInv, TypeOK
  <2>5. CASE InsertRow(w)
    <3>1. job[w].pc = "insert" /\ "commit" \in PCs
      BY <2>5 DEF InsertRow, At, PCs
    <3>2. \E q : Becomes(w, q)
      BY <2>5, <3>1, GotoEffect DEF InsertRow, Before, Making
    <3>3. QED
      BY <2>5, <3>2, TypeStep DEF InsertRow, history, TypeInv, TypeOK
  <2>6. CASE Commit(w)
    <3>1. rows' \subseteq Containers
      BY <2>0, <2>6 DEF Commit, At, Shape, Making, TypeInv, TypeOK
    <3>2. QED
      BY <2>6, <3>1, ReturnEffect, TypeStep DEF Commit, history, TypeInv, TypeOK
  <2>7. CASE CreateFails(w)
    <3>1. \E q : Becomes(w, q)
      BY <2>7, ErrorEffect DEF CreateFails
    <3>2. excused' \subseteq Containers /\ kept' \subseteq Folders
      BY <2>0, <2>7 DEF CreateFails, Excuse, Keep, Shape, Making, TypeInv, TypeOK
    <3>3. faults' \in Nat
      BY <2>7 DEF CreateFails, CallFails, Fault, TypeInv, TypeOK
    <3>4. QED
      BY <2>7, <3>1, <3>2, <3>3, TypeStep DEF CreateFails, TypeInv, TypeOK
  <2>8. ASSUME NEW c \in Containers, LateCreate(w, c) PROVE TypeInv'
    <3>1. \E q : Becomes(w, q)
      BY <2>8, ErrorEffect DEF LateCreate, At, Admitted
    <3>2. home' \in [Containers -> Folders \cup {None}]
      BY <2>0, <2>8 DEF LateCreate, Job, TypeInv, TypeOK
    <3>3. machine' \in [Containers -> MachineStates] /\ excused' \subseteq Containers
      BY <2>8 DEF LateCreate, Excuse, MachineStates, TypeInv, TypeOK
    <3>4. faults' \in Nat
      BY <2>8 DEF LateCreate, CallFails, Fault, TypeInv, TypeOK
    <3>5. QED
      BY <2>8, <3>1, <3>2, <3>3, <3>4, TypeStep DEF LateCreate, TypeInv, TypeOK
  <2>9. CASE LateStart(w)
    <3>1. \E q : Becomes(w, q)
      BY <2>9, ErrorEffect DEF LateStart, At, Admitted
    <3>2. machine' \in [Containers -> MachineStates]
      BY <2>9 DEF LateStart, MachineStates, TypeInv, TypeOK
    <3>3. faults' \in Nat
      BY <2>9 DEF LateStart, CallFails, Fault, TypeInv, TypeOK
    <3>4. QED
      BY <2>9, <3>1, <3>2, <3>3, TypeStep DEF LateStart, history, TypeInv, TypeOK
  <2>10. CASE LateCommit(w)
    <3>1. \E q : Becomes(w, q)
      BY <2>10, ErrorEffect DEF LateCommit, At, Admitted
    <3>2. rows' \subseteq Containers /\ unsure' \subseteq Containers
      BY <2>0, <2>10 DEF LateCommit, At, Shape, Making, TypeInv, TypeOK
    <3>3. faults' \in Nat
      BY <2>10 DEF LateCommit, CallFails, Fault, TypeInv, TypeOK
    <3>4. QED
      BY <2>10, <3>1, <3>2, <3>3, TypeStep DEF LateCommit, TypeInv, TypeOK
  <2>11. CASE UndoContainer(w)
    <3>1. job[w].pc = "undoContainer" /\ "undoFolder" \in PCs
      BY <2>11 DEF UndoContainer, At, PCs
    <3>2. \E q : Becomes(w, q)
      BY <2>11, <3>1, GotoEffect DEF UndoContainer, Before, Making
    <3>3. job[w].con \in Containers
      BY <2>0, <3>1 DEF Shape
    <3>4. machine' \in [Containers -> MachineStates] /\ excused' \subseteq Containers
      BY <2>11, <3>3 DEF UndoContainer, Excuse, MachineStates, TypeInv, TypeOK
    <3>5. faults' \in Nat
      BY <2>11 DEF UndoContainer, CallFails, Fault, TypeInv, TypeOK
    <3>6. QED
      BY <2>11, <3>2, <3>4, <3>5, TypeStep DEF UndoContainer, TypeInv, TypeOK
  <2>12. CASE UndoFolder(w)
    <3>1. job[w].folder \in Folders
      BY <2>0, <2>12 DEF UndoFolder, At, Shape
    <3>2. folders' \subseteq Folders /\ kept' \subseteq Folders
      BY <2>12, <3>1 DEF UndoFolder, DeleteFolder, Keep, TypeInv, TypeOK
    <3>3. faults' \in Nat
      BY <2>12 DEF UndoFolder, Fault, TypeInv, TypeOK
    <3>4. QED
      BY <2>12, <3>2, <3>3, ReturnEffect, TypeStep DEF UndoFolder, TypeInv, TypeOK
  <2>13. CASE ContextEnds(w)
    BY <2>13, ContextEffect, TypeStep DEF ContextEnds, history, TypeInv, TypeOK
  <2>14. QED
    BY <1>2, <2>1, <2>2, <2>3, <2>4, <2>5, <2>6, <2>7, <2>8, <2>9, <2>10, <2>11, <2>12,
       <2>13 DEF WorkerStep
<1>3. ASSUME NEW c \in Containers, NEW drop \in BOOLEAN, RemoveRow(c, drop) PROVE TypeInv'
  BY <1>3, TypeOther DEF RemoveRow, history, Removals, TypeInv, TypeOK
<1>4. ASSUME NEW c \in Containers, ContainerExits(c) PROVE TypeInv'
  BY <1>4, TypeOther DEF ContainerExits, history, MachineStates, TypeInv, TypeOK
<1>5. ASSUME NEW c \in Containers, LateRemoveRow(c) PROVE TypeInv'
  <2>1. home[c] \in Folders
    BY <1>5, HasHome DEF LateRemoveRow
  <2>2. QED
    BY <1>5, <2>1, TypeOther DEF LateRemoveRow, Excuse, Keep, Fault, TypeInv, TypeOK
<1>6. ASSUME NEW c \in Containers, RemoveMachine(c) PROVE TypeInv'
  <2>1. home[c] \in Folders
    BY <1>6, HasHome DEF RemoveMachine
  <2>2. /\ machine' \in [Containers -> MachineStates]
        /\ excused' \subseteq Containers /\ faults' \in Nat
    BY <1>6 DEF RemoveMachine, Fault, Excuse, MachineStates, TypeInv, TypeOK
  <2>3. /\ removing' \in [Containers -> Removals]
        /\ kept' \subseteq Folders
    BY <1>6, <2>1 DEF RemoveMachine, Keep, Removals, TypeInv, TypeOK
  <2>4. QED
    BY <1>6, <2>2, <2>3, TypeOther DEF RemoveMachine, TypeInv, TypeOK
<1>7. ASSUME NEW c \in Containers, RemoveFolder(c) PROVE TypeInv'
  <2>1. home[c] \in Folders
    BY <1>7, HasHome DEF RemoveFolder
  <2>2. folders' \subseteq Folders /\ kept' \subseteq Folders /\ faults' \in Nat
    BY <1>7, <2>1 DEF RemoveFolder, DeleteFolder, Keep, Fault, TypeInv, TypeOK
  <2>3. removing' \in [Containers -> Removals]
    BY <1>7 DEF RemoveFolder, Removals, TypeInv, TypeOK
  <2>4. QED
    BY <1>7, <2>2, <2>3, TypeOther DEF RemoveFolder, TypeInv, TypeOK
<1>8. CASE DeleteUser
  <2>1. \A c \in rows : home[c] \in Folders
    BY HasHome DEF TypeInv, TypeOK
  <2>2. QED
    BY <1>8, <2>1, TypeOther DEF DeleteUser, Excuse, Keep, TypeInv, TypeOK
<1>9. ASSUME NEW l \in Limits, UpdateUserPlan(l) PROVE TypeInv'
  BY <1>9, TypeOther DEF UpdateUserPlan, history, TypeInv, TypeOK
<1>10. CASE ServerCrash
  <2>1. job' \in [Workers -> Job] /\ \A w \in Workers : Shape(job'[w])
    BY <1>10, Idle DEF ServerCrash
  <2>2. \A w \in Workers : /\ job[w].con \in Containers \cup {None}
                           /\ job[w].pc \in WithFolder => job[w].folder \in Folders
    BY DEF TypeInv, TypeOK, Job, Shape, WithFolder
  <2>3. \A c \in Containers : removing[c] # "no" => home[c] \in Folders
    BY HasHome
  <2>4. excused' \subseteq Containers
    BY <1>10, <2>2 DEF ServerCrash, Excuse, TypeInv, TypeOK
  <2>5. kept' \subseteq Folders
    BY <1>10, <2>2, <2>3 DEF ServerCrash, Keep, TypeInv, TypeOK
  <2>6. removing' \in [Containers -> Removals] /\ crashes' \in Nat
    BY <1>10 DEF ServerCrash, Removals, TypeInv, TypeOK
  <2>7. TypeOK'
    BY <1>10, <2>1, <2>4, <2>5, <2>6 DEF ServerCrash, TypeInv, TypeOK
  <2>8. QED
    BY <2>1, <2>7 DEF TypeInv, Shape
<1>11. CASE UNCHANGED vars
  BY <1>11, TypeOther DEF vars, history, TypeInv, TypeOK
<1>12. QED
  BY <1>1, <1>2, <1>3, <1>4, <1>5, <1>6, <1>7, <1>8, <1>9, <1>10, <1>11 DEF Next

-----------------------------------------------------------------------------
\* Containers: every step keeps ContainerInv.

\* The facts about the job that takes a step.
LEMMA Here ==
    ASSUME TypeInv, ContainerInv, NEW w \in Workers
    PROVE  /\ job[w] \in Job /\ Shape(job[w]) /\ Progress(job[w])
           /\ \A v \in Workers : v # w /\ job[w].con # None => job[v].con # job[w].con
           /\ \A v \in Workers : job[v] \in Job /\ Shape(job[v]) /\ Progress(job[v])
BY DEF TypeInv, TypeOK, ContainerInv, JobInv, DistinctInv

\* What a step does to the other containers: nothing.
Apart(c) ==
    /\ \A d \in Containers \ {c} : /\ machine'[d] = machine[d]
                                   /\ d \in rows' <=> d \in rows
                                   /\ d \in unsure' <=> d \in unsure
                                   /\ removing'[d] = removing[d]
    /\ excused \subseteq excused'

\* A job keeps its progress when a step is about another container.
LEMMA ProgressApart ==
    ASSUME TypeInv, ContainerInv, NEW v \in Workers, NEW c, Apart(c),
           job[v].con # c \/ job[v].con = None,
           job'[v] = job[v]
    PROVE  Progress(job[v])'
<1>1. job[v] \in Job /\ Shape(job[v]) /\ Progress(job[v])
  BY Here
<1>2. job[v].con \in Containers \cup {None} /\ None \notin Containers
  BY <1>1, ProvisioningAssumption DEF Job
<1>3. CASE job[v].con = None
  <2>1. job[v].pc \notin Making \cup {"insert", "commit"}
    BY <1>1, <1>2, <1>3 DEF Shape, Making
  <2>2. QED
    BY <1>3, <2>1 DEF Progress
<1>4. CASE job[v].con \in Containers
  <2>1. /\ machine'[job[v].con] = machine[job[v].con]
        /\ Untouched(job[v].con)' <=> Untouched(job[v].con)
        /\ job[v].con \in excused => job[v].con \in excused'
    BY <1>2, <1>4 DEF Apart, Untouched
  <2>2. QED
    BY <1>1, <2>1 DEF Progress
<1>5. QED
  BY <1>2, <1>3, <1>4

\* A step of a create touches at most one container, its own: the one it holds
\* or the one that it makes.
LEMMA StepContainers ==
    ASSUME TypeInv, ContainerInv, NEW w \in Workers, NEW pc, NEW con, NEW folder,
           Effect(w, pc, con, folder), NEW c \in Containers \cup {None}, Apart(c),
           job[w].con \in {None, c}, con \in {None, c},
           c # None => job[w].con = c \/ machine[c] = "unborn",
           removing' = removing, rows' \subseteq Containers,
           Progress(job[w])',
           c # None => /\ machine'[c] # "unborn"
                       /\ removing[c] # "no" => c \notin rows'
                       /\ removing[c] = "folder" => c \in excused' \/ machine'[c] = "gone"
                       /\ c \in rows' \ unsure' =>
                             /\ machine'[c] \in {"running", "exited"}
                             /\ con # c
                       /\ machine'[c] \in Kept =>
                             c \in rows' \cup excused' \/ removing[c] # "no" \/ con = c
    PROVE  ContainerInv'
<1>0. None \notin Containers /\ job[w].con \in Containers \cup {None}
  BY ProvisioningAssumption DEF TypeInv, TypeOK, Job
<1>1. /\ \A v \in Workers : v # w => job'[v] = job[v]
      /\ job'[w].con = con
  BY DEF Effect
<1>2. \A v \in Workers : v # w => job[v].con # c \/ job[v].con = None
  <2> SUFFICES ASSUME NEW v \in Workers, v # w, job[v].con = c, c # None PROVE FALSE
    OBVIOUS
  <2>1. CASE job[w].con = c
    BY <2>1, Here
  <2>2. CASE machine[c] = "unborn"
    BY <2>2, Here DEF Progress
  <2>3. QED
    BY <2>1, <2>2
<1>3. JobInv'
  <2>1. ASSUME NEW v \in Workers PROVE Progress(job[v])'
    <3>1. CASE v = w
      BY <3>1
    <3>2. CASE v # w
      BY <1>1, <1>2, <3>2, ProgressApart
    <3>3. QED
      BY <3>1, <3>2
  <2>2. QED
    BY <2>1 DEF JobInv
<1>4. DistinctInv'
  <2> SUFFICES ASSUME NEW u \in Workers, NEW v \in Workers, u # v,
                      job'[u].con = job'[v].con, job'[u].con # None
               PROVE  FALSE
    BY DEF DistinctInv
  <2>1. CASE u # w /\ v # w
    BY <1>1, <2>1 DEF ContainerInv, DistinctInv
  <2>2. CASE u = w \/ v = w
    BY <1>1, <1>2, <2>2
  <2>3. QED
    BY <2>1, <2>2
<1>5. FreshInv'
  BY <1>0 DEF ContainerInv, FreshInv, Untouched, Apart
<1>6. RemovingInv'
  BY <1>0 DEF ContainerInv, RemovingInv, Apart
<1>7. RowIsReal'
  <2> SUFFICES ASSUME NEW d \in rows', d \notin unsure'
               PROVE  /\ machine'[d] \in {"running", "exited"} /\ removing'[d] = "no"
                      /\ \A v \in Workers : job'[v].con # d
    BY DEF RowIsReal
  <2>1. CASE d = c /\ d # None
    BY <1>1, <1>2, <2>1
  <2>2. CASE d \in Containers /\ d # c
    <3>1. d \in rows \ unsure /\ machine'[d] = machine[d]
      BY <2>2 DEF Apart
    <3>2. \A v \in Workers : job[v].con # d
      BY <3>1 DEF ContainerInv, RowIsReal
    <3>3. QED
      BY <1>0, <1>1, <2>2, <3>1, <3>2 DEF ContainerInv, RowIsReal
  <2>3. QED
    BY <1>0, <2>1, <2>2
<1>8. NoOrphan'
  <2> SUFFICES ASSUME NEW d \in Containers, machine'[d] \in Kept,
                      d \notin rows' \cup excused', removing[d] = "no"
               PROVE  \E v \in Workers : job'[v].con = d
    BY DEF NoOrphan, Kept
  <2>1. CASE d = c
    BY <1>0, <1>1, <2>1
  <2>2. CASE d # c
    <3>1. PICK v \in Workers : job[v].con = d
      BY <2>2 DEF ContainerInv, NoOrphan, Apart, Kept
    <3>2. v # w
      BY <1>0, <2>2, <3>1
    <3>3. QED
      BY <1>1, <3>1, <3>2
  <2>3. QED
    BY <2>1, <2>2
<1>9. QED
  BY <1>3, <1>4, <1>5, <1>6, <1>7, <1>8 DEF ContainerInv

\* A step of a create without a container that leaves Docker and the rows alone.
LEMMA EarlyStep ==
    ASSUME TypeInv, ContainerInv, NEW w \in Workers, NEW pc, NEW folder,
           Effect(w, pc, None, folder), job[w].con = None,
           pc \notin Making,
           UNCHANGED <<rows, machine, removing, excused, unsure>>
    PROVE  ContainerInv'
<1>1. Apart(None)
  BY DEF Apart
<1>2. Progress(job[w])'
  BY DEF Effect, Progress, Making
<1>3. rows' \subseteq Containers
  BY DEF TypeInv, TypeOK
<1>4. QED
  BY <1>1, <1>2, <1>3, StepContainers

\* What the next lemmas need to know of the container that a create holds.
LEMMA Held ==
    ASSUME TypeInv, ContainerInv, NEW w \in Workers, job[w].con # None
    PROVE  /\ job[w].con \in Containers /\ machine[job[w].con] # "unborn"
           /\ job[w].con \notin rows \ unsure
           /\ removing[job[w].con] # "no" => job[w].con \notin rows
           /\ removing[job[w].con] = "folder" =>
                 job[w].con \in excused \/ machine[job[w].con] = "gone"
BY Here DEF Progress, Job, ContainerInv, RowIsReal, RemovingInv

LEMMA CreateContainers ==
    ASSUME TypeInv, ContainerInv, NEW w \in Workers, NEW c \in Containers,
           ContainerCreate(w, c)
    PROVE  ContainerInv'
<1>1. Effect(w, "start", c, job[w].folder)
  BY CreateEffect
<1>2. /\ machine[c] = "unborn" /\ machine' = [machine EXCEPT ![c] = "created"]
      /\ UNCHANGED <<rows, removing, excused, unsure>> /\ job[w].con = None
  BY Here DEF ContainerCreate, At, history, Shape, Before
<1>3. machine'[c] = "created" /\ Apart(c)
  BY <1>2 DEF TypeInv, TypeOK, Apart
<1>4. Untouched(c) /\ Untouched(c)'
  BY <1>2 DEF ContainerInv, FreshInv, Untouched
<1>5. Progress(job[w])'
  BY <1>1, <1>3, <1>4 DEF Effect, Progress
<1>6. rows' \subseteq Containers
  BY <1>2 DEF TypeInv, TypeOK
<1>7. QED
  BY <1>1, <1>2, <1>3, <1>4, <1>5, <1>6, StepContainers DEF Untouched

LEMMA LateCreateContainers ==
    ASSUME TypeInv, ContainerInv, NEW w \in Workers, NEW c \in Containers,
           LateCreate(w, c)
    PROVE  ContainerInv'
<1>1. /\ machine[c] = "unborn" /\ machine' = [machine EXCEPT ![c] = "created"]
      /\ UNCHANGED <<rows, removing, unsure>> /\ excused' = excused \cup {c}
      /\ job[w].pc = "create" /\ job[w].con = None
  BY Here DEF LateCreate, At, Excuse, Shape, Before
<1>2. Effect(w, "undoFolder", None, job[w].folder)
  BY <1>1, ErrorEffect DEF LateCreate, Admitted, Making
<1>3. machine'[c] = "created" /\ Apart(c) /\ c \in excused'
  BY <1>1 DEF TypeInv, TypeOK, Apart
<1>4. c \notin rows
  BY <1>1 DEF ContainerInv, FreshInv, Untouched
<1>5. Progress(job[w])'
  BY <1>2 DEF Effect, Progress, Making
<1>6. rows' \subseteq Containers
  BY <1>1 DEF TypeInv, TypeOK
<1>7. QED
  BY <1>1, <1>2, <1>3, <1>4, <1>5, <1>6, StepContainers

\* The start, whatever it reports.
LEMMA StartContainers ==
    ASSUME TypeInv, ContainerInv, NEW w \in Workers, ContainerStart(w) \/ LateStart(w)
    PROVE  ContainerInv'
<1> DEFINE c == job[w].con
<1>1. /\ job[w].pc = "start" /\ machine' = [machine EXCEPT ![c] = "running"]
      /\ UNCHANGED <<rows, removing, excused, unsure>>
  BY DEF ContainerStart, LateStart, At, history
<1>2. PICK pc \in {"insert", "undoContainer"} : Effect(w, pc, c, job[w].folder)
  <2>1. CASE ContainerStart(w)
    BY <1>1, <2>1, GotoEffect DEF ContainerStart, PCs, Before, Making
  <2>2. CASE LateStart(w)
    BY <1>1, <2>2, ErrorEffect DEF LateStart, Admitted
  <2>3. QED
    BY <2>1, <2>2
<1>3. c \in Containers /\ c # None /\ Untouched(c)
  BY <1>1, Here, ProvisioningAssumption DEF Shape, Progress, Making
<1>4. machine'[c] = "running" /\ Apart(c)
  BY <1>1, <1>3 DEF TypeInv, TypeOK, Apart
<1>5. Progress(job[w])'
  BY <1>1, <1>2, <1>3, <1>4 DEF Effect, Progress, Untouched
<1>6. rows' \subseteq Containers
  BY <1>1 DEF TypeInv, TypeOK
<1>7. QED
  BY <1>1, <1>2, <1>3, <1>4, <1>5, <1>6, StepContainers DEF Untouched

LEMMA CommitContainers ==
    ASSUME TypeInv, ContainerInv, NEW w \in Workers, Commit(w)
    PROVE  ContainerInv'
<1> DEFINE c == job[w].con
<1>1. /\ job[w].pc = "commit" /\ rows' = rows \cup {c}
      /\ UNCHANGED <<machine, removing, excused, unsure>>
  BY DEF Commit, At, history
<1>2. Effect(w, "idle", None, None)
  BY ReturnEffect DEF Commit
<1>3. /\ c \in Containers /\ c # None /\ removing[c] = "no"
      /\ machine[c] \in {"running", "exited"}
  BY <1>1, Here, ProvisioningAssumption DEF Shape, Progress, Making, Untouched
<1>4. Apart(c)
  BY <1>1 DEF Apart
<1>5. Progress(job[w])'
  BY <1>2 DEF Effect, Progress, Making
<1>6. rows' \subseteq Containers
  BY <1>1, <1>3 DEF TypeInv, TypeOK
<1>7. QED
  BY <1>1, <1>2, <1>3, <1>4, <1>5, <1>6, StepContainers

\* A commit that was reported as failed: the row of the "port" method is as good
\* as any, that of the other is remembered in unsure.
LEMMA LateCommitContainers ==
    ASSUME TypeInv, ContainerInv, NEW w \in Workers, LateCommit(w)
    PROVE  ContainerInv'
<1> DEFINE c == job[w].con
<1>1. /\ job[w].pc = "commit" /\ rows' = rows \cup {c}
      /\ UNCHANGED <<machine, removing, excused>>
      /\ unsure' = IF job[w].kind = "plain" THEN unsure \cup {c} ELSE unsure
  BY DEF LateCommit, At
<1>2. \/ Effect(w, "idle", None, None) /\ job[w].kind = "port"
      \/ Effect(w, "undoContainer", c, job[w].folder) /\ job[w].kind = "plain"
  <2>1. job[w].pc \in {"count"} \cup Admitted /\ TakeErrorPath(w)
    BY <1>1 DEF LateCommit, Admitted
  <2>2. QED
    BY <1>1, <2>1, ErrorEffect
<1>3. /\ c \in Containers /\ c # None /\ removing[c] = "no"
      /\ machine[c] \in {"running", "exited"}
  BY <1>1, Here, ProvisioningAssumption DEF Shape, Progress, Making, Untouched
<1>4. Apart(c)
  BY <1>1 DEF Apart
<1>5. Progress(job[w])'
  BY <1>1, <1>2, <1>3 DEF Effect, Progress, Making
<1>6. rows' \subseteq Containers
  BY <1>1, <1>3 DEF TypeInv, TypeOK
<1>7. CASE Effect(w, "idle", None, None) /\ job[w].kind = "port"
  BY <1>1, <1>3, <1>4, <1>5, <1>6, <1>7, StepContainers
<1>8. CASE Effect(w, "undoContainer", c, job[w].folder) /\ job[w].kind = "plain"
  <2>1. c \in unsure'
    BY <1>1, <1>8
  <2>2. QED
    BY <1>1, <1>3, <1>4, <1>5, <1>6, <1>8, <2>1, StepContainers
<1>9. QED
  BY <1>2, <1>7, <1>8

LEMMA UndoContainers ==
    ASSUME TypeInv, ContainerInv, NEW w \in Workers, UndoContainer(w)
    PROVE  ContainerInv'
<1> DEFINE c == job[w].con
<1>1. /\ job[w].pc = "undoContainer" /\ UNCHANGED <<rows, removing, unsure>>
      /\ Goto(w, "undoFolder")
  BY DEF UndoContainer, At
<1>2. Effect(w, "undoFolder", c, job[w].folder)
  BY <1>1, GotoEffect DEF PCs, Before, Making
<1>3. c \in Containers /\ c # None
  BY <1>1, Here, ProvisioningAssumption DEF Shape
<1>4. \/ machine' = [machine EXCEPT ![c] = "gone"] /\ excused' = excused
      \/ machine' = machine /\ excused' = excused \cup {c}
  BY DEF UndoContainer, Excuse
<1>5. /\ machine'[c] = "gone" \/ (machine'[c] = machine[c] /\ c \in excused')
      /\ Apart(c)
  BY <1>1, <1>3, <1>4 DEF TypeInv, TypeOK, Apart
<1>6. /\ machine[c] # "unborn" /\ c \notin rows \ unsure
      /\ removing[c] # "no" => c \notin rows
      /\ removing[c] = "folder" => c \in excused \/ machine[c] = "gone"
  BY <1>3, Held
<1>7. Progress(job[w])'
  BY <1>2, <1>5, <1>6 DEF Effect, Progress, Making
<1>8. rows' \subseteq Containers
  BY <1>1 DEF TypeInv, TypeOK
<1>9. machine'[c] # "unborn" /\ (machine'[c] \in Kept => c \in excused')
  BY <1>5, <1>6 DEF Kept
<1>10. QED
  BY <1>1, <1>2, <1>3, <1>5, <1>6, <1>7, <1>8, <1>9, StepContainers

\* A create that keeps its container and leaves Docker and the rows alone.
LEMMA LaterStep ==
    ASSUME TypeInv, ContainerInv, NEW w \in Workers, NEW pc, NEW folder,
           Effect(w, pc, job[w].con, folder), job[w].con # None,
           Progress(job[w])',
           UNCHANGED <<rows, machine, removing, excused, unsure>>
    PROVE  ContainerInv'
<1> DEFINE c == job[w].con
<1>1. Apart(c)
  BY DEF Apart
<1>2. /\ c \in Containers /\ machine[c] # "unborn" /\ c \notin rows \ unsure
      /\ removing[c] # "no" => c \notin rows
      /\ removing[c] = "folder" => c \in excused \/ machine[c] = "gone"
  BY Held
<1>3. rows' \subseteq Containers
  BY DEF TypeInv, TypeOK
<1>4. QED
  BY <1>1, <1>2, <1>3, StepContainers

\* A create gives up a container that is gone or left to Docker.
LEMMA LeaveContainers ==
    ASSUME TypeInv, ContainerInv, NEW w \in Workers, Effect(w, "idle", None, None),
           job[w].con # None, UNCHANGED <<rows, machine, removing, unsure>>,
           excused \subseteq excused',
           job[w].con \in excused' \/ machine[job[w].con] = "gone"
    PROVE  ContainerInv'
<1> DEFINE c == job[w].con
<1>1. Apart(c)
  BY DEF Apart
<1>2. /\ c \in Containers /\ machine[c] # "unborn" /\ c \notin rows \ unsure
      /\ removing[c] # "no" => c \notin rows
      /\ removing[c] = "folder" => c \in excused \/ machine[c] = "gone"
  BY Held
<1>3. rows' \subseteq Containers
  BY DEF TypeInv, TypeOK
<1>4. Progress(job[w])'
  BY DEF Effect, Progress, Making
<1>5. machine'[c] \in Kept => c \in excused'
  BY DEF Kept
<1>6. QED
  BY <1>1, <1>2, <1>3, <1>4, <1>5, StepContainers

LEMMA CreateStepContainers ==
    ASSUME TypeInv, ContainerInv, NEW w \in Workers, WorkerStep(w)
    PROVE  ContainerInv'
<1>0. Progress(job[w]) /\ Shape(job[w])
  BY Here
<1>1. CASE CheckPlan(w)
  <2>1. /\ job[w].con = None /\ job[w].pc = "count"
        /\ UNCHANGED <<rows, machine, removing, excused, unsure>>
    BY <1>0, <1>1 DEF CheckPlan, At, Shape, Before, history
  <2>2. CASE Goto(w, "pull")
    BY <2>1, <2>2, GotoEffect, EarlyStep DEF PCs, Before, Making
  <2>3. CASE Return(w)
    BY <2>1, <2>3, ReturnEffect, EarlyStep DEF Making
  <2>4. QED
    BY <1>1, <2>2, <2>3 DEF CheckPlan
<1>2. CASE Prepare(w)
  <2>1. /\ job[w].con = None /\ job[w].pc = "pull" /\ Goto(w, "create")
        /\ UNCHANGED <<rows, machine, removing, excused, unsure>>
    BY <1>0, <1>2 DEF Prepare, At, Shape, Before, history
  <2>2. QED
    BY <2>1, GotoEffect, EarlyStep DEF PCs, Before, Making
<1>3. CASE \E c \in Containers : ContainerCreate(w, c)
  BY <1>3, CreateContainers
<1>4. CASE ContainerStart(w) \/ LateStart(w)
  BY <1>4, StartContainers
<1>5. CASE InsertRow(w)
  <2>1. /\ job[w].pc = "insert" /\ UNCHANGED <<rows, machine, removing, excused, unsure>>
        /\ Goto(w, "commit") /\ job[w].con # None
    BY <1>0, <1>5, ProvisioningAssumption DEF InsertRow, At, Shape, Making, history
  <2>2. Effect(w, "commit", job[w].con, job[w].folder)
    BY <2>1, GotoEffect DEF PCs, Before, Making
  <2>3. Progress(job[w])'
    BY <1>0, <2>1, <2>2 DEF Progress, Effect, Making, Untouched
  <2>4. QED
    BY <2>1, <2>2, <2>3, LaterStep
<1>6. CASE Commit(w)
  BY <1>6, CommitContainers
<1>7. CASE CreateFails(w)
  <2>1. /\ UNCHANGED <<rows, machine, removing, unsure>>
        /\ job[w].pc \in {"count"} \cup Admitted /\ TakeErrorPath(w)
        /\ excused \subseteq excused'
        /\ excused' = excused \/ (job[w].kind = "port" /\ job[w].pc \in {"insert", "commit"})
        /\ job[w].kind = "port" /\ job[w].pc \in {"insert", "commit"} =>
              job[w].con \in excused'
    BY <1>7 DEF CreateFails, Excuse
  <2>2. CASE /\ Effect(w, "idle", None, None)
             /\ job[w].con = None /\ job[w].pc \in {"count", "pull"}
    BY <2>1, <2>2, EarlyStep DEF Making
  <2>3. CASE /\ Effect(w, "idle", None, None)
             /\ job[w].kind = "port" /\ job[w].pc \in {"insert", "commit"}
    <3>1. job[w].con # None
      BY <1>0, <2>3, ProvisioningAssumption DEF Shape, Making
    <3>2. QED
      BY <2>1, <2>3, <3>1, LeaveContainers
  <2>4. CASE /\ Effect(w, "undoFolder", job[w].con, job[w].folder)
             /\ job[w].pc = "create" /\ job[w].con = None
    BY <2>1, <2>4, EarlyStep DEF Making
  <2>5. CASE /\ Effect(w, "undoContainer", job[w].con, job[w].folder)
             /\ job[w].pc \in Making
             /\ job[w].pc \in {"insert", "commit"} => job[w].kind = "plain"
    <3>1. job[w].con # None /\ excused' = excused
      BY <1>0, <2>1, <2>5, ProvisioningAssumption DEF Shape, Making
    <3>2. Progress(job[w])'
      BY <1>0, <2>1, <2>5, <3>1 DEF Progress, Effect, Making
    <3>3. QED
      BY <2>1, <2>5, <3>1, <3>2, LaterStep
  <2>6. QED
    BY <2>1, <2>2, <2>3, <2>4, <2>5, ErrorEffect
<1>8. CASE \E c \in Containers : LateCreate(w, c)
  BY <1>8, LateCreateContainers
<1>9. CASE LateCommit(w)
  BY <1>9, LateCommitContainers
<1>10. CASE UndoContainer(w)
  BY <1>10, UndoContainers
<1>11. CASE UndoFolder(w)
  <2>1. /\ Return(w) /\ UNCHANGED <<rows, machine, removing, excused, unsure>>
        /\ job[w].pc = "undoFolder"
    BY <1>11 DEF UndoFolder, At
  <2>2. CASE job[w].con = None
    BY <2>1, <2>2, ReturnEffect, EarlyStep DEF Making
  <2>3. CASE job[w].con # None
    BY <1>0, <2>1, <2>3, ReturnEffect, LeaveContainers DEF Progress
  <2>4. QED
    BY <2>2, <2>3
<1>12. CASE ContextEnds(w)
  <2>1. Effect(w, job[w].pc, job[w].con, job[w].folder)
        /\ UNCHANGED <<rows, machine, removing, excused, unsure>>
    BY <1>12, ContextEffect DEF ContextEnds, history
  <2>2. Progress(job[w])'
    BY <1>0, <2>1 DEF Progress, Effect, Untouched
  <2>3. CASE job[w].con = None
    <3>1. job[w].pc \notin Making
      BY <1>0, <2>3, ProvisioningAssumption DEF Shape
    <3>2. QED
      BY <2>1, <2>3, <3>1, EarlyStep
  <2>4. CASE job[w].con # None
    BY <2>1, <2>2, <2>4, LaterStep
  <2>5. QED
    BY <2>3, <2>4
<1>13. QED
  BY <1>1, <1>2, <1>3, <1>4, <1>5, <1>6, <1>7, <1>8, <1>9, <1>10, <1>11, <1>12
     DEF WorkerStep

\* A step of nobody's create that is about one container.
LEMMA OtherContainers ==
    ASSUME TypeInv, ContainerInv, NEW c \in Containers, Apart(c), job' = job,
           rows' \subseteq rows, unsure' = unsure,
           machine'[c] # "unborn",
           \A w \in Workers : job[w].con = c => Progress(job[w])',
           removing'[c] # "no" => c \notin rows',
           removing'[c] = "folder" => c \in excused' \/ machine'[c] = "gone",
           c \in rows' \ unsure => machine'[c] \in {"running", "exited"},
           machine'[c] \in Kept => \/ c \in rows' \cup excused' \/ removing'[c] # "no"
                                   \/ \E w \in Workers : job[w].con = c
    PROVE  ContainerInv'
<1>0. None \notin Containers
  BY ProvisioningAssumption
<1>1. JobInv'
  <2>1. ASSUME NEW v \in Workers PROVE Progress(job[v])'
    BY ProgressApart
  <2>2. QED
    BY <2>1 DEF JobInv
<1>2. DistinctInv'
  BY DEF ContainerInv, DistinctInv
<1>3. FreshInv' /\ RemovingInv'
  BY DEF ContainerInv, FreshInv, RemovingInv, Untouched, Apart
<1>4. RowIsReal'
  <2> SUFFICES ASSUME NEW d \in rows', d \notin unsure
               PROVE  /\ machine'[d] \in {"running", "exited"} /\ removing'[d] = "no"
                      /\ \A v \in Workers : job[v].con # d
    BY DEF RowIsReal
  <2>1. /\ d \in Containers /\ machine[d] \in {"running", "exited"} /\ removing[d] = "no"
        /\ \A v \in Workers : job[v].con # d
    BY DEF ContainerInv, RowIsReal, TypeInv, TypeOK
  <2>2. CASE d # c
    BY <2>1, <2>2 DEF Apart
  <2>3. CASE d = c
    BY <2>1, <2>3
  <2>4. QED
    BY <2>2, <2>3
<1>5. NoOrphan'
  BY DEF ContainerInv, NoOrphan, Apart, Kept
<1>6. QED
  BY <1>1, <1>2, <1>3, <1>4, <1>5 DEF ContainerInv

LEMMA ContainerNext == TypeInv /\ ContainerInv /\ [Next]_vars => ContainerInv'
<1> SUFFICES ASSUME TypeInv, ContainerInv, [Next]_vars PROVE ContainerInv'
  OBVIOUS
<1>1. ASSUME NEW w \in Workers, NEW kind \in Kinds, NEW f \in Folders,
             BeginCreate(w, kind, f)
      PROVE  ContainerInv'
  <2>1. job[w].con = None /\ UNCHANGED <<rows, machine, removing, excused, unsure>>
    BY <1>1, Here DEF BeginCreate, At, Shape, Before, history
  <2>2. QED
    BY <1>1, <2>1, BeginEffect, EarlyStep DEF Making
<1>2. ASSUME NEW w \in Workers, WorkerStep(w) PROVE ContainerInv'
  BY <1>2, CreateStepContainers
<1>3. ASSUME NEW c \in Containers, NEW drop \in BOOLEAN, RemoveRow(c, drop)
      PROVE  ContainerInv'
  <2>1. /\ c \in rows /\ rows' = rows \ {c} /\ UNCHANGED <<job, machine, excused, unsure>>
        /\ removing'[c] \in {"keepFolder", "dropFolder"} /\ Apart(c)
    BY <1>3 DEF RemoveRow, history, Apart, TypeInv, TypeOK
  <2>2. machine[c] # "unborn" /\ \A w \in Workers : job[w].con = c => Progress(job[w])'
    BY <2>1, Here DEF ContainerInv, FreshInv, Untouched, Progress
  <2>3. QED
    BY <2>1, <2>2, OtherContainers
<1>4. ASSUME NEW c \in Containers, LateRemoveRow(c) PROVE ContainerInv'
  <2>1. /\ c \in rows /\ rows' = rows \ {c} /\ UNCHANGED <<job, machine, removing, unsure>>
        /\ excused' = excused \cup {c} /\ Apart(c)
    BY <1>4 DEF LateRemoveRow, Excuse, Apart, TypeInv, TypeOK
  <2>2. machine[c] # "unborn" /\ \A w \in Workers : job[w].con = c => Progress(job[w])'
    BY <2>1, Here DEF ContainerInv, FreshInv, Untouched, Progress
  <2>3. QED
    BY <2>1, <2>2, OtherContainers
<1>5. ASSUME NEW c \in Containers, ContainerExits(c) PROVE ContainerInv'
  <2>1. /\ machine[c] = "running" /\ machine'[c] = "exited" /\ Apart(c)
        /\ UNCHANGED <<job, rows, removing, excused, unsure>>
    BY <1>5 DEF ContainerExits, history, Apart, TypeInv, TypeOK
  <2>2. \A w \in Workers : job[w].con = c => Progress(job[w])'
    BY <2>1, Here DEF Progress, Untouched
  <2>3. /\ removing[c] # "no" => c \notin rows
        /\ removing[c] = "folder" => c \in excused
    BY <2>1 DEF ContainerInv, RemovingInv
  <2>4. c \in rows \cup excused \/ removing[c] # "no" \/ \E w \in Workers : job[w].con = c
    BY <2>1 DEF ContainerInv, NoOrphan
  <2>5. QED
    BY <2>1, <2>2, <2>3, <2>4, OtherContainers
<1>6. ASSUME NEW c \in Containers, RemoveMachine(c) PROVE ContainerInv'
  <2>1. \/ machine' = [machine EXCEPT ![c] = "gone"] /\ excused' = excused
        \/ machine' = machine /\ excused' = excused \cup {c}
    BY <1>6 DEF RemoveMachine, Excuse
  <2>2. removing[c] # "no" /\ \A d \in Containers \ {c} : removing'[d] = removing[d]
    BY <1>6 DEF RemoveMachine, TypeInv, TypeOK
  <2>3. /\ machine'[c] = "gone" \/ (machine'[c] = machine[c] /\ c \in excused')
        /\ UNCHANGED <<job, rows, unsure>> /\ Apart(c)
    BY <1>6, <2>1, <2>2 DEF RemoveMachine, Apart, TypeInv, TypeOK
  <2>4. machine[c] # "unborn" /\ c \notin rows
    BY <2>2 DEF ContainerInv, FreshInv, Untouched, RemovingInv
  <2>5. \A w \in Workers : job[w].con = c => Progress(job[w])'
    BY <2>2, <2>3, <2>4, Here DEF Progress, Untouched, Making
  <2>6. QED
    BY <2>3, <2>4, <2>5, OtherContainers DEF Kept
<1>7. ASSUME NEW c \in Containers, RemoveFolder(c) PROVE ContainerInv'
  <2>1. /\ removing[c] = "folder" /\ removing'[c] = "no"
        /\ UNCHANGED <<job, rows, machine, excused, unsure>> /\ Apart(c)
    BY <1>7 DEF RemoveFolder, Apart, TypeInv, TypeOK
  <2>2. machine[c] # "unborn" /\ c \notin rows /\ (c \in excused \/ machine[c] = "gone")
    BY <2>1 DEF ContainerInv, FreshInv, Untouched, RemovingInv
  <2>3. \A w \in Workers : job[w].con = c => Progress(job[w])'
    BY <2>1, <2>2, Here DEF Progress, Untouched, Making
  <2>4. QED
    BY <2>1, <2>2, <2>3, OtherContainers DEF Kept
<1>8. CASE DeleteUser
  <2>1. /\ rows' = {} /\ excused' = excused \cup rows
        /\ UNCHANGED <<job, machine, removing, unsure>>
    BY <1>8 DEF DeleteUser, Excuse
  <2>2. JobInv' /\ DistinctInv'
    BY <2>1 DEF ContainerInv, JobInv, DistinctInv, Progress, Untouched
  <2>3. FreshInv' /\ RemovingInv' /\ RowIsReal' /\ NoOrphan'
    BY <2>1 DEF ContainerInv, FreshInv, Untouched, RemovingInv, RowIsReal, NoOrphan
  <2>4. QED
    BY <2>2, <2>3 DEF ContainerInv
<1>9. ASSUME UNCHANGED <<job, rows, machine, removing, excused, unsure>> PROVE ContainerInv'
  BY <1>9 DEF ContainerInv, JobInv, Progress, DistinctInv, FreshInv, Untouched, RemovingInv,
              RowIsReal, NoOrphan
<1>10. CASE ServerCrash
  <2>1. /\ \A w \in Workers : job'[w].con = None /\ job'[w].pc = "idle"
        /\ \A c \in Containers : removing'[c] = "no"
        /\ UNCHANGED <<rows, machine, unsure>>
    BY <1>10, Idle DEF ServerCrash
  <2>2. /\ excused \subseteq excused'
        /\ \A c \in Containers : removing[c] # "no" => c \in excused'
        /\ \A w \in Workers : job[w].con \in Containers => job[w].con \in excused'
    <3>1. \A w \in Workers : job[w].con # None => job[w].pc \in WithFolder
      BY DEF TypeInv, TypeOK, Job, PCs, Shape, Before, WithFolder
    <3>2. QED
      BY <1>10, <3>1, ProvisioningAssumption DEF ServerCrash, Excuse
  <2>3. JobInv' /\ DistinctInv' /\ RemovingInv'
    BY <2>1 DEF JobInv, Progress, DistinctInv, RemovingInv, Making
  <2>4. RowIsReal'
    BY <2>1, ProvisioningAssumption DEF ContainerInv, RowIsReal, TypeInv, TypeOK
  <2>5. NoOrphan' /\ FreshInv'
    BY <2>1, <2>2 DEF ContainerInv, NoOrphan, FreshInv, Untouched
  <2>6. QED
    BY <2>3, <2>4, <2>5 DEF ContainerInv
<1>11. ASSUME NEW l \in Limits, UpdateUserPlan(l) PROVE ContainerInv'
  BY <1>9, <1>11 DEF UpdateUserPlan, history
<1>12. CASE UNCHANGED vars
  BY <1>9, <1>12 DEF vars, history
<1>13. QED
  BY <1>1, <1>2, <1>3, <1>4, <1>5, <1>6, <1>7, <1>8, <1>10, <1>11, <1>12 DEF Next

-----------------------------------------------------------------------------
\* Folders: every step keeps FolderInv.

\* A container keeps its folder.
LEMMA HomeStep ==
    ASSUME TypeInv, HomeInv, NEW w \in Workers, NEW pc, NEW con, NEW folder,
           Effect(w, pc, con, folder),
           con = None \/ (con = job[w].con /\ folder = job[w].folder),
           home' = home,
           \A c \in Containers : machine'[c] = "unborn" <=> machine[c] = "unborn"
    PROVE  HomeInv'
BY DEF HomeInv, Effect

\* A step of a create takes its own folder, keeps it, hands it to its container,
\* deletes it or leaves it behind; it takes no folder from a container.
LEMMA StepFolders ==
    ASSUME TypeInv, NoOrphanFolder, NEW w \in Workers, NEW pc, NEW con, NEW folder,
           Effect(w, pc, con, folder),
           rows \subseteq rows', rows \subseteq Containers,
           \A c \in Containers : home[c] # None => home'[c] = home[c],
           removing' = removing, folders' \subseteq Folders,
           \A g \in Folders : g # job[w].folder =>
               (g \in folders' => g \in folders) /\ (g \in kept => g \in kept'),
           job[w].folder \in folders' \ kept' =>
               \/ pc \in WithFolder /\ folder = job[w].folder
               \/ \E c \in rows' : c \in Containers /\ home'[c] = job[w].folder
               \/ job[w].pc \notin WithFolder /\ job[w].folder \in folders \ kept
    PROVE  NoOrphanFolder'
<1> SUFFICES ASSUME NEW g \in folders', g \notin kept'
             PROVE  \/ \E c \in Containers : home'[c] = g /\ (c \in rows' \/ removing'[c] # "no")
                    \/ \E v \in Workers : job'[v].folder = g /\ job'[v].pc \in WithFolder
  BY DEF NoOrphanFolder
<1>1. /\ \A v \in Workers : v # w => job'[v] = job[v]
      /\ job'[w].folder = folder /\ job'[w].pc = pc /\ g # None
  BY ProvisioningAssumption DEF Effect
<1>2. ASSUME g \in folders \ kept, \A v \in Workers : v = w => job[v].folder # g \/ job[v].pc \notin WithFolder
      PROVE  \/ \E c \in Containers : home'[c] = g /\ (c \in rows' \/ removing'[c] # "no")
             \/ \E v \in Workers : job'[v].folder = g /\ job'[v].pc \in WithFolder
  <2>1. CASE \E c \in Containers : home[c] = g /\ (c \in rows \/ removing[c] # "no")
    BY <1>1, <2>1
  <2>2. CASE \E v \in Workers : job[v].folder = g /\ job[v].pc \in WithFolder
    BY <1>1, <1>2, <2>2
  <2>3. QED
    BY <1>2, <2>1, <2>2 DEF NoOrphanFolder
<1>3. CASE g # job[w].folder
  BY <1>2, <1>3
<1>4. CASE g = job[w].folder
  BY <1>1, <1>2, <1>4
<1>5. QED
  BY <1>3, <1>4

\* What a step of a create does to the folders when it touches none.
LEMMA QuietFolders ==
    ASSUME TypeInv, FolderInv, NEW w \in Workers, NEW pc, NEW con, NEW folder,
           Effect(w, pc, con, folder),
           con = None \/ (con = job[w].con /\ folder = job[w].folder),
           UNCHANGED <<home, folders, kept, removing>>, rows \subseteq rows',
           \A c \in Containers : machine'[c] = "unborn" <=> machine[c] = "unborn",
           job[w].pc \in WithFolder => pc \in WithFolder /\ folder = job[w].folder
    PROVE  FolderInv'
<1>1. HomeInv'
  BY HomeStep DEF FolderInv
<1>2. folders' \subseteq Folders /\ rows \subseteq Containers
  BY DEF TypeInv, TypeOK
<1>3. NoOrphanFolder'
  BY <1>2, StepFolders DEF FolderInv
<1>4. QED
  BY <1>1, <1>3 DEF FolderInv

\* A new container's folder is that of its create.
LEMMA MakeFolders ==
    ASSUME TypeInv, ContainerInv, FolderInv, NEW w \in Workers, NEW c \in Containers,
           ContainerCreate(w, c) \/ LateCreate(w, c)
    PROVE  FolderInv'
<1> DEFINE f == job[w].folder
<1>1. /\ job[w].pc = "create" /\ job[w].con = None /\ f \in Folders /\ f # None
      /\ machine[c] = "unborn" /\ home[c] = None
  <2>1. job[w].pc = "create" /\ machine[c] = "unborn"
    BY DEF ContainerCreate, LateCreate, At
  <2>2. QED
    BY <2>1, Here, ProvisioningAssumption DEF Shape, Before, FolderInv, HomeInv
<1>2. PICK pc \in WithFolder, con \in {None, c} : Effect(w, pc, con, f)
  <2>1. CASE ContainerCreate(w, c)
    BY <2>1, CreateEffect DEF WithFolder
  <2>2. CASE LateCreate(w, c)
    BY <1>1, <2>2, ErrorEffect DEF LateCreate, Admitted, Making, WithFolder
  <2>3. QED
    BY <2>1, <2>2
<1>3. /\ machine' = [machine EXCEPT ![c] = "created"] /\ home' = [home EXCEPT ![c] = f]
      /\ UNCHANGED <<rows, folders, removing, kept>>
  BY DEF ContainerCreate, LateCreate, history
<1>4. /\ machine'[c] = "created" /\ home'[c] = f
      /\ \A d \in Containers \ {c} : machine'[d] = machine[d] /\ home'[d] = home[d]
  BY <1>3 DEF TypeInv, TypeOK
<1>5. \A v \in Workers : job[v].con # c /\ job[v].con \in Containers \cup {None}
  BY <1>1, Here, ProvisioningAssumption DEF Progress, Job
<1>6. HomeInv'
  <2>1. \A d \in Containers : machine'[d] = "unborn" <=> home'[d] = None
    BY <1>1, <1>4 DEF FolderInv, HomeInv
  <2>2. ASSUME NEW v \in Workers, job'[v].con # None
        PROVE  home'[job'[v].con] = job'[v].folder
    <3>1. CASE v = w
      BY <1>2, <1>4, <2>2, <3>1 DEF Effect
    <3>2. CASE v # w
      BY <1>2, <1>4, <1>5, <2>2, <3>2 DEF Effect, FolderInv, HomeInv
    <3>3. QED
      BY <3>1, <3>2
  <2>3. QED
    BY <2>1, <2>2 DEF HomeInv
<1>7. folders' \subseteq Folders /\ rows \subseteq Containers
  BY <1>3 DEF TypeInv, TypeOK
<1>8. \A d \in Containers : home[d] # None => home'[d] = home[d]
  BY <1>1, <1>4
<1>9. NoOrphanFolder'
  BY <1>2, <1>3, <1>7, <1>8, StepFolders DEF FolderInv
<1>10. QED
  BY <1>6, <1>9 DEF FolderInv

\* A create that ends hands its folder to its row.
LEMMA CommitFolders ==
    ASSUME TypeInv, ContainerInv, FolderInv, NEW w \in Workers,
           Commit(w) \/ LateCommit(w)
    PROVE  FolderInv'
<1> DEFINE c == job[w].con
           f == job[w].folder
<1>1. /\ job[w].pc = "commit" /\ rows' = rows \cup {c}
      /\ UNCHANGED <<machine, home, folders, removing, kept>>
  BY DEF Commit, LateCommit, At, history
<1>2. c \in Containers /\ c # None /\ home[c] = f
  BY <1>1, Here, ProvisioningAssumption DEF Shape, Making, FolderInv, HomeInv
<1>3. \/ Effect(w, "idle", None, None)
      \/ Effect(w, "undoContainer", c, f)
  <2>1. CASE Commit(w)
    BY <2>1, ReturnEffect DEF Commit
  <2>2. CASE LateCommit(w)
    BY <1>1, <2>2, ErrorEffect DEF LateCommit, Admitted
  <2>3. QED
    BY <2>1, <2>2
<1>4. folders' \subseteq Folders /\ rows \subseteq Containers
  BY <1>1 DEF TypeInv, TypeOK
<1>5. CASE Effect(w, "idle", None, None)
  <2>1. HomeInv'
    BY <1>1, <1>5, HomeStep DEF FolderInv
  <2>2. \E d \in rows' : d \in Containers /\ home'[d] = f
    BY <1>1, <1>2
  <2>3. NoOrphanFolder'
    BY <1>1, <1>4, <1>5, <2>2, StepFolders DEF FolderInv
  <2>4. QED
    BY <2>1, <2>3 DEF FolderInv
<1>6. CASE Effect(w, "undoContainer", c, f)
  BY <1>1, <1>6, QuietFolders DEF WithFolder
<1>7. QED
  BY <1>3, <1>5, <1>6

LEMMA CreateStepFolders ==
    ASSUME TypeInv, ContainerInv, FolderInv, NEW w \in Workers, WorkerStep(w)
    PROVE  FolderInv'
<1> DEFINE f == job[w].folder
<1>0. /\ Progress(job[w]) /\ Shape(job[w])
      /\ rows \subseteq Containers /\ folders \subseteq Folders
  BY Here DEF TypeInv, TypeOK
<1>1. CASE CheckPlan(w)
  <2>1. /\ job[w].pc = "count" /\ UNCHANGED <<rows, machine, home, folders, kept, removing>>
    BY <1>1 DEF CheckPlan, At, history
  <2>2. CASE Goto(w, "pull")
    BY <2>1, <2>2, GotoEffect, QuietFolders DEF PCs, Before, Making, WithFolder
  <2>3. CASE Return(w)
    BY <2>1, <2>3, ReturnEffect, QuietFolders DEF WithFolder
  <2>4. QED
    BY <1>1, <2>2, <2>3 DEF CheckPlan
<1>2. CASE Prepare(w)
  <2>1. /\ job[w].pc = "pull" /\ UNCHANGED <<rows, machine, home, kept, removing>>
        /\ folders' = folders \cup {f} /\ Goto(w, "create")
    BY <1>2 DEF Prepare, At, history
  <2>2. Effect(w, "create", job[w].con, f)
    BY <2>1, GotoEffect DEF PCs, Before, Making
  <2>3. HomeInv'
    BY <2>1, <2>2, HomeStep DEF FolderInv
  <2>4. folders' \subseteq Folders
    BY <1>0, <2>1 DEF Shape
  <2>5. NoOrphanFolder'
    BY <1>0, <2>1, <2>2, <2>4, StepFolders DEF WithFolder, FolderInv
  <2>6. QED
    BY <2>3, <2>5 DEF FolderInv
<1>3. CASE \E c \in Containers : ContainerCreate(w, c) \/ LateCreate(w, c)
  BY <1>3, MakeFolders
<1>4. CASE ContainerStart(w) \/ LateStart(w)
  <2>1. /\ job[w].pc = "start" /\ UNCHANGED <<rows, home, folders, kept, removing>>
        /\ machine' = [machine EXCEPT ![job[w].con] = "running"]
    BY <1>4 DEF ContainerStart, LateStart, At, history
  <2>2. PICK pc \in {"insert", "undoContainer"} : Effect(w, pc, job[w].con, f)
    <3>1. CASE ContainerStart(w)
      BY <2>1, <3>1, GotoEffect DEF ContainerStart, PCs, Before, Making
    <3>2. CASE LateStart(w)
      BY <2>1, <3>2, ErrorEffect DEF LateStart, Admitted
    <3>3. QED
      BY <1>4, <3>1, <3>2
  <2>3. \A c \in Containers : machine'[c] = "unborn" <=> machine[c] = "unborn"
    <3>1. job[w].con \in Containers /\ machine[job[w].con] # "unborn"
      BY <1>0, <2>1, ProvisioningAssumption DEF Shape, Progress, Making
    <3>2. QED
      BY <2>1, <3>1 DEF TypeInv, TypeOK
  <2>4. QED
    BY <2>1, <2>2, <2>3, QuietFolders DEF WithFolder
<1>5. CASE InsertRow(w)
  <2>1. /\ job[w].pc = "insert" /\ UNCHANGED <<rows, machine, home, folders, kept, removing>>
        /\ Goto(w, "commit")
    BY <1>5 DEF InsertRow, At, history
  <2>2. QED
    BY <2>1, GotoEffect, QuietFolders DEF PCs, Before, Making, WithFolder
<1>6. CASE Commit(w) \/ LateCommit(w)
  BY <1>6, CommitFolders
<1>7. CASE CreateFails(w)
  <2>1. /\ UNCHANGED <<rows, machine, home, folders, removing>>
        /\ job[w].pc \in {"count"} \cup Admitted /\ TakeErrorPath(w)
        /\ kept \subseteq kept'
        /\ kept' = kept \/ (job[w].kind = "port" /\ job[w].pc \in {"insert", "commit"})
        /\ job[w].kind = "port" /\ job[w].pc \in {"insert", "commit"} => f \in kept'
    BY <1>7 DEF CreateFails, Keep
  <2>2. CASE /\ Effect(w, "idle", None, None)
             /\ job[w].con = None /\ job[w].pc \in {"count", "pull"}
    BY <2>1, <2>2, QuietFolders DEF WithFolder
  <2>3. CASE /\ Effect(w, "idle", None, None)
             /\ job[w].kind = "port" /\ job[w].pc \in {"insert", "commit"}
    <3>1. HomeInv'
      BY <2>1, <2>3, HomeStep DEF FolderInv
    <3>2. NoOrphanFolder'
      BY <1>0, <2>1, <2>3, StepFolders DEF FolderInv
    <3>3. QED
      BY <3>1, <3>2 DEF FolderInv
  <2>4. CASE /\ Effect(w, "undoFolder", job[w].con, f)
             /\ job[w].pc = "create" /\ job[w].con = None
    BY <2>1, <2>4, QuietFolders DEF WithFolder
  <2>5. CASE /\ Effect(w, "undoContainer", job[w].con, f)
             /\ job[w].pc \in Making
             /\ job[w].pc \in {"insert", "commit"} => job[w].kind = "plain"
    BY <2>1, <2>5, QuietFolders DEF WithFolder
  <2>6. QED
    BY <2>1, <2>2, <2>3, <2>4, <2>5, ErrorEffect
<1>8. CASE UndoContainer(w)
  <2>1. /\ job[w].pc = "undoContainer" /\ UNCHANGED <<rows, home, folders, kept, removing>>
        /\ Goto(w, "undoFolder")
    BY <1>8 DEF UndoContainer, At
  <2>2. Effect(w, "undoFolder", job[w].con, f)
    BY <2>1, GotoEffect DEF PCs, Before, Making
  <2>3. \A c \in Containers : machine'[c] = "unborn" <=> machine[c] = "unborn"
    <3>1. job[w].con \in Containers /\ machine[job[w].con] # "unborn"
      BY <1>0, <2>1, ProvisioningAssumption DEF Shape, Progress
    <3>2. QED
      BY <1>8, <3>1 DEF UndoContainer, TypeInv, TypeOK
  <2>4. QED
    BY <2>1, <2>2, <2>3, QuietFolders DEF WithFolder
<1>9. CASE UndoFolder(w)
  <2>1. /\ Return(w) /\ UNCHANGED <<rows, machine, home, removing>>
        /\ \/ folders' = folders \ {f} /\ kept' = kept \ {f}
           \/ folders' = folders /\ kept' = kept \cup {f}
    BY <1>9 DEF UndoFolder, DeleteFolder, Keep
  <2>2. Effect(w, "idle", None, None)
    BY <2>1, ReturnEffect
  <2>3. HomeInv'
    BY <2>1, <2>2, HomeStep DEF FolderInv
  <2>4. /\ folders' \subseteq folders /\ f \notin folders' \ kept'
        /\ \A g \in Folders : g # f /\ g \in kept => g \in kept'
    BY <2>1
  <2>5. NoOrphanFolder'
    BY <1>0, <2>1, <2>2, <2>4, StepFolders DEF FolderInv
  <2>6. QED
    BY <2>3, <2>5 DEF FolderInv
<1>10. CASE ContextEnds(w)
  <2>1. UNCHANGED <<rows, machine, home, folders, kept, removing>>
    BY <1>10 DEF ContextEnds, history
  <2>2. QED
    BY <1>10, <2>1, ContextEffect, QuietFolders
<1>11. QED
  BY <1>1, <1>2, <1>3, <1>4, <1>5, <1>6, <1>7, <1>8, <1>9, <1>10 DEF WorkerStep

\* A step of nobody's create on one container: the folder it had is deleted, left
\* behind, or has still an owner.
LEMMA OtherFolders ==
    ASSUME TypeInv, FolderInv, UNCHANGED <<job, home>>, NEW c \in Containers,
           \A d \in Containers : machine'[d] = "unborn" <=> machine[d] = "unborn",
           rows \ {c} \subseteq rows',
           \A d \in Containers \ {c} : removing'[d] = removing[d],
           folders' \subseteq folders,
           \A g \in Folders : g # home[c] /\ g \in kept => g \in kept',
           home[c] \in folders' \ kept' => /\ home[c] \notin kept
                                           /\ c \in rows \/ removing[c] # "no" =>
                                                 c \in rows' \/ removing'[c] # "no"
    PROVE  FolderInv'
<1>1. HomeInv'
  BY DEF FolderInv, HomeInv
<1>2. NoOrphanFolder'
  <2> SUFFICES ASSUME NEW g \in folders', g \notin kept'
               PROVE  \/ \E d \in Containers : /\ home'[d] = g
                                               /\ d \in rows' \/ removing'[d] # "no"
                      \/ \E v \in Workers : job'[v].folder = g /\ job'[v].pc \in WithFolder
    BY DEF NoOrphanFolder
  <2>1. g \in folders \ kept
    BY DEF TypeInv, TypeOK
  <2>2. CASE \E v \in Workers : job[v].folder = g /\ job[v].pc \in WithFolder
    BY <2>2
  <2>3. CASE \E d \in Containers : home[d] = g /\ (d \in rows \/ removing[d] # "no")
    <3>1. PICK d \in Containers : home[d] = g /\ (d \in rows \/ removing[d] # "no")
      BY <2>3
    <3>2. CASE d = c
      BY <3>1, <3>2
    <3>3. CASE d # c
      BY <3>1, <3>3
    <3>4. QED
      BY <3>2, <3>3
  <2>4. QED
    BY <2>1, <2>2, <2>3 DEF FolderInv, NoOrphanFolder
<1>3. QED
  BY <1>1, <1>2 DEF FolderInv

LEMMA FolderNext == TypeInv /\ ContainerInv /\ FolderInv /\ [Next]_vars => FolderInv'
<1> SUFFICES ASSUME TypeInv, ContainerInv, FolderInv, [Next]_vars PROVE FolderInv'
  OBVIOUS
<1>1. ASSUME NEW w \in Workers, NEW kind \in Kinds, NEW f \in Folders,
             BeginCreate(w, kind, f)
      PROVE  FolderInv'
  <2>1. /\ job[w].pc = "idle" /\ UNCHANGED <<rows, machine, home, folders, kept, removing>>
    BY <1>1 DEF BeginCreate, At, history
  <2>2. QED
    BY <1>1, <2>1, BeginEffect, QuietFolders DEF WithFolder
<1>2. ASSUME NEW w \in Workers, WorkerStep(w) PROVE FolderInv'
  BY <1>2, CreateStepFolders
<1>3. ASSUME NEW c \in Containers, NEW drop \in BOOLEAN, RemoveRow(c, drop)
      PROVE  FolderInv'
  <2>1. /\ rows' = rows \ {c} /\ UNCHANGED <<job, machine, home, folders, kept>>
        /\ removing'[c] # "no" /\ \A d \in Containers \ {c} : removing'[d] = removing[d]
    BY <1>3 DEF RemoveRow, history, TypeInv, TypeOK
  <2>2. QED
    BY <2>1, OtherFolders
<1>4. ASSUME NEW c \in Containers, LateRemoveRow(c) PROVE FolderInv'
  <2>1. /\ rows' = rows \ {c} /\ UNCHANGED <<job, machine, home, folders, removing>>
        /\ kept' = kept \cup {home[c]}
    BY <1>4 DEF LateRemoveRow, Keep
  <2>2. QED
    BY <2>1, OtherFolders
<1>5. ASSUME NEW c \in Containers, ContainerExits(c) PROVE FolderInv'
  <2>1. /\ UNCHANGED <<job, rows, home, folders, removing, kept>>
        /\ \A d \in Containers : machine'[d] = "unborn" <=> machine[d] = "unborn"
    BY <1>5 DEF ContainerExits, history, TypeInv, TypeOK
  <2>2. QED
    BY <2>1, OtherFolders
<1>6. ASSUME NEW c \in Containers, RemoveMachine(c) PROVE FolderInv'
  <2>1. machine[c] # "unborn"
    BY <1>6 DEF RemoveMachine, ContainerInv, FreshInv, Untouched
  <2>2. \A d \in Containers : machine'[d] = "unborn" <=> machine[d] = "unborn"
    BY <1>6, <2>1 DEF RemoveMachine, TypeInv, TypeOK
  <2>3. /\ UNCHANGED <<job, rows, home, folders>>
        /\ \A d \in Containers \ {c} : removing'[d] = removing[d]
        /\ \/ kept' = kept \cup {home[c]}
           \/ kept' = kept /\ removing'[c] = "folder"
    BY <1>6 DEF RemoveMachine, Keep, TypeInv, TypeOK
  <2>4. QED
    BY <2>2, <2>3, OtherFolders
<1>7. ASSUME NEW c \in Containers, RemoveFolder(c) PROVE FolderInv'
  <2>1. /\ UNCHANGED <<job, rows, machine, home>>
        /\ \A d \in Containers \ {c} : removing'[d] = removing[d]
        /\ \/ folders' = folders \ {home[c]} /\ kept' = kept \ {home[c]}
           \/ folders' = folders /\ kept' = kept \cup {home[c]}
    BY <1>7 DEF RemoveFolder, DeleteFolder, Keep, TypeInv, TypeOK
  <2>2. /\ folders' \subseteq folders /\ home[c] \notin folders' \ kept'
        /\ \A g \in Folders : g # home[c] /\ g \in kept => g \in kept'
    BY <2>1
  <2>3. QED
    BY <2>1, <2>2, OtherFolders
<1>8. CASE DeleteUser
  <2>1. /\ UNCHANGED <<job, machine, home, folders, removing>>
        /\ kept' = kept \cup {home[c] : c \in rows}
    BY <1>8 DEF DeleteUser, Keep
  <2>2. HomeInv'
    BY <2>1 DEF FolderInv, HomeInv
  <2>3. NoOrphanFolder'
    BY <2>1 DEF FolderInv, NoOrphanFolder
  <2>4. QED
    BY <2>2, <2>3 DEF FolderInv
<1>9. ASSUME UNCHANGED <<job, rows, machine, home, folders, removing, kept>> PROVE FolderInv'
  BY <1>9 DEF FolderInv, HomeInv, NoOrphanFolder
<1>10. ASSUME NEW l \in Limits, UpdateUserPlan(l) PROVE FolderInv'
  BY <1>9, <1>10 DEF UpdateUserPlan, history
<1>11. CASE ServerCrash
  <2>1. /\ \A w \in Workers : job'[w].con = None
        /\ UNCHANGED <<rows, machine, home, folders>>
    BY <1>11, Idle DEF ServerCrash
  <2>2. /\ kept \subseteq kept'
        /\ \A w \in Workers : job[w].pc \in WithFolder => job[w].folder \in kept'
        /\ \A c \in Containers : removing[c] # "no" => home[c] \in kept'
    BY <1>11 DEF ServerCrash, Keep
  <2>3. HomeInv'
    BY <2>1 DEF FolderInv, HomeInv
  <2>4. NoOrphanFolder'
    BY <2>1, <2>2 DEF FolderInv, NoOrphanFolder
  <2>5. QED
    BY <2>3, <2>4 DEF FolderInv
<1>12. CASE UNCHANGED vars
  BY <1>9, <1>12 DEF vars, history
<1>13. QED
  BY <1>1, <1>2, <1>3, <1>4, <1>5, <1>6, <1>7, <1>8, <1>10, <1>11, <1>12 DEF Next

-----------------------------------------------------------------------------
\* The quota.

AdmittedJobs == {w \in Workers : job[w].pc \in Admitted}

\* The sets that are counted are finite.
LEMMA Counted ==
    ASSUME TypeInv
    PROVE  /\ IsFiniteSet(rows) /\ Cardinality(rows) \in Nat
           /\ IsFiniteSet(AdmittedJobs) /\ Cardinality(AdmittedJobs) \in Nat
           /\ Cardinality(AdmittedJobs) <= Cardinality(Workers)
           /\ Cardinality(Workers) \in Nat
<1>1. rows \subseteq Containers /\ AdmittedJobs \subseteq Workers
  BY DEF TypeInv, TypeOK, AdmittedJobs
<1>2. IsFiniteSet(Containers) /\ IsFiniteSet(Workers)
  BY ProvisioningAssumption
<1>3. IsFiniteSet(rows) /\ IsFiniteSet(AdmittedJobs)
      /\ Cardinality(AdmittedJobs) <= Cardinality(Workers)
  BY <1>1, <1>2, FS_Subset
<1>4. QED
  BY <1>2, <1>3, FS_CardinalityType

\* A step that admits no create and adds no row.
LEMMA QuietQuota ==
    ASSUME TypeInv, TypeInv', QuotaOvershoot, rows' \subseteq rows,
           AdmittedJobs' \subseteq AdmittedJobs
    PROVE  QuotaOvershoot'
<1>1. /\ Cardinality(rows') <= Cardinality(rows)
      /\ Cardinality(AdmittedJobs') <= Cardinality(AdmittedJobs)
  BY Counted, FS_Subset
<1>2. /\ Cardinality(rows) \in Nat /\ Cardinality(AdmittedJobs) \in Nat
      /\ Cardinality(rows') \in Nat /\ Cardinality(AdmittedJobs') \in Nat
      /\ Cardinality(Workers) \in Nat
  <2>1. Cardinality(rows') \in Nat /\ Cardinality(AdmittedJobs') \in Nat
    BY Counted, FS_Subset, FS_CardinalityType
  <2>2. QED
    BY <2>1, Counted
<1>3. MaxLimit \in Nat
  BY ProvisioningAssumption
<1>4. Cardinality(rows) + Cardinality(AdmittedJobs) < MaxLimit + Cardinality(Workers)
  BY DEF QuotaOvershoot, AdmittedJobs
<1>5. Cardinality(rows') + Cardinality(AdmittedJobs') < MaxLimit + Cardinality(Workers)
  BY <1>1, <1>2, <1>3, <1>4
<1>6. QED
  BY <1>5 DEF QuotaOvershoot, AdmittedJobs

\* A create that is admitted found fewer rows than the plan allows.
LEMMA CheckQuota ==
    ASSUME TypeInv, TypeInv', QuotaOvershoot, NEW w \in Workers, CheckPlan(w)
    PROVE  QuotaOvershoot'
<1>1. rows' = rows
  BY DEF CheckPlan
<1>2. CASE user /\ HasRoom
  <2>1. Cardinality(rows) < MaxLimit
    <3>1. Cardinality(rows) < limit /\ limit \in 1..MaxLimit /\ MaxLimit \in Nat
      BY <1>2, ProvisioningAssumption DEF HasRoom, TypeInv, TypeOK
    <3>2. QED
      BY <3>1, Counted
  <2>2. /\ AdmittedJobs' \subseteq Workers /\ IsFiniteSet(Workers)
    BY ProvisioningAssumption DEF AdmittedJobs
  <2>3. /\ Cardinality(AdmittedJobs') <= Cardinality(Workers)
        /\ Cardinality(AdmittedJobs') \in Nat
    BY <2>2, FS_Subset, FS_CardinalityType
  <2>4. /\ Cardinality(rows) \in Nat /\ Cardinality(Workers) \in Nat /\ MaxLimit \in Nat
    BY Counted, ProvisioningAssumption
  <2>5. Cardinality(rows) + Cardinality(AdmittedJobs') < MaxLimit + Cardinality(Workers)
    BY <2>1, <2>3, <2>4
  <2>6. QED
    BY <1>1, <2>5 DEF QuotaOvershoot, AdmittedJobs
<1>3. CASE ~(user /\ HasRoom)
  <2>1. Effect(w, "idle", None, None)
    BY <1>3, ReturnEffect DEF CheckPlan
  <2>2. AdmittedJobs' \subseteq AdmittedJobs
    BY <2>1 DEF AdmittedJobs, Effect, Admitted
  <2>3. QED
    BY <1>1, <2>2, QuietQuota
<1>4. QED
  BY <1>2, <1>3

\* A commit, whatever it reports, turns an admitted create into a row.
LEMMA CommitQuota ==
    ASSUME TypeInv, TypeInv', QuotaOvershoot, NEW w \in Workers,
           Commit(w) \/ LateCommit(w)
    PROVE  QuotaOvershoot'
<1>1. rows' = rows \cup {job[w].con} /\ job[w].pc = "commit"
  BY DEF Commit, LateCommit, At
<1>2. PICK pc, con, folder : /\ pc \in {"idle", "undoContainer"}
                             /\ Effect(w, pc, con, folder)
  <2>1. CASE Commit(w)
    BY <2>1, ReturnEffect DEF Commit
  <2>2. CASE LateCommit(w)
    BY <1>1, <2>2, ErrorEffect DEF LateCommit, Admitted
  <2>3. QED
    BY <2>1, <2>2
<1>3. AdmittedJobs' \subseteq AdmittedJobs \ {w} /\ w \in AdmittedJobs
  BY <1>1, <1>2 DEF AdmittedJobs, Effect, Admitted
<1>4. /\ IsFiniteSet(AdmittedJobs \ {w})
      /\ Cardinality(AdmittedJobs \ {w}) = Cardinality(AdmittedJobs) - 1
  BY <1>3, Counted, FS_RemoveElement
<1>5. /\ Cardinality(AdmittedJobs') <= Cardinality(AdmittedJobs) - 1
      /\ Cardinality(AdmittedJobs') \in Nat
  BY <1>3, <1>4, FS_Subset, FS_CardinalityType
<1>6. /\ Cardinality(rows') <= Cardinality(rows) + 1 /\ Cardinality(rows') \in Nat
  <2>1. IsFiniteSet(rows') /\ (rows' = rows \/ Cardinality(rows') = Cardinality(rows) + 1)
    BY <1>1, Counted, FS_AddElement
  <2>2. QED
    BY <2>1, Counted, FS_CardinalityType
<1>7. /\ Cardinality(rows) \in Nat /\ Cardinality(AdmittedJobs) \in Nat
      /\ Cardinality(Workers) \in Nat /\ MaxLimit \in Nat
  BY Counted, ProvisioningAssumption
<1>8. Cardinality(rows) + Cardinality(AdmittedJobs) < MaxLimit + Cardinality(Workers)
  BY DEF QuotaOvershoot, AdmittedJobs
<1>9. Cardinality(rows') + Cardinality(AdmittedJobs') < MaxLimit + Cardinality(Workers)
  BY <1>5, <1>6, <1>7, <1>8
<1>10. QED
  BY <1>9 DEF QuotaOvershoot, AdmittedJobs

\* The other steps of a create admit nobody.
LEMMA AdmitsNobody ==
    ASSUME NEW w \in Workers, NEW pc, NEW con, NEW folder, Effect(w, pc, con, folder),
           pc \in Admitted => job[w].pc \in Admitted
    PROVE  AdmittedJobs' \subseteq AdmittedJobs
BY DEF AdmittedJobs, Effect

LEMMA QuotaNext == TypeInv /\ TypeInv' /\ QuotaOvershoot /\ [Next]_vars => QuotaOvershoot'
<1> SUFFICES ASSUME TypeInv, TypeInv', QuotaOvershoot, [Next]_vars PROVE QuotaOvershoot'
  OBVIOUS
<1>1. ASSUME NEW w \in Workers, NEW kind \in Kinds, NEW f \in Folders,
             BeginCreate(w, kind, f)
      PROVE  QuotaOvershoot'
  <2>1. AdmittedJobs' \subseteq AdmittedJobs
    BY <1>1, BeginEffect DEF AdmittedJobs, Effect, Admitted
  <2>2. QED
    BY <1>1, <2>1, QuietQuota DEF BeginCreate
<1>2. ASSUME NEW w \in Workers, WorkerStep(w) PROVE QuotaOvershoot'
  <2>1. CASE CheckPlan(w)
    BY <2>1, CheckQuota
  <2>2. CASE Commit(w) \/ LateCommit(w)
    BY <2>2, CommitQuota
  <2>3. CASE ~CheckPlan(w) /\ ~Commit(w) /\ ~LateCommit(w)
    <3>1. rows' = rows
      BY <1>2, <2>3 DEF WorkerStep, Prepare, ContainerCreate, ContainerStart, InsertRow,
                        CreateFails, LateCreate, LateStart, UndoContainer, UndoFolder,
                        ContextEnds
    <3>2. CASE Prepare(w) \/ ContainerStart(w) \/ InsertRow(w) \/ UndoContainer(w)
      <4>1. PICK pc \in {"create", "insert", "commit", "undoFolder"} :
                Goto(w, pc) /\ (pc \in Admitted => job[w].pc \in Admitted)
        BY <3>2 DEF Prepare, ContainerStart, InsertRow, UndoContainer, At, Admitted
      <4>2. AdmittedJobs' \subseteq AdmittedJobs
        BY <4>1 DEF Goto, AdmittedJobs, TypeInv, TypeOK, Job
      <4>3. QED
        BY <3>1, <4>2, QuietQuota
    <3>3. CASE \E c \in Containers : ContainerCreate(w, c)
      <4>1. PICK c \in Containers : ContainerCreate(w, c)
        BY <3>3
      <4>2. Effect(w, "start", c, job[w].folder) /\ job[w].pc \in Admitted
        BY <4>1, CreateEffect DEF ContainerCreate, At, Admitted
      <4>3. QED
        BY <3>1, <4>2, AdmitsNobody, QuietQuota
    <3>4. CASE CreateFails(w) \/ LateStart(w) \/ \E c \in Containers : LateCreate(w, c)
      <4>1. PICK pc, con, folder : /\ pc \in {"idle", "undoFolder", "undoContainer"}
                                   /\ Effect(w, pc, con, folder)
        <5>1. job[w].pc \in {"count"} \cup Admitted /\ TakeErrorPath(w)
          BY <3>4 DEF CreateFails, LateStart, LateCreate, At, Admitted
        <5>2. QED
          BY <5>1, ErrorEffect
      <4>2. AdmittedJobs' \subseteq AdmittedJobs
        BY <4>1, AdmitsNobody DEF Admitted
      <4>3. QED
        BY <3>1, <4>2, QuietQuota
    <3>5. CASE UndoFolder(w)
      <4>1. Effect(w, "idle", None, None)
        BY <3>5, ReturnEffect DEF UndoFolder
      <4>2. AdmittedJobs' \subseteq AdmittedJobs
        BY <4>1, AdmitsNobody DEF Admitted
      <4>3. QED
        BY <3>1, <4>2, QuietQuota
    <3>6. CASE ContextEnds(w)
      BY <3>1, <3>6, ContextEffect, AdmitsNobody, QuietQuota
    <3>7. QED
      BY <1>2, <2>3, <3>2, <3>3, <3>4, <3>5, <3>6 DEF WorkerStep
  <2>4. QED
    BY <2>1, <2>2, <2>3
<1>3. ASSUME job' = job, rows' \subseteq rows PROVE QuotaOvershoot'
  BY <1>3, QuietQuota DEF AdmittedJobs
<1>4. ASSUME NEW c \in Containers, NEW drop \in BOOLEAN, RemoveRow(c, drop)
      PROVE  QuotaOvershoot'
  BY <1>3, <1>4 DEF RemoveRow
<1>5. ASSUME NEW c \in Containers,
             ContainerExits(c) \/ LateRemoveRow(c) \/ RemoveMachine(c) \/ RemoveFolder(c)
      PROVE  QuotaOvershoot'
  BY <1>3, <1>5 DEF ContainerExits, LateRemoveRow, RemoveMachine, RemoveFolder
<1>6. CASE DeleteUser
  BY <1>3, <1>6 DEF DeleteUser
<1>7. ASSUME NEW l \in Limits, UpdateUserPlan(l) PROVE QuotaOvershoot'
  BY <1>3, <1>7 DEF UpdateUserPlan
<1>8. CASE ServerCrash
  <2>1. rows' = rows /\ AdmittedJobs' \subseteq AdmittedJobs
    BY <1>8, Idle DEF ServerCrash, AdmittedJobs, Admitted
  <2>2. QED
    BY <2>1, QuietQuota
<1>9. CASE UNCHANGED vars
  BY <1>3, <1>9 DEF vars
<1>10. QED
  BY <1>1, <1>2, <1>4, <1>5, <1>6, <1>7, <1>8, <1>9 DEF Next

-----------------------------------------------------------------------------
\* The theorems.

LEMMA InitPInv == Init => PInv
<1> SUFFICES ASSUME Init PROVE PInv
  OBVIOUS
<1>1. TypeInv
  BY TypeInit
<1>2. \A w \in Workers : job[w].pc = "idle" /\ job[w].con = None /\ job[w].folder = None
  BY Idle DEF Init
<1>3. ContainerInv
  BY <1>2 DEF Init, ContainerInv, JobInv, Progress, DistinctInv, FreshInv, Untouched,
              RemovingInv, RowIsReal, NoOrphan, Making
<1>4. FolderInv
  BY <1>2, ProvisioningAssumption DEF Init, FolderInv, HomeInv, NoOrphanFolder
<1>5. QuotaOvershoot
  <2>1. {w \in Workers : job[w].pc \in Admitted} = {} /\ rows = {}
    BY <1>2 DEF Init, Admitted
  <2>2. limit \in 1..MaxLimit /\ MaxLimit \in Nat
    BY ProvisioningAssumption DEF Init
  <2>3. Cardinality(Workers) \in Nat /\ Cardinality({}) = 0
    BY ProvisioningAssumption, FS_CardinalityType, FS_EmptySet
  <2>4. Cardinality({}) + Cardinality({}) < MaxLimit + Cardinality(Workers)
    BY <2>2, <2>3
  <2>5. QED
    BY <2>1, <2>4 DEF QuotaOvershoot
<1>6. QED
  BY <1>1, <1>3, <1>4, <1>5 DEF PInv

LEMMA NextPInv == PInv /\ [Next]_vars => PInv'
BY TypeNext, ContainerNext, FolderNext, QuotaNext DEF PInv, ContainerInv, FolderInv

\* Every behaviour of Provisioning satisfies the invariant.
THEOREM ProvisioningInvariant == Spec => []PInv
BY InitPInv, NextPInv, PTL DEF Spec

\* Types, the values a create is given by its earlier steps among them.
THEOREM ProvisioningTypeCorrect == Spec => []TypeOK
<1>1. PInv => TypeOK
  BY DEF PInv, TypeInv
<1>2. QED
  BY <1>1, ProvisioningInvariant, PTL

\* However many creates, removals, deletions, exits and crashes interleave, and
\* whichever calls fail with or without an effect, Docker keeps no container that
\* nobody knows of: the deferred cleanup of CreateContainer and the removal after
\* the commit of RemoveContainer miss no path other than the ones excused names.
THEOREM ContainersAreKnown == Spec => []NoOrphan
<1>1. PInv => NoOrphan
  BY DEF PInv, ContainerInv
<1>2. QED
  BY <1>1, ProvisioningInvariant, PTL

\* A committed row names a container that was started and exists, its process
\* running or ended, and that no failing create and no removal is about to take
\* away, unless CreateContainer was told that the row's own COMMIT had failed.
THEOREM RowsAreReal == Spec => []RowIsReal
<1>1. PInv => RowIsReal
  BY DEF PInv, ContainerInv
<1>2. QED
  BY <1>1, ProvisioningInvariant, PTL

\* No error path of the two create methods and of RemoveContainer, other than
\* the ones kept names, leaves a folder on the disk that nobody has any more,
\* whether or not creates share a folder.
THEOREM FoldersAreKnown == Spec => []NoOrphanFolder
<1>1. PInv => NoOrphanFolder
  BY DEF PInv, FolderInv
<1>2. QED
  BY <1>1, ProvisioningInvariant, PTL

\* The check of the plan outside a lock lets the account exceed the plan by at
\* most the creates that run at one time, less one.
THEOREM QuotaBounded == Spec => []QuotaOvershoot
<1>1. PInv => QuotaOvershoot
  BY DEF PInv
<1>2. QED
  BY <1>1, ProvisioningInvariant, PTL
=============================================================================
