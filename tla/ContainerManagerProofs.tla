----------------------- MODULE ContainerManagerProofs -----------------------
(***************************************************************************)
(* Proofs about ContainerManager: its type invariant, the three safety     *)
(* invariants StatusAgrees, RowHasContainer and NoUntracked, and that it   *)
(* implements ContainerContract, for any number of containers and          *)
(* concurrent requests and any bounds.                                     *)
(***************************************************************************)
EXTENDS ContainerManager, TLAPS

-----------------------------------------------------------------------------
\* The inductive invariant.

\* A call that is under way is about a container, and the pcs of Start and Stop
\* are not those of Remove.
CallInv ==
    \A a \in Actors :
        /\ call[a].pc # "idle" => call[a].id \in Containers
        /\ call[a].pc \in {"update", "docker", "commit", "reset"}
              => call[a].op \in {"start", "stop"}

\* The lock of a row belongs to the one call that has written it.
LockInv ==
    \A c \in Containers, a \in Actors :
        lock[c] = a <=> (call[a].id = c /\ call[a].pc \in Writing)

\* A locked row is there; a container that is being cleaned up has none.
PresenceInv ==
    /\ \A c \in Containers : lock[c] # None => row[c].present
    /\ \A a \in Actors : call[a].pc \in Cleaning => ~row[call[a].id].present

\* StatusAgrees inside a transaction: Docker has followed the uncommitted status
\* once its call was made, and the committed one until then.
AgreeInv ==
    \A c \in Containers :
        (row[c].present /\ ~slipped[c]) => Agrees(Pending(c), docker[c])

TypeInv == TypeOK /\ CallInv

\* The part of the invariant that holds as well when crash recovery writes the
\* rows and restarts the containers.
SafeInv ==
    /\ TypeInv
    /\ LockInv
    /\ PresenceInv
    /\ RowHasContainer
    /\ NoUntracked

IInv == SafeInv /\ AgreeInv

\* What a step of the manager does with the two parts.
Kept == SafeInv' /\ (AgreeInv => AgreeInv')

-----------------------------------------------------------------------------
\* What the Docker calls do to the daemon's state.

\* Every event the daemon can send extends the stream to a stream.
LEMMA EmitType ==
    ASSUME DockerTypeOK, NEW es \in Seq([type : EventTypes, id : Containers]),
           Emit(es)
    PROVE  events' \in Seq([type : EventTypes, id : Containers])
  BY DEF DockerTypeOK, Emit

\* ContainerStop leaves c stopped or as absent as it was, and nothing else.
LEMMA StopEffect ==
    ASSUME DockerTypeOK, NEW c \in Containers, ContainerStop(c)
    PROVE  /\ docker' \in [Containers -> DockerStates]
           /\ events' \in Seq([type : EventTypes, id : Containers])
           /\ docker'[c] # "running"
           /\ docker[c] # "absent" <=> docker'[c] # "absent"
           /\ \A d \in Containers : d # c => docker'[d] = docker[d]
  <1>1. CASE docker[c] = "running"
    <2>1. PICK t \in DieEvents : Emit(<<Event(t, c)>>)
      BY <1>1 DEF ContainerStop
    <2>2. <<Event(t, c)>> \in Seq([type : EventTypes, id : Containers])
      BY DEF Event, EventTypes
    <2>3. events' \in Seq([type : EventTypes, id : Containers])
      BY <2>1, <2>2, EmitType
    <2>4. QED
      BY <1>1, <2>3 DEF ContainerStop, DockerTypeOK, DockerStates
  <1>2. CASE docker[c] # "running"
    BY <1>2 DEF ContainerStop, DockerTypeOK, DockerStates
  <1>3. QED
    BY <1>1, <1>2

\* ContainerStart leaves c running, and nothing else changes.
LEMMA StartEffect ==
    ASSUME DockerTypeOK, NEW c \in Containers, ContainerStart(c)
    PROVE  /\ docker' \in [Containers -> DockerStates]
           /\ events' \in Seq([type : EventTypes, id : Containers])
           /\ docker'[c] = "running"
           /\ \A d \in Containers : d # c => docker'[d] = docker[d]
  BY DEF ContainerStart, DockerTypeOK, DockerStates

\* ContainerRemove leaves c absent, and nothing else changes.
LEMMA RemoveEffect ==
    ASSUME DockerTypeOK, NEW c \in Containers, ContainerRemove(c)
    PROVE  /\ docker' \in [Containers -> DockerStates]
           /\ events' \in Seq([type : EventTypes, id : Containers])
           /\ docker'[c] = "absent"
           /\ \A d \in Containers : d # c => docker'[d] = docker[d]
  <1>a. Event("crash", c) \in [type : EventTypes, id : Containers]
    BY DEF Event, EventTypes, DieEvents
  <1>b. <<Event("crash", c)>> \in Seq([type : EventTypes, id : Containers])
    BY <1>a
  <1>1. (IF docker[c] = "running" THEN <<Event("crash", c)>> ELSE <<>>)
            \in Seq([type : EventTypes, id : Containers])
    <2>1. <<>> \in Seq([type : EventTypes, id : Containers])
      OBVIOUS
    <2>2. CASE docker[c] = "running"
      BY <1>b, <2>2
    <2>3. CASE docker[c] # "running"
      BY <2>1, <2>3
    <2> QED
      BY <2>2, <2>3
  <1>2. events' \in Seq([type : EventTypes, id : Containers])
    BY <1>1, EmitType DEF ContainerRemove
  <1>3. QED
    BY <1>2 DEF ContainerRemove, DockerTypeOK, DockerStates

\* The end of its process leaves c exited, and nothing else changes.
LEMMA ExitEffect ==
    ASSUME DockerTypeOK, NEW c \in Containers, ProcessExit(c)
    PROVE  /\ docker' \in [Containers -> DockerStates]
           /\ events' \in Seq([type : EventTypes, id : Containers])
           /\ docker'[c] = "exited"
           /\ \A d \in Containers : d # c => docker'[d] = docker[d]
  <1>1. PICK es \in {<<Event("clean", c)>>, <<Event("crash", c)>>,
                     <<Event("oom", c), Event("crash", c)>>} : Emit(es)
    BY DEF ProcessExit
  <1>2. /\ Event("clean", c) \in [type : EventTypes, id : Containers]
        /\ Event("crash", c) \in [type : EventTypes, id : Containers]
        /\ Event("oom", c) \in [type : EventTypes, id : Containers]
    BY DEF Event, EventTypes, DieEvents
  <1>3. es \in Seq([type : EventTypes, id : Containers])
    <2> DEFINE S == [type : EventTypes, id : Containers]
    <2>1. <<Event("clean", c)>> \in Seq(S)
      BY <1>2
    <2>2. <<Event("crash", c)>> \in Seq(S)
      BY <1>2
    <2>3. <<Event("oom", c), Event("crash", c)>> \in Seq(S)
      BY <1>2
    <2> QED
      BY <1>1, <2>1, <2>2, <2>3
  <1>4. events' \in Seq([type : EventTypes, id : Containers])
    BY <1>1, <1>3, EmitType
  <1>5. QED
    BY <1>4 DEF ProcessExit, DockerTypeOK, DockerStates

-----------------------------------------------------------------------------
\* Initially.

\* The state after NewContainerManager, with every container running and
\* listed, satisfies the invariant.
LEMMA InitIInv == ManagerInit => IInv
  <1> SUFFICES ASSUME ManagerInit PROVE IInv
    OBVIOUS
  <1> USE DEF ManagerInit, DockerInit, NoCall, NewRow
  <1>1. TypeOK
    <2>1. NewRow \in Row
      BY DEF Row, Statuses
    <2>2. NoCall \in Call
      BY DEF Call, PCs, Operations
    <2>3. DockerTypeOK
      <3>1. events \in Seq([type : EventTypes, id : Containers])
        OBVIOUS
      <3>2. docker \in [Containers -> DockerStates]
        BY DEF DockerStates
      <3> QED
        BY <3>1, <3>2 DEF DockerTypeOK
    <2>4. row \in [Containers -> Row] /\ call \in [Actors -> Call]
      BY <2>1, <2>2
    <2> QED
      BY <2>3, <2>4 DEF TypeOK
  <1>2. CallInv /\ LockInv
    BY ManagerAssumption DEF CallInv, LockInv, Writing, Actors
  <1>3. PresenceInv /\ AgreeInv
    BY DEF PresenceInv, AgreeInv, Pending, Agrees, Cleaning
  <1>4. RowHasContainer /\ NoUntracked
    BY DEF RowHasContainer, NoUntracked
  <1> QED
    BY <1>1, <1>2, <1>3, <1>4 DEF IInv, SafeInv, TypeInv

-----------------------------------------------------------------------------
\* Types.  These lemmas use nothing but the types, so that they hold as well when
\* other components write the rows.

\* The program counter and the locals of an idle actor are of their type.
LEMMA CallTypes == NoCall \in Call
  BY DEF NoCall, Call, PCs, Operations

\* Reading the row (GetContainerByID) keeps the types.
LEMMA BeginTypes ==
    ASSUME TypeInv, NEW a \in Actors, NEW op \in Operations, NEW c \in Containers,
           Begin(a, op, c)
    PROVE  call' \in [Actors -> Call] /\ CallInv'
  <1>1. call' \in [Actors -> Call]
    BY DEF TypeInv, TypeOK, Begin, Call, PCs, Row
  <1>2. CallInv'
    BY DEF TypeInv, TypeOK, CallInv, Begin, Call, Operations
  <1> QED
    BY <1>1, <1>2

\* An actor that moves on or returns keeps the types of the calls.
LEMMA MoveTypes ==
    ASSUME TypeInv, NEW a \in Actors, NEW next \in PCs, call[a].pc # "idle",
           next \in {"docker", "commit", "reset"}
              => call[a].pc \in {"update", "docker", "commit", "reset"},
           next # "update",
           Goto(a, next) \/ Return(a)
    PROVE  call' \in [Actors -> Call] /\ CallInv'
  <1>1. CASE Goto(a, next)
    <2>1. call' \in [Actors -> Call]
      BY <1>1 DEF TypeInv, TypeOK, Goto, Call
    <2>2. /\ \A b \in Actors : b # a => call'[b] = call[b]
          /\ call'[a].pc = next /\ call'[a].id = call[a].id
          /\ call'[a].op = call[a].op
      BY <1>1 DEF TypeInv, TypeOK, Goto, Call
    <2> QED
      BY <2>1, <2>2 DEF TypeInv, CallInv
  <1>2. CASE Return(a)
    <2>1. /\ \A b \in Actors : b # a => call'[b] = call[b]
          /\ call'[a].pc = "idle"
      BY <1>2 DEF TypeInv, TypeOK, Return, NoCall
    <2> QED
      BY <1>2, <2>1, CallTypes DEF TypeInv, TypeOK, CallInv, Return
  <1> QED
    BY <1>1, <1>2

\* UpdateContainer and DeleteContainer, with the row's lock or without a row,
\* keep the types.
LEMMA WriteRowTypes ==
    ASSUME TypeInv, NEW a \in Actors, UpdateContainer(a) \/ DeleteContainer(a)
    PROVE  TypeInv'
  <1>1. call' \in [Actors -> Call] /\ CallInv'
    <2>1. CASE UpdateContainer(a)
      <3>1. call[a].pc = "update" /\ (Goto(a, "docker") \/ Return(a))
        BY <2>1 DEF UpdateContainer, WriteRow, At
      <3> QED
        BY <3>1, MoveTypes DEF PCs
    <2>2. CASE DeleteContainer(a)
      <3>1. call[a].pc = "delete" /\ (Goto(a, "commitDelete") \/ Return(a))
        BY <2>2 DEF DeleteContainer, WriteRow, At
      <3> QED
        BY <3>1, MoveTypes DEF PCs
    <2> QED
      BY <2>1, <2>2
  <1>2. lock' \in [Containers -> Actors \cup {None}]
    BY DEF TypeInv, TypeOK, UpdateContainer, DeleteContainer, WriteRow
  <1>3. UNCHANGED <<dockerVars, row, expired, now, slipped, loose, faults, crashes>>
    BY DEF UpdateContainer, DeleteContainer, WriteRow
  <1> QED
    BY <1>1, <1>2, <1>3 DEF TypeInv, TypeOK, DockerTypeOK, dockerVars, loose

\* The Docker call of Start and Stop keeps the types.
LEMMA DockerCallTypes ==
    ASSUME TypeInv, NEW a \in Actors, DockerCall(a)
    PROVE  TypeInv'
  <1>1. call' \in [Actors -> Call] /\ CallInv'
    BY MoveTypes DEF DockerCall, At, PCs
  <1>2. /\ docker' \in [Containers -> DockerStates]
        /\ events' \in Seq([type : EventTypes, id : Containers])
    <2>1. call[a].id \in Containers /\ DockerTypeOK
      BY DEF TypeInv, TypeOK, CallInv, DockerCall, At
    <2>2. ContainerStart(call[a].id) \/ ContainerStop(call[a].id)
      BY DEF DockerCall
    <2> QED
      BY <2>1, <2>2, StartEffect, StopEffect
  <1>3. slipped' \in [Containers -> BOOLEAN]
    BY DEF DockerCall, TypeInv, TypeOK
  <1>4. UNCHANGED <<connected, row, lock, expired, now, loose, faults, crashes>>
    BY DEF DockerCall
  <1> QED
    BY <1>1, <1>2, <1>3, <1>4 DEF TypeInv, TypeOK, DockerTypeOK, loose

\* The commit of Start and Stop keeps the types.
LEMMA CommitTypes ==
    ASSUME TypeInv, NEW a \in Actors, Commit(a)
    PROVE  TypeInv'
  <1>1. call' \in [Actors -> Call] /\ CallInv'
    <2>1. call[a].pc = "commit" /\ (Goto(a, "reset") \/ Return(a))
      BY DEF Commit, At
    <2> QED
      BY <2>1, MoveTypes DEF PCs
  <1>2. row' \in [Containers -> Row]
    <2>1. NewStatus(call[a].op) \in Statuses /\ call[a].startedAt \in Nat
      BY DEF TypeInv, TypeOK, NewStatus, Statuses, Call
    <2>2. row' = [row EXCEPT ![call[a].id] =
                     [@ EXCEPT !.status = NewStatus(call[a].op),
                               !.startedAt = call[a].startedAt]]
      BY DEF Commit, WriteBack
    <2> QED
      BY <2>1, <2>2 DEF TypeInv, TypeOK, Row
  <1>3. lock' \in [Containers -> Actors \cup {None}]
    BY DEF Commit, TypeInv, TypeOK
  <1>4. UNCHANGED <<dockerVars, expired, now, slipped, loose, faults, crashes>>
    BY DEF Commit
  <1> QED
    BY <1>1, <1>2, <1>3, <1>4 DEF TypeInv, TypeOK, DockerTypeOK, dockerVars, loose

\* The UPDATE that follows the commit of StartContainer keeps the types.
LEMMA ResetHealthTypes ==
    ASSUME TypeInv, NEW a \in Actors, ResetHealth(a)
    PROVE  TypeInv'
  <1>1. call' \in [Actors -> Call] /\ CallInv'
    <2>1. call[a].pc = "reset" /\ Return(a)
      BY DEF ResetHealth, At
    <2> QED
      BY <2>1, MoveTypes DEF PCs
  <1>2. row' \in [Containers -> Row]
    <2>1. PICK c \in Containers : call[a].id = c
      BY DEF TypeInv, CallInv, ResetHealth, At
    <2> DEFINE new == [row[c] EXCEPT !.health = "none", !.oomKilled = FALSE,
                                     !.circuitOpen = FALSE]
    <2>2. new \in Row
      BY DEF TypeInv, TypeOK, Row
    <2>3. row' = row \/ row' = [row EXCEPT ![c] = new]
      BY <2>1 DEF ResetHealth
    <2> HIDE DEF new
    <2> QED
      BY <2>2, <2>3 DEF TypeInv, TypeOK
  <1>3. UNCHANGED <<dockerVars, lock, expired, now, slipped, loose, faults, crashes>>
    BY DEF ResetHealth
  <1> QED
    BY <1>1, <1>2, <1>3 DEF TypeInv, TypeOK, DockerTypeOK, dockerVars, loose

\* The commit of RemoveContainer keeps the types.
LEMMA CommitDeleteTypes ==
    ASSUME TypeInv, NEW a \in Actors, CommitDelete(a)
    PROVE  TypeInv'
  <1>1. call' \in [Actors -> Call] /\ CallInv'
    <2>1. call[a].pc = "commitDelete" /\ Goto(a, "cleanupStop")
      BY DEF CommitDelete, At
    <2> QED
      BY <2>1, MoveTypes DEF PCs
  <1>2. /\ row' \in [Containers -> Row]
        /\ lock' \in [Containers -> Actors \cup {None}]
    BY DEF CommitDelete, TypeInv, TypeOK, Row
  <1>3. UNCHANGED <<dockerVars, expired, now, slipped, loose, faults, crashes>>
    BY DEF CommitDelete
  <1> QED
    BY <1>1, <1>2, <1>3 DEF TypeInv, TypeOK, DockerTypeOK, dockerVars, loose

\* RemoveContainer's calls after the commit, failing or not, keep the types.
LEMMA CleanupTypes ==
    ASSUME TypeInv, NEW a \in Actors,
           \/ CleanupStop(a) \/ CleanupStopFails(a)
           \/ CleanupRemove(a) \/ CleanupRemoveFails(a)
    PROVE  TypeInv'
  <1>1. call[a].id \in Containers /\ DockerTypeOK
    BY DEF TypeInv, TypeOK, CallInv, CleanupStop, CleanupStopFails,
           CleanupRemove, CleanupRemoveFails, At
  <1>2. call' \in [Actors -> Call] /\ CallInv'
    <2>1. /\ call[a].pc \in Cleaning
          /\ Goto(a, "cleanupRemove") \/ Return(a)
      BY DEF CleanupStop, CleanupStopFails, CleanupRemove, CleanupRemoveFails,
             At, Cleaning
    <2> QED
      BY <2>1, MoveTypes DEF PCs, Cleaning
  <1>3. /\ docker' \in [Containers -> DockerStates]
        /\ events' \in Seq([type : EventTypes, id : Containers])
    <2>1. \/ ContainerStop(call[a].id)
          \/ ContainerRemove(call[a].id)
          \/ UNCHANGED <<docker, events>>
      BY DEF CleanupStop, CleanupStopFails, CleanupRemove, CleanupRemoveFails,
             dockerVars
    <2> QED
      BY <1>1, <2>1, StopEffect, RemoveEffect DEF DockerTypeOK
  <1>4. orphans' \subseteq Containers /\ faults' \in Nat
    <2>1. /\ orphans' = orphans \/ orphans' = orphans \cup {call[a].id}
          /\ faults' = faults \/ Fault
      BY DEF CleanupStop, CleanupStopFails, CleanupRemove, CleanupRemoveFails,
             loose
    <2>2. faults' \in Nat
      BY <2>1 DEF Fault, TypeInv, TypeOK
    <2>3. orphans' \subseteq Containers
      BY <1>1, <2>1 DEF TypeInv, TypeOK
    <2> QED
      BY <2>2, <2>3
  <1>5. UNCHANGED <<connected, row, lock, expired, now, late, slipped, crashes>>
    BY DEF CleanupStop, CleanupStopFails, CleanupRemove, CleanupRemoveFails,
           dockerVars, loose
  <1> QED
    BY <1>2, <1>3, <1>4, <1>5 DEF TypeInv, TypeOK, DockerTypeOK

\* A failing step with its deferred rollback, an unanswered Docker call and a
\* COMMIT that took effect all the same keep the types.
LEMMA RollbackTypes ==
    ASSUME TypeInv, NEW a \in Actors,
           Abort(a) \/ DockerCallGivenUp(a) \/ LateCommit(a)
    PROVE  TypeInv'
  <1>1. call[a].id \in Containers /\ DockerTypeOK
    BY DEF TypeInv, TypeOK, CallInv, Abort, DockerCallGivenUp, LateCommit, At,
           Writing
  <1>2. call' \in [Actors -> Call] /\ CallInv'
    <2>1. call[a].pc # "idle" /\ Return(a)
      BY DEF Abort, DockerCallGivenUp, LateCommit, At, Writing
    <2> QED
      BY <2>1, MoveTypes DEF PCs
  <1>3. UNCHANGED <<dockerVars, expired, now, crashes>>
    BY DEF Abort, DockerCallGivenUp, LateCommit
  <1>4. slipped' \in [Containers -> BOOLEAN] /\ faults' \in Nat
    <2>1. (slipped' = slipped \/ Slip(call[a].id)) /\ Fault
      BY DEF Abort, DockerCallGivenUp, LateCommit
    <2>2. faults' \in Nat
      BY <2>1 DEF Fault, TypeInv, TypeOK
    <2>3. slipped' \in [Containers -> BOOLEAN]
      BY <2>1 DEF Slip, TypeInv, TypeOK
    <2> QED
      BY <2>2, <2>3
  <1>5. lock' \in [Containers -> Actors \cup {None}]
    BY DEF Abort, DockerCallGivenUp, LateCommit, ReleaseLocks, TypeInv, TypeOK
  <1>6. late' \subseteq DockerCalls
    <2>1. CASE DockerCallGivenUp(a)
      <3>1. call[a].op \in {"start", "stop"}
        BY <2>1 DEF DockerCallGivenUp, At, TypeInv, CallInv
      <3>2. [op |-> call[a].op, id |-> call[a].id] \in DockerCalls
        BY <1>1, <3>1 DEF DockerCalls
      <3> QED
        BY <2>1, <3>2 DEF DockerCallGivenUp, TypeInv, TypeOK
    <2>2. CASE Abort(a) \/ LateCommit(a)
      BY <2>2 DEF Abort, LateCommit, loose, TypeInv, TypeOK
    <2> QED
      BY <2>1, <2>2
  <1>7. orphans' \subseteq Containers
    BY <1>1 DEF Abort, DockerCallGivenUp, LateCommit, loose, TypeInv, TypeOK
  <1>8. row' \in [Containers -> Row]
    <2>1. CASE At(a, "commit") /\ WriteBack(a)
      <3>1. NewStatus(call[a].op) \in Statuses /\ call[a].startedAt \in Nat
        BY DEF TypeInv, TypeOK, NewStatus, Statuses, Call
      <3> QED
        BY <2>1, <3>1 DEF WriteBack, TypeInv, TypeOK, Row
    <2>2. CASE row' = [row EXCEPT ![call[a].id].present = FALSE]
      BY <2>2 DEF TypeInv, TypeOK, Row
    <2>3. CASE row' = row
      BY <2>3 DEF TypeInv, TypeOK
    <2> QED
      BY <2>1, <2>2, <2>3 DEF Abort, DockerCallGivenUp, LateCommit
  <1> QED
    BY <1>2, <1>3, <1>4, <1>5, <1>6, <1>7, <1>8
       DEF TypeInv, TypeOK, DockerTypeOK, dockerVars

\* What the daemon carries out late leaves the container as present or absent
\* as it was.
LEMMA LateEffect ==
    ASSUME DockerTypeOK, late \subseteq DockerCalls, NEW e \in late,
           LateDockerEffect(e)
    PROVE  /\ e.id \in Containers /\ e.op \in {"start", "stop"}
           /\ docker' \in [Containers -> DockerStates]
           /\ events' \in Seq([type : EventTypes, id : Containers])
           /\ docker[e.id] = "absent" <=> docker'[e.id] = "absent"
           /\ \A d \in Containers : d # e.id => docker'[d] = docker[d]
  <1>1. e.id \in Containers /\ e.op \in {"start", "stop"}
    BY DEF DockerCalls
  <1>2. CASE docker[e.id] = "absent"
    BY <1>1, <1>2 DEF LateDockerEffect, DockerTypeOK
  <1>3. CASE docker[e.id] # "absent" /\ ContainerStart(e.id)
    BY <1>1, <1>3, StartEffect
  <1>4. CASE docker[e.id] # "absent" /\ ContainerStop(e.id)
    BY <1>1, <1>4, StopEffect
  <1> QED
    BY <1>2, <1>3, <1>4 DEF LateDockerEffect

\* The daemon's late effect keeps the types.
LEMMA LateEffectTypes ==
    ASSUME TypeInv, NEW e \in late, LateDockerEffect(e)
    PROVE  TypeInv'
  <1>1. DockerTypeOK /\ late \subseteq DockerCalls
    BY DEF TypeInv, TypeOK
  <1>2. /\ docker' \in [Containers -> DockerStates]
        /\ events' \in Seq([type : EventTypes, id : Containers])
    BY <1>1, LateEffect
  <1>3. late' \subseteq DockerCalls /\ slipped' \in [Containers -> BOOLEAN]
    BY <1>1 DEF LateDockerEffect, Slip, TypeInv, TypeOK
  <1>4. UNCHANGED <<connected, row, lock, call, expired, now, orphans, faults,
                    crashes>>
    BY DEF LateDockerEffect
  <1> QED
    BY <1>2, <1>3, <1>4 DEF TypeInv, TypeOK, DockerTypeOK, CallInv

\* A crash, after which PostgreSQL has rolled back, keeps the types.
LEMMA ServerCrashTypes ==
    ASSUME TypeInv, ServerCrash
    PROVE  TypeInv'
  <1>1. call' \in [Actors -> Call] /\ CallInv'
    <2>1. call' = [a \in Actors |-> NoCall]
      BY DEF ServerCrash
    <2> QED
      BY <2>1, CallTypes DEF CallInv, NoCall
  <1>2. slipped' \in [Containers -> BOOLEAN]
    <2>1. slipped' = [c \in Containers |-> slipped[c] \/ c \in CallsAt({"commit"})]
      BY DEF ServerCrash
    <2>2. \A c \in Containers : (slipped[c] \/ c \in CallsAt({"commit"})) \in BOOLEAN
      OBVIOUS
    <2> QED
      BY <2>1, <2>2, Zenon
  <1>5. orphans' \subseteq Containers
    <2>1. CallsAt(Cleaning) \subseteq Containers
      BY DEF CallsAt, Cleaning, TypeInv, CallInv
    <2> QED
      BY <2>1 DEF ServerCrash, TypeInv, TypeOK
  <1>6. late' \subseteq DockerCalls
    <2>1. PICK accepted \in SUBSET {a \in Actors : At(a, "docker")} :
             late' = late \cup {[op |-> call[a].op, id |-> call[a].id] : a \in accepted}
      BY DEF ServerCrash
    <2>2. \A a \in accepted : /\ call[a].op \in {"start", "stop"}
                              /\ call[a].id \in Containers
      BY <2>1 DEF At, TypeInv, CallInv
    <2>3. \A a \in accepted : [op |-> call[a].op, id |-> call[a].id] \in DockerCalls
      BY <2>2 DEF DockerCalls
    <2> QED
      BY <2>1, <2>3 DEF TypeInv, TypeOK
  <1>3. DockerTypeOK'
    <2>1. events' = <<>> /\ connected' = FALSE /\ docker' = docker
      BY DEF ServerCrash
    <2>2. events' \in Seq([type : EventTypes, id : Containers])
      BY <2>1
    <2> QED
      BY <2>1, <2>2 DEF TypeInv, TypeOK, DockerTypeOK
  <1>4. /\ UNCHANGED <<row, now, faults>>
        /\ expired' = {} /\ crashes' = crashes + 1
        /\ lock' = [c \in Containers |-> None]
    BY DEF ServerCrash
  <1> QED
    BY <1>1, <1>2, <1>3, <1>4, <1>5, <1>6 DEF TypeInv, TypeOK

\* Every step of the lifecycle, the watcher and the environment keeps the types.
LEMMA ManagerStepTypes ==
    ASSUME TypeInv, ManagerStep
    PROVE  TypeInv'
  <1> USE DEF TypeInv
  <1>1. ASSUME NEW r \in Requests, NEW op \in ApiCalls, NEW c \in Containers,
               BeginCall(r, op, c)
        PROVE  TypeInv'
    <2>0. op \in Operations
      BY ManagerAssumption DEF Operations
    <2>1. call' \in [Actors -> Call] /\ CallInv'
      BY <1>1, <2>0, BeginTypes DEF BeginCall, Actors
    <2> QED
      BY <1>1, <2>1 DEF BeginCall, TypeOK, DockerTypeOK, dockerVars, loose
  <1>2. ASSUME NEW a \in Actors, Progress(a)
        PROVE  TypeInv'
    BY <1>2, WriteRowTypes, DockerCallTypes, CommitTypes, ResetHealthTypes,
       CommitDeleteTypes, CleanupTypes DEF Progress
  <1>3. ASSUME NEW a \in Actors, Failure(a)
        PROVE  TypeInv'
    BY <1>3, RollbackTypes, CleanupTypes DEF Failure
  <1>9. ASSUME NEW e \in late, LateDockerEffect(e)
        PROVE  TypeInv'
    BY <1>9, LateEffectTypes
  <1>4. CASE WatcherTick
    BY <1>4 DEF WatcherTick, TypeOK, DockerTypeOK, dockerVars, loose, CallInv,
       GetRunningContainersOlderThan
  <1>5. ASSUME NEW c \in Containers, StopExpired(c)
        PROVE  TypeInv'
    <2>1. call' \in [Actors -> Call] /\ CallInv'
      <3>1. CASE row[c].present
        <4>1. Watcher \in Actors /\ "stop" \in Operations
          BY DEF Actors, Operations
        <4>2. Begin(Watcher, "stop", c)
          BY <1>5, <3>1 DEF StopExpired
        <4> QED
          BY <4>1, <4>2, BeginTypes
      <3>2. CASE ~row[c].present
        BY <1>5, <3>2 DEF StopExpired, TypeOK, CallInv
      <3> QED
        BY <3>1, <3>2
    <2> QED
      BY <1>5, <2>1 DEF StopExpired, TypeOK, DockerTypeOK, dockerVars, loose
  <1>6. CASE WatcherTimeout
    BY <1>6 DEF WatcherTimeout, Fault, TypeOK, DockerTypeOK, dockerVars, loose, CallInv
  <1>7. ASSUME NEW c \in Containers, ContainerExits(c)
        PROVE  TypeInv'
    <2>1. ProcessExit(c) /\ DockerTypeOK
      BY <1>7 DEF ContainerExits, TypeOK
    <2>2. /\ docker' \in [Containers -> DockerStates]
          /\ events' \in Seq([type : EventTypes, id : Containers])
      BY <2>1, ExitEffect
    <2> QED
      BY <1>7, <2>2 DEF ContainerExits, Slip, TypeOK, DockerTypeOK, CallInv, loose
  <1>8. CASE Tick
    BY <1>8 DEF Tick, TypeOK, DockerTypeOK, dockerVars, loose, CallInv
  <1> QED
    BY <1>1, <1>2, <1>3, <1>4, <1>5, <1>6, <1>7, <1>8, <1>9 DEF ManagerStep

-----------------------------------------------------------------------------
\* The rest of the invariant, one lemma per action.

\* Reading the row takes no lock and changes no row: the invariant is kept.
LEMMA BeginIInv ==
    ASSUME SafeInv, TypeInv', NEW a \in Actors, NEW op \in Operations, NEW c \in Containers,
           At(a, "idle"), Begin(a, op, c),
           UNCHANGED <<dockerVars, row, lock, slipped, loose>>
    PROVE  Kept
  <1> USE DEF Kept, SafeInv, TypeInv, Begin, At, dockerVars, loose
  <1>3. \A b \in Actors : b # a => call'[b] = call[b]
    BY DEF TypeOK
  <1>4. call'[a].pc \in {"delete", "update"} /\ call'[a].id = c
    BY DEF TypeOK
  <1>5. LockInv'
    BY <1>3, <1>4 DEF LockInv, Writing
  <1>6. PresenceInv'
    BY <1>3, <1>4 DEF PresenceInv, Cleaning
  <1>7. ASSUME NEW d \in Containers PROVE Pending(d)' = Pending(d)
    <2>1. lock[d] # a
      BY DEF LockInv, Writing
    <2> QED
      BY <1>3, <2>1 DEF Pending, TypeOK
  <1>8. (AgreeInv => AgreeInv') /\ RowHasContainer'
    BY <1>7 DEF AgreeInv, RowHasContainer
  <1>9. NoUntracked'
    BY <1>3 DEF NoUntracked, Cleaning
  <1> QED
    BY <1>5, <1>6, <1>8, <1>9

\* The first write takes the lock of a row that nobody has locked: it then
\* belongs to this call alone.
LEMMA WriteRowIInv ==
    ASSUME SafeInv, TypeInv', NEW a \in Actors, UpdateContainer(a) \/ DeleteContainer(a)
    PROVE  Kept
  <1> DEFINE c == call[a].id
  <1>0. PICK next \in {"docker", "commitDelete"} :
          /\ WriteRow(a, next)
          /\ \/ At(a, "update") /\ next = "docker"
             \/ At(a, "delete") /\ next = "commitDelete"
    BY DEF UpdateContainer, DeleteContainer
  <1> USE DEF Kept, SafeInv, TypeInv, WriteRow, At, Goto, Return, Free, NoCall, dockerVars,
              loose
  <1>1. c \in Containers /\ lock[c] = None
    BY <1>0 DEF CallInv
  <1>3. \A b \in Actors : b # a => call'[b] = call[b]
    BY <1>0 DEF TypeOK
  <1>4. CASE ~row[c].present
    <2>1. call'[a].pc = "idle" /\ lock' = lock
      BY <1>0, <1>4 DEF TypeOK
    <2>3. LockInv'
      BY <1>0, <1>3, <2>1 DEF LockInv, Writing
    <2>4. PresenceInv'
      BY <1>0, <1>3, <2>1 DEF PresenceInv, Cleaning
    <2>5. \A d \in Containers : lock[d] # a
      BY <1>0 DEF LockInv, Writing
    <2>6. (AgreeInv => AgreeInv') /\ RowHasContainer'
      BY <1>0, <1>3, <2>1, <2>5 DEF AgreeInv, Pending, RowHasContainer, TypeOK
    <2>7. NoUntracked'
      BY <1>0, <1>3 DEF NoUntracked, Cleaning
    <2> QED
      BY <2>3, <2>4, <2>6, <2>7
  <1>5. CASE row[c].present
    <2>1. /\ call'[a].pc = next /\ call'[a].id = c /\ call'[a].op = call[a].op
          /\ lock' = [lock EXCEPT ![c] = a]
      BY <1>0, <1>5 DEF TypeOK, Call
    <2>3. a # None
      BY ManagerAssumption DEF Actors
    <2>4. LockInv'
      BY <1>0, <1>1, <1>3, <2>1, <2>3, ManagerAssumption
         DEF LockInv, Writing, TypeOK, Actors
    <2>5. PresenceInv'
      BY <1>0, <1>3, <1>5, <2>1 DEF PresenceInv, Cleaning, TypeOK
    <2>6. ASSUME NEW d \in Containers PROVE Pending(d)' = Pending(d)
      <3>1. CASE d = c
        BY <1>0, <1>1, <2>1, <3>1 DEF Pending, TypeOK
      <3>2. CASE d # c
        <4>1. lock'[d] = lock[d] /\ lock[d] # a
          BY <1>0, <2>1, <3>2 DEF TypeOK, LockInv, Writing
        <4> QED
          BY <1>0, <1>3, <4>1 DEF Pending, TypeOK
      <3> QED
        BY <3>1, <3>2
    <2>7. (AgreeInv => AgreeInv') /\ RowHasContainer'
      BY <1>0, <2>6 DEF AgreeInv, RowHasContainer
    <2>8. NoUntracked'
      BY <1>0, <1>3, <2>1 DEF NoUntracked, Cleaning
    <2> QED
      BY <2>4, <2>5, <2>7, <2>8
  <1> QED
    BY <1>4, <1>5

\* The Docker call gives the container the status that will be committed.
LEMMA DockerCallIInv ==
    ASSUME SafeInv, TypeInv', NEW a \in Actors, DockerCall(a)
    PROVE  Kept
  <1> DEFINE c == call[a].id
  <1> USE DEF Kept, SafeInv, TypeInv, DockerCall, At, Goto, loose
  <1>1. c \in Containers /\ lock[c] = a /\ DockerTypeOK
    BY DEF CallInv, LockInv, Writing, TypeOK
  <1>2. /\ docker' \in [Containers -> DockerStates]
        /\ events' \in Seq([type : EventTypes, id : Containers])
        /\ docker'[c] = "running" <=> call[a].op = "start"
        /\ \A d \in Containers : d # c => docker'[d] = docker[d]
        /\ docker[c] # "absent" => docker'[c] # "absent"
    BY <1>1, StartEffect, StopEffect
  <1>4. /\ \A b \in Actors : b # a => call'[b] = call[b]
        /\ call'[a].pc = "commit" /\ call'[a].id = c /\ call'[a].op = call[a].op
    BY DEF TypeOK, Call
  <1>5. LockInv'
    BY <1>1, <1>4 DEF CallInv, LockInv, Writing
  <1>6. PresenceInv'
    BY <1>4 DEF PresenceInv, Cleaning
  <1>7. a # None
    BY ManagerAssumption DEF Actors
  <1>8. ASSUME NEW d \in Containers, d # c
        PROVE  /\ Pending(d)' = Pending(d) /\ slipped'[d] = slipped[d]
               /\ docker'[d] = docker[d] /\ row'[d] = row[d]
    <2>1. lock[d] # a
      BY <1>8 DEF LockInv
    <2> QED
      BY <1>2, <1>4, <1>8, <2>1 DEF Pending, TypeOK
  <1>9. Pending(c)' = NewStatus(call[a].op)
    BY <1>1, <1>4, <1>7 DEF Pending, NewStatus
  <1>10. Agrees(NewStatus(call[a].op), docker'[c])
    BY <1>2 DEF Agrees, NewStatus, CallInv
  <1>11. AgreeInv => AgreeInv'
    BY <1>8, <1>9, <1>10 DEF AgreeInv, Agrees
  <1>12. row[c].present /\ row' = row
    BY <1>1, <1>7 DEF PresenceInv
  <1>13. RowHasContainer'
    BY <1>2, <1>12 DEF RowHasContainer
  <1>14. NoUntracked'
    BY <1>4, <1>8, <1>12 DEF NoUntracked, Cleaning
  <1> QED
    BY <1>5, <1>6, <1>11, <1>13, <1>14

\* The commit writes what Pending promised and releases the lock, also when it
\* reports an error.
LEMMA CommitIInv ==
    ASSUME SafeInv, TypeInv', NEW a \in Actors, At(a, "commit"),
           Commit(a) \/ LateCommit(a)
    PROVE  Kept
  <1> USE DEF Kept, SafeInv, TypeInv
  <1>1. PICK c \in Containers : call[a].id = c /\ lock[c] = a /\ a # None
    BY ManagerAssumption DEF CallInv, LockInv, Writing, Actors, At
  <1>0. /\ docker' = docker /\ slipped' = slipped /\ orphans' = orphans
        /\ call[a].pc = "commit"
        /\ row' = [row EXCEPT ![c] = [@ EXCEPT !.status = NewStatus(call[a].op),
                                              !.startedAt = call[a].startedAt]]
        /\ lock' = [lock EXCEPT ![c] = None]
    BY <1>1 DEF Commit, LateCommit, WriteBack, dockerVars, loose, At
  <1>2. /\ \A d \in Containers : d # c => row'[d] = row[d] /\ lock'[d] = lock[d]
        /\ row'[c].present = row[c].present
        /\ row'[c].status = NewStatus(call[a].op)
        /\ lock'[c] = None
    BY <1>0 DEF TypeOK, Row
  <1>3. /\ \A b \in Actors : b # a => call'[b] = call[b]
        /\ call'[a].pc \in {"reset", "idle"}
        /\ call'[a].pc = "reset" => call'[a].id = c /\ call'[a].op = "start"
    BY <1>1 DEF TypeOK, Call, Commit, LateCommit, At, Goto, Return, NoCall
  <1>6. LockInv'
    <2> SUFFICES ASSUME NEW d \in Containers, NEW b \in Actors
                 PROVE (lock[d] = b <=> (call[b].id = d /\ call[b].pc \in Writing))'
      BY DEF LockInv
    <2>1. CASE b = a
      BY <1>0, <1>1, <1>2, <1>3, <2>1 DEF LockInv, Writing
    <2>2. CASE b # a
      BY <1>0, <1>1, <1>2, <1>3, <2>2, ManagerAssumption DEF LockInv, Writing, Actors
    <2> QED
      BY <2>1, <2>2
  <1>7. PresenceInv'
    BY <1>0, <1>1, <1>2, <1>3 DEF PresenceInv, Cleaning, CallInv
  <1>8. AgreeInv => AgreeInv'
    <2> SUFFICES ASSUME AgreeInv, NEW d \in Containers, row'[d].present,
                        ~slipped'[d]
                 PROVE  Agrees(Pending(d)', docker'[d])
      BY DEF AgreeInv, Agrees
    <2>1. CASE d = c
      <3>1. Pending(c) = NewStatus(call[a].op)
        BY <1>0, <1>1 DEF Pending
      <3>2. Pending(c)' = NewStatus(call[a].op)
        BY <1>1, <1>2 DEF Pending
      <3> QED
        BY <1>0, <1>1, <1>2, <2>1, <3>1, <3>2 DEF AgreeInv, Agrees
    <2>2. CASE d # c
      <3>1. lock[d] # a
        BY <1>1, <2>2 DEF LockInv
      <3>2. Pending(d)' = Pending(d)
        BY <1>2, <1>3, <2>2, <3>1 DEF Pending, TypeOK
      <3> QED
        BY <1>0, <1>2, <2>2, <3>2 DEF AgreeInv, Agrees
    <2> QED
      BY <2>1, <2>2
  <1>9. RowHasContainer'
    BY <1>0, <1>1, <1>2 DEF RowHasContainer
  <1>10. NoUntracked'
    BY <1>0, <1>1, <1>2, <1>3 DEF NoUntracked, Cleaning
  <1> QED
    BY <1>6, <1>7, <1>8, <1>9, <1>10

\* The UPDATE after the commit of StartContainer leaves the status alone.
LEMMA ResetHealthIInv ==
    ASSUME SafeInv, TypeInv', NEW a \in Actors, ResetHealth(a)
    PROVE  Kept
  <1> USE DEF Kept, SafeInv, TypeInv
  <1>1. PICK c \in Containers : call[a].id = c
    BY DEF CallInv, ResetHealth, At
  <1>0. /\ call[a].pc = "reset"
        /\ UNCHANGED <<docker, lock, slipped, orphans>>
        /\ \/ row' = row
           \/ row' = [row EXCEPT ![c] = [@ EXCEPT !.health = "none",
                                                  !.oomKilled = FALSE,
                                                  !.circuitOpen = FALSE]]
        /\ call' = [call EXCEPT ![a] = NoCall]
    BY <1>1 DEF ResetHealth, dockerVars, loose, At, Return
  <1>2. \A d \in Containers : /\ row'[d].present = row[d].present
                              /\ row'[d].status = row[d].status
    <2> DEFINE new == [row[c] EXCEPT !.health = "none", !.oomKilled = FALSE,
                                     !.circuitOpen = FALSE]
    <2>1. new.present = row[c].present /\ new.status = row[c].status
      BY DEF TypeOK, Row
    <2>2. CASE row' = [row EXCEPT ![c] = new]
      <3> HIDE DEF new
      <3> QED
        BY <2>1, <2>2 DEF TypeOK
    <2> QED
      BY <1>0, <2>2
  <1>3. (\A b \in Actors : b # a => call'[b] = call[b]) /\ call'[a].pc = "idle"
    BY <1>0 DEF TypeOK, NoCall
  <1>5. LockInv'
    BY <1>0, <1>3 DEF CallInv, LockInv, Writing
  <1>6. PresenceInv'
    BY <1>0, <1>2, <1>3 DEF PresenceInv, CallInv, Cleaning
  <1>7. ASSUME NEW d \in Containers PROVE Pending(d)' = Pending(d)
    <2>1. lock[d] # a
      BY <1>0 DEF LockInv, Writing
    <2> QED
      BY <1>0, <1>2, <1>3, <2>1 DEF Pending, TypeOK
  <1>8. (AgreeInv => AgreeInv') /\ RowHasContainer'
    BY <1>0, <1>2, <1>7 DEF AgreeInv, RowHasContainer
  <1>9. NoUntracked'
    BY <1>0, <1>2, <1>3 DEF NoUntracked, Cleaning
  <1> QED
    BY <1>5, <1>6, <1>8, <1>9

\* The commit of the DELETE takes the row away while the container is still
\* there, with a call under way that cleans it up or, when it reports an error,
\* as an orphan.
LEMMA CommitDeleteIInv ==
    ASSUME SafeInv, TypeInv', NEW a \in Actors, At(a, "commitDelete"),
           CommitDelete(a) \/ LateCommit(a)
    PROVE  Kept
  <1> USE DEF Kept, SafeInv, TypeInv
  <1>1. PICK c \in Containers : call[a].id = c /\ lock[c] = a /\ a # None
    BY ManagerAssumption DEF CallInv, LockInv, Writing, Actors, At
  <1>0. /\ call[a].pc = "commitDelete"
        /\ UNCHANGED <<docker, slipped>>
        /\ row' = [row EXCEPT ![c].present = FALSE]
        /\ lock' = [lock EXCEPT ![c] = None]
        /\ \/ call' = [call EXCEPT ![a].pc = "cleanupStop"] /\ orphans' = orphans
           \/ call' = [call EXCEPT ![a] = NoCall] /\ orphans' = orphans \cup {c}
    BY <1>1 DEF CommitDelete, LateCommit, dockerVars, loose, At, Goto, Return
  <1>2. /\ \A d \in Containers : d # c => row'[d] = row[d] /\ lock'[d] = lock[d]
        /\ row'[c].present = FALSE
        /\ lock'[c] = None
    BY <1>0 DEF TypeOK, Row
  <1>3. /\ \A b \in Actors : b # a => call'[b] = call[b]
        /\ \/ call'[a].pc = "cleanupStop" /\ call'[a].id = c
           \/ call'[a].pc = "idle" /\ c \in orphans'
        /\ orphans \subseteq orphans'
    BY <1>0, <1>1 DEF TypeOK, Call, NoCall
  <1>6. LockInv'
    <2> SUFFICES ASSUME NEW d \in Containers, NEW b \in Actors
                 PROVE (lock[d] = b <=> (call[b].id = d /\ call[b].pc \in Writing))'
      BY DEF LockInv
    <2>1. CASE b = a
      BY <1>0, <1>1, <1>2, <1>3, <2>1 DEF LockInv, Writing
    <2>2. CASE b # a
      BY <1>0, <1>1, <1>2, <1>3, <2>2, ManagerAssumption DEF LockInv, Writing, Actors
    <2> QED
      BY <2>1, <2>2
  <1>7. PresenceInv'
    BY <1>0, <1>1, <1>2, <1>3 DEF PresenceInv, Cleaning, CallInv
  <1>8. AgreeInv => AgreeInv'
    <2> SUFFICES ASSUME AgreeInv, NEW d \in Containers, row'[d].present,
                        ~slipped'[d]
                 PROVE  Agrees(Pending(d)', docker'[d])
      BY DEF AgreeInv, Agrees
    <2>1. d # c
      BY <1>2
    <2>2. lock[d] # a
      BY <1>1, <2>1 DEF LockInv
    <2>3. Pending(d)' = Pending(d)
      BY <1>2, <1>3, <2>1, <2>2 DEF Pending, TypeOK
    <2> QED
      BY <1>0, <1>2, <2>1, <2>3 DEF AgreeInv, Agrees
  <1>9. RowHasContainer'
    BY <1>0, <1>2 DEF RowHasContainer
  <1>10. NoUntracked'
    BY <1>0, <1>2, <1>3 DEF NoUntracked, Cleaning
  <1> QED
    BY <1>6, <1>7, <1>8, <1>9, <1>10

\* The steps of a removal after its commit, failing or not, leave every row and
\* lock alone.
LEMMA CleanupIInv ==
    ASSUME SafeInv, TypeInv', NEW a \in Actors,
           \/ CleanupStop(a) \/ CleanupStopFails(a)
           \/ CleanupRemove(a) \/ CleanupRemoveFails(a)
    PROVE  Kept
  <1> USE DEF Kept, SafeInv, TypeInv
  <1> DEFINE SeqOfEvents == Seq([type : EventTypes, id : Containers])
  <1>1. PICK c \in Containers : call[a].id = c
    BY DEF CallInv, CleanupStop, CleanupStopFails, CleanupRemove,
           CleanupRemoveFails, At
  <1>0. /\ call[a].pc \in Cleaning
        /\ UNCHANGED <<row, lock, slipped>>
    BY DEF CleanupStop, CleanupStopFails, CleanupRemove, CleanupRemoveFails, At,
           Cleaning
  <1>2. NoCall \in Call /\ DockerTypeOK
    BY DEF NoCall, Call, PCs, Operations, TypeOK
  <1>3. /\ docker' \in [Containers -> DockerStates]
        /\ events' \in SeqOfEvents
        /\ \A d \in Containers : d # c => docker'[d] = docker[d]
    <2>1. CASE CleanupStop(a)
      BY <1>1, <1>2, <2>1, StopEffect DEF CleanupStop
    <2>2. CASE CleanupStopFails(a) \/ CleanupRemoveFails(a)
      BY <1>2, <2>2 DEF CleanupStopFails, CleanupRemoveFails, dockerVars,
         DockerTypeOK
    <2>3. CASE CleanupRemove(a)
      BY <1>1, <1>2, <2>3, RemoveEffect DEF CleanupRemove
    <2> QED
      BY <2>1, <2>2, <2>3
  <1>4. orphans \subseteq orphans'
    BY DEF CleanupStop, CleanupStopFails, CleanupRemove, CleanupRemoveFails, loose
  <1>5. \/ call' = [call EXCEPT ![a].pc = "cleanupRemove"]
        \/ /\ call' = [call EXCEPT ![a] = NoCall]
           /\ docker'[c] = "absent" \/ c \in orphans'
    <2>1. CASE CleanupStop(a) \/ CleanupStopFails(a)
      BY <2>1 DEF CleanupStop, CleanupStopFails, Goto
    <2>2. CASE CleanupRemove(a)
      BY <1>1, <1>2, <2>2, RemoveEffect DEF CleanupRemove, Return
    <2>3. CASE CleanupRemoveFails(a)
      BY <1>1, <2>3 DEF CleanupRemoveFails, Return
    <2> QED
      BY <2>1, <2>2, <2>3
  <1>6. call' \in [Actors -> Call]
    <2>1. CASE call' = [call EXCEPT ![a] = NoCall]
      BY <1>2, <2>1 DEF TypeOK
    <2>2. CASE call' = [call EXCEPT ![a].pc = "cleanupRemove"]
      BY <2>2 DEF TypeOK, Call, PCs
    <2> QED
      BY <1>5, <2>1, <2>2
  <1>8. /\ \A b \in Actors : b # a => call'[b] = call[b]
        /\ \/ call'[a].pc = "cleanupRemove" /\ call'[a].id = c
           \/ call'[a].pc = "idle" /\ (docker'[c] = "absent" \/ c \in orphans')
    <2>1. CASE call' = [call EXCEPT ![a] = NoCall]
      BY <1>1, <1>5, <2>1 DEF TypeOK, NoCall
    <2>2. CASE call' = [call EXCEPT ![a].pc = "cleanupRemove"]
      BY <1>1, <2>2 DEF TypeOK, Call
    <2> QED
      BY <1>5, <2>1, <2>2
  <1>10. LockInv'
    BY <1>0, <1>8 DEF LockInv, Writing, Cleaning
  <1>11. PresenceInv'
    BY <1>0, <1>1, <1>8 DEF PresenceInv, Cleaning
  <1>12. ~row[c].present
    BY <1>0, <1>1 DEF PresenceInv
  <1>13. AgreeInv => AgreeInv'
    <2> SUFFICES ASSUME AgreeInv, NEW d \in Containers, row'[d].present,
                        ~slipped'[d]
                 PROVE  Agrees(Pending(d)', docker'[d])
      BY DEF AgreeInv, Agrees
    <2>1. d # c
      BY <1>0, <1>12
    <2>2. lock[d] # a
      BY <1>0 DEF LockInv, Writing, Cleaning
    <2>3. Pending(d)' = Pending(d)
      BY <1>0, <1>8, <2>2 DEF Pending, TypeOK
    <2> QED
      BY <1>0, <1>3, <1>4, <2>1, <2>3 DEF AgreeInv, Agrees
  <1>14. RowHasContainer'
    BY <1>0, <1>3, <1>12 DEF RowHasContainer
  <1>15. NoUntracked'
    BY <1>0, <1>1, <1>3, <1>4, <1>8 DEF NoUntracked, Cleaning
  <1> QED
    BY <1>10, <1>11, <1>13, <1>14, <1>15

\* A rollback: the lock goes, and the container is slipped if its call to Docker
\* had its effect.
LEMMA RollbackIInv ==
    ASSUME SafeInv, TypeInv', NEW a \in Actors, Abort(a) \/ DockerCallGivenUp(a)
    PROVE  Kept
  <1> USE DEF Kept, SafeInv, TypeInv
  <1>1. PICK c \in Containers : call[a].id = c /\ a # None
    BY ManagerAssumption
       DEF CallInv, Abort, DockerCallGivenUp, At, Writing, Actors
  <1>0. /\ call[a].pc \notin Cleaning
        /\ UNCHANGED <<row, docker, orphans>>
        /\ call' = [call EXCEPT ![a] = NoCall]
        /\ lock' = [d \in Containers |-> IF lock[d] = a THEN None ELSE lock[d]]
    BY DEF Abort, DockerCallGivenUp, At, Cleaning, Writing,
           Return, ReleaseLocks, dockerVars, loose
  <1>4. /\ \A d \in Containers : slipped[d] => slipped'[d]
        /\ slipped'[c] \/ call[a].pc # "commit"
    <2>1. CASE Abort(a)
      BY <1>1, <2>1 DEF Abort, At, Slip, TypeOK
    <2>2. CASE DockerCallGivenUp(a)
      BY <2>2 DEF DockerCallGivenUp, At
    <2> QED
      BY <2>1, <2>2
  <1>6. (\A b \in Actors : b # a => call'[b] = call[b]) /\ call'[a].pc = "idle"
    BY <1>0 DEF TypeOK, NoCall
  <1>7. \A d \in Containers : /\ lock[d] = a => lock'[d] = None
                              /\ lock[d] # a => lock'[d] = lock[d]
    BY <1>0
  <1>9. LockInv'
    BY <1>1, <1>6, <1>7, ManagerAssumption DEF LockInv, Writing, Actors
  <1>10. PresenceInv'
    BY <1>0, <1>6, <1>7 DEF PresenceInv, Cleaning
  <1>11. AgreeInv => AgreeInv'
    <2> SUFFICES ASSUME AgreeInv, NEW d \in Containers, row'[d].present,
                        ~slipped'[d]
                 PROVE  Agrees(Pending(d)', docker'[d])
      BY DEF AgreeInv, Agrees
    <2>1. docker'[d] = docker[d] /\ ~slipped[d]
      BY <1>0, <1>4
    <2>2. Pending(d)' = Pending(d)
      <3>1. CASE lock[d] = a
        <4>1. d = c
          BY <1>1, <3>1 DEF LockInv
        <4>2. call[a].pc # "commit"
          BY <1>4, <4>1
        <4> QED
          BY <1>0, <1>7, <3>1, <4>2 DEF Pending
      <3>2. CASE lock[d] # a
        BY <1>0, <1>6, <1>7, <3>2 DEF Pending, TypeOK
      <3> QED
        BY <3>1, <3>2
    <2> QED
      BY <1>0, <2>1, <2>2 DEF AgreeInv, Agrees
  <1>12. RowHasContainer'
    BY <1>0 DEF RowHasContainer
  <1>13. NoUntracked'
    BY <1>0, <1>6 DEF NoUntracked
  <1> QED
    BY <1>9, <1>10, <1>11, <1>12, <1>13

\* A call that the daemon carries out late is recorded in slipped, and brings no
\* container back.
LEMMA LateEffectIInv ==
    ASSUME SafeInv, TypeInv', NEW e \in late, LateDockerEffect(e)
    PROVE  Kept
  <1> USE DEF Kept, SafeInv, TypeInv
  <1>1. DockerTypeOK /\ late \subseteq DockerCalls
    BY DEF TypeOK
  <1>2. PICK c \in Containers : c = e.id
    BY <1>1, LateEffect
  <1>3. /\ docker[c] = "absent" <=> docker'[c] = "absent"
        /\ \A d \in Containers : d # c => docker'[d] = docker[d]
    BY <1>1, <1>2, LateEffect
  <1>4. UNCHANGED <<row, lock, call, orphans>>
    BY DEF LateDockerEffect
  <1>5. slipped'[c] /\ \A d \in Containers : d # c => slipped'[d] = slipped[d]
    BY <1>2 DEF LateDockerEffect, Slip, TypeOK
  <1>6. LockInv' /\ PresenceInv'
    BY <1>4 DEF LockInv, PresenceInv
  <1>7. AgreeInv => AgreeInv'
    BY <1>3, <1>4, <1>5 DEF AgreeInv, Pending
  <1>8. RowHasContainer' /\ NoUntracked'
    BY <1>3, <1>4 DEF RowHasContainer, NoUntracked
  <1> QED
    BY <1>6, <1>7, <1>8

\* A process that ends by itself is recorded in slipped.
LEMMA ContainerExitsIInv ==
    ASSUME SafeInv, TypeInv', NEW c \in Containers, ContainerExits(c)
    PROVE  Kept
  <1> USE DEF Kept, SafeInv, TypeInv
  <1>0. /\ ProcessExit(c) /\ DockerTypeOK
        /\ slipped' = [slipped EXCEPT ![c] = TRUE]
        /\ docker[c] = "running"
        /\ UNCHANGED <<row, lock, call, orphans>>
    BY DEF ContainerExits, ProcessExit, Slip, TypeOK, loose
  <1>1. /\ docker' \in [Containers -> DockerStates]
        /\ events' \in Seq([type : EventTypes, id : Containers])
        /\ docker'[c] = "exited"
        /\ \A d \in Containers : d # c => docker'[d] = docker[d]
    BY <1>0, ExitEffect
  <1>3. slipped'[c] /\ \A d \in Containers : d # c => slipped'[d] = slipped[d]
    BY <1>0 DEF TypeOK
  <1>4. LockInv' /\ PresenceInv'
    BY <1>0 DEF CallInv, LockInv, PresenceInv
  <1>5. AgreeInv => AgreeInv'
    BY <1>0, <1>1, <1>3 DEF AgreeInv, Pending
  <1>6. RowHasContainer' /\ NoUntracked'
    BY <1>0, <1>1, <1>3 DEF RowHasContainer, NoUntracked
  <1> QED
    BY <1>4, <1>5, <1>6

\* A crash releases every lock and records what was under way.
LEMMA ServerCrashIInv ==
    ASSUME SafeInv, TypeInv', ServerCrash
    PROVE  Kept
  <1> USE DEF Kept, SafeInv, TypeInv
  <1>0. /\ UNCHANGED <<docker, row>>
        /\ call' = [a \in Actors |-> NoCall]
        /\ lock' = [c \in Containers |-> None]
        /\ slipped' = [c \in Containers |-> slipped[c] \/ c \in CallsAt({"commit"})]
        /\ orphans' = orphans \cup CallsAt(Cleaning)
    BY DEF ServerCrash
  <1>2. \A c \in Containers :
           ~slipped'[c] =>
              /\ ~slipped[c]
              /\ \A a \in Actors : call[a].id = c => call[a].pc # "commit"
    BY <1>0 DEF CallsAt
  <1>3. \A c \in Containers, a \in Actors :
           call[a].id = c /\ call[a].pc \in Cleaning => c \in orphans'
    BY <1>0 DEF CallsAt
  <1>4. LockInv'
    BY <1>0, ManagerAssumption DEF LockInv, NoCall, Writing, Actors
  <1>5. PresenceInv'
    BY <1>0 DEF PresenceInv, NoCall, Cleaning
  <1>6. AgreeInv => AgreeInv'
    <2> SUFFICES ASSUME AgreeInv, NEW c \in Containers, row'[c].present,
                        ~slipped'[c]
                 PROVE  Agrees(Pending(c)', docker'[c])
      BY DEF AgreeInv, Agrees
    <2>1. Pending(c)' = row[c].status
      BY <1>0 DEF Pending
    <2>2. Pending(c) = row[c].status
      <3>1. CASE lock[c] = None
        BY <3>1 DEF Pending
      <3>2. CASE lock[c] # None
        <4>1. lock[c] \in Actors /\ call[lock[c]].id = c
          BY <3>2 DEF TypeOK, LockInv
        <4> QED
          BY <1>2, <4>1 DEF Pending
      <3> QED
        BY <3>1, <3>2
    <2> QED
      BY <1>0, <1>2, <2>1, <2>2 DEF AgreeInv, Agrees
  <1>7. RowHasContainer' /\ NoUntracked'
    BY <1>0, <1>3 DEF RowHasContainer, NoUntracked
  <1> QED
    BY <1>4, <1>5, <1>6, <1>7

\* The clock and the watcher's list do not matter to the invariant.
LEMMA FrameIInv ==
    ASSUME SafeInv, UNCHANGED <<docker, row, lock, call, slipped, loose>>, TypeInv'
    PROVE  Kept
  BY DEF Kept, SafeInv, LockInv, PresenceInv, AgreeInv, Pending,
         RowHasContainer, NoUntracked, loose

-----------------------------------------------------------------------------
\* Every step of the lifecycle, the watcher and the environment keeps IInv.
LEMMA ManagerStepIInv ==
    ASSUME SafeInv, ManagerStep
    PROVE  Kept
  <1>0. TypeInv'
    BY ManagerStepTypes DEF SafeInv
  <1>1. ASSUME NEW r \in Requests, NEW op \in ApiCalls, NEW c \in Containers,
               BeginCall(r, op, c)
        PROVE  Kept
    <2>1. r \in Actors /\ op \in Operations
      BY ManagerAssumption DEF Actors, Operations
    <2>2. /\ At(r, "idle") /\ Begin(r, op, c)
          /\ UNCHANGED <<dockerVars, row, lock, slipped, loose>>
      BY <1>1 DEF BeginCall
    <2> QED
      BY <1>0, <2>1, <2>2, BeginIInv
  <1>2. ASSUME NEW a \in Actors, Progress(a)
        PROVE  Kept
    <2>1. (Commit(a) => At(a, "commit")) /\ (CommitDelete(a) => At(a, "commitDelete"))
      BY DEF Commit, CommitDelete
    <2> QED
      BY <1>0, <1>2, <2>1, WriteRowIInv, DockerCallIInv, CommitIInv, ResetHealthIInv,
         CommitDeleteIInv, CleanupIInv DEF Progress
  <1>3. ASSUME NEW a \in Actors, Failure(a)
        PROVE  Kept
    <2>1. LateCommit(a) => At(a, "commit") \/ At(a, "commitDelete")
      BY DEF LateCommit
    <2> QED
      BY <1>0, <1>3, <2>1, RollbackIInv, CommitIInv, CommitDeleteIInv, CleanupIInv
         DEF Failure
  <1>9. ASSUME NEW e \in late, LateDockerEffect(e)
        PROVE  Kept
    BY <1>0, <1>9, LateEffectIInv
  <1>4. CASE WatcherTick
    BY <1>0, <1>4, FrameIInv DEF WatcherTick, dockerVars
  <1>5. ASSUME NEW c \in Containers, StopExpired(c)
        PROVE  Kept
    <2>1. CASE row[c].present
      <3>1. Watcher \in Actors /\ "stop" \in Operations
        BY DEF Actors, Operations
      <3>2. /\ At(Watcher, "idle") /\ Begin(Watcher, "stop", c)
            /\ UNCHANGED <<dockerVars, row, lock, slipped, loose>>
        BY <1>5, <2>1 DEF StopExpired
      <3> QED
        BY <1>0, <3>1, <3>2, BeginIInv
    <2>2. CASE ~row[c].present
      BY <1>0, <1>5, <2>2, FrameIInv DEF StopExpired, dockerVars
    <2> QED
      BY <2>1, <2>2
  <1>6. CASE WatcherTimeout
    BY <1>0, <1>6, FrameIInv DEF WatcherTimeout, dockerVars
  <1>7. ASSUME NEW c \in Containers, ContainerExits(c)
        PROVE  Kept
    BY <1>0, <1>7, ContainerExitsIInv
  <1>8. CASE Tick
    BY <1>0, <1>8, FrameIInv DEF Tick, dockerVars
  <1> QED
    BY <1>1, <1>2, <1>3, <1>4, <1>5, <1>6, <1>7, <1>8, <1>9 DEF ManagerStep

\* A step that changes nothing keeps the types.
LEMMA StutterTypes ==
    ASSUME TypeInv, UNCHANGED vars
    PROVE  TypeInv'
  BY DEF TypeInv, TypeOK, CallInv, DockerTypeOK, vars, dockerVars, loose, managerVars

\* IInv is inductive.
LEMMA NextIInv == IInv /\ [ManagerNext]_vars => IInv'
  <1> SUFFICES ASSUME IInv, [ManagerNext]_vars PROVE IInv'
    OBVIOUS
  <1>1. CASE ManagerStep
    BY <1>1, ManagerStepIInv DEF IInv, Kept
  <1>2. CASE ServerCrash
    <2>1. TypeInv'
      BY <1>2, ServerCrashTypes DEF IInv, SafeInv
    <2> QED
      BY <1>2, <2>1, ServerCrashIInv DEF IInv, Kept
  <1>3. CASE UNCHANGED vars
    <2>1. TypeInv'
      BY <1>3, StutterTypes DEF IInv, SafeInv
    <2> QED
      BY <1>3, <2>1, FrameIInv DEF vars, dockerVars, loose, managerVars, IInv, Kept
  <1> QED
    BY <1>1, <1>2, <1>3 DEF ManagerNext

(***************************************************************************)
(* The inductive invariant holds in every reachable state.                 *)
(***************************************************************************)
THEOREM ManagerInvariant == ManagerSpec => []IInv
  BY InitIInv, NextIInv, PTL DEF ManagerSpec

(***************************************************************************)
(* Types: in particular no row ever has a status but the three the code    *)
(* knows.                                                                  *)
(***************************************************************************)
THEOREM TypeCorrect == ManagerSpec => []TypeOK
  <1>1. IInv => TypeOK
    BY DEF IInv, SafeInv, TypeInv
  <1> QED
    BY <1>1, ManagerInvariant, PTL

(***************************************************************************)
(* Whatever requests, watcher, failures and crashes do: outside a          *)
(* transaction the status of a row is that of its container, unless it     *)
(* slipped; the row lock that StopContainer and StartContainer hold over   *)
(* their Docker call makes it so.                                          *)
(***************************************************************************)
THEOREM StatusAgreement == ManagerSpec => []StatusAgrees
  <1>1. IInv => StatusAgrees
    BY DEF IInv, SafeInv, AgreeInv, StatusAgrees, Pending, Free
  <1> QED
    BY <1>1, ManagerInvariant, PTL

(***************************************************************************)
(* No row outlives its container, whatever fails: RemoveContainer deletes  *)
(* the row first, and no Start or Stop writes one that is gone.            *)
(***************************************************************************)
THEOREM RowsHaveContainers == ManagerSpec => []RowHasContainer
  <1>1. IInv => RowHasContainer
    BY DEF IInv, SafeInv
  <1> QED
    BY <1>1, ManagerInvariant, PTL

(***************************************************************************)
(* No container outlives its row unless a removal is cleaning it up or it  *)
(* is an orphan (its cleanup failed, or a crash or an errored COMMIT of    *)
(* the DELETE prevented it): no Start that was under way when              *)
(* RemoveContainer committed, and no Docker call carried out late, brings  *)
(* the container back.                                                     *)
(***************************************************************************)
THEOREM NoneUntracked == ManagerSpec => []NoUntracked
  <1>1. IInv => NoUntracked
    BY DEF IInv, SafeInv
  <1> QED
    BY <1>1, ManagerInvariant, PTL

-----------------------------------------------------------------------------
(***************************************************************************)
(* ContainerManager implements ContainerContract: every step of a call, of *)
(* the watcher, of a failure or of a crash is a step of the contract or    *)
(* none at all.                                                            *)
(***************************************************************************)
\* The calls that have made their Docker call and not yet committed.
Committing(a) == call[a].pc = "commit"

-----------------------------------------------------------------------------
\* What SettledStatus is, before and after a step.

\* A row whose transaction has made its Docker call has the status of that
\* call, any other row the one it shows.
LEMMA SettledBefore ==
    ASSUME IInv, NEW c \in Containers
    PROVE  /\ ~row[c].present => SettledStatus[c] = "gone"
           /\ row[c].present => SettledStatus[c] = Pending(c)
           /\ SettledStatus[c] = "gone" <=> ~row[c].present
           /\ \A a \in Actors : Committing(a) /\ call[a].id = c
                                  => Pending(c) = NewStatus(call[a].op)
           /\ (\A a \in Actors : Committing(a) => call[a].id # c)
                 => Pending(c) = row[c].status
  <1>1. row[c].status # "gone" /\ lock[c] \in Actors \cup {None}
    BY DEF IInv, SafeInv, TypeInv, TypeOK, Row, Statuses
  <1>2. Pending(c) # "gone"
    BY <1>1 DEF Pending, NewStatus
  <1>3. ASSUME NEW a \in Actors, Committing(a), call[a].id = c
        PROVE  Pending(c) = NewStatus(call[a].op)
    <2>1. lock[c] = a /\ a # None
      BY <1>3, ManagerAssumption DEF Committing, IInv, SafeInv, LockInv, Writing, Actors
    <2> QED
      BY <1>3, <2>1 DEF Pending, Committing
  <1>4. ASSUME \A a \in Actors : Committing(a) => call[a].id # c
        PROVE  Pending(c) = row[c].status
    <2>1. lock[c] # None => lock[c] \in Actors /\ call[lock[c]].id = c
      BY <1>1 DEF IInv, SafeInv, LockInv
    <2> QED
      BY <1>4, <2>1 DEF Pending, Committing
  <1> QED
    BY <1>2, <1>3, <1>4 DEF SettledStatus

\* The same in the state after a step.
LEMMA SettledAfter ==
    ASSUME IInv', NEW c \in Containers
    PROVE  /\ ~row'[c].present => SettledStatus'[c] = "gone"
           /\ row'[c].present => SettledStatus'[c] = Pending(c)'
           /\ SettledStatus'[c] = "gone" <=> ~row'[c].present
           /\ \A a \in Actors : Committing(a)' /\ call'[a].id = c
                                  => Pending(c)' = NewStatus(call'[a].op)
           /\ (\A a \in Actors : Committing(a)' => call'[a].id # c)
                 => Pending(c)' = row'[c].status
  <1>1. row'[c].status # "gone" /\ lock'[c] \in Actors \cup {None}
    BY DEF IInv, SafeInv, TypeInv, TypeOK, Row, Statuses
  <1>2. Pending(c)' # "gone"
    BY <1>1 DEF Pending, NewStatus
  <1>3. ASSUME NEW a \in Actors, Committing(a)', call'[a].id = c
        PROVE  Pending(c)' = NewStatus(call'[a].op)
    <2>1. lock'[c] = a /\ a # None
      BY <1>3, ManagerAssumption DEF Committing, IInv, SafeInv, LockInv, Writing, Actors
    <2> QED
      BY <1>3, <2>1 DEF Pending, Committing, NewStatus
  <1>4. ASSUME \A a \in Actors : Committing(a)' => call'[a].id # c
        PROVE  Pending(c)' = row'[c].status
    <2>1. lock'[c] # None => lock'[c] \in Actors /\ call'[lock'[c]].id = c
      BY <1>1 DEF IInv, SafeInv, LockInv
    <2> QED
      BY <1>4, <2>1 DEF Pending, Committing
  <1> QED
    BY <1>2, <1>3, <1>4 DEF SettledStatus

\* A row that keeps its columns, and whose transaction neither reaches nor
\* leaves the commit, keeps its settled status.
LEMMA SettledKept ==
    ASSUME IInv, IInv', NEW c \in Containers,
           row'[c].present = row[c].present, row'[c].status = row[c].status,
           \A a \in Actors : /\ call'[a].id = c /\ Committing(a)' => call'[a] = call[a]
                             /\ call[a].id = c /\ Committing(a) => call'[a] = call[a]
    PROVE  SettledStatus'[c] = SettledStatus[c]
  <1>1. CASE ~row[c].present
    BY <1>1, SettledBefore, SettledAfter
  <1>2. CASE row[c].present
    <2>1. CASE \E a \in Actors : Committing(a) /\ call[a].id = c
      <3>1. PICK a \in Actors : Committing(a) /\ call[a].id = c
        BY <2>1
      <3>2. Committing(a)' /\ call'[a] = call[a]
        BY <3>1 DEF Committing
      <3>3. Pending(c) = NewStatus(call[a].op)
        BY <3>1, SettledBefore
      <3>4. Pending(c)' = NewStatus(call'[a].op)
        BY <3>1, <3>2, SettledAfter
      <3> QED
        <4>1. Pending(c)' = Pending(c)
          BY <3>2, <3>3, <3>4 DEF NewStatus
        <4>2. SettledStatus[c] = Pending(c)
          BY <1>2, SettledBefore
        <4>3. SettledStatus'[c] = Pending(c)'
          BY <1>2, SettledAfter
        <4> QED
          BY <4>1, <4>2, <4>3
    <2>2. CASE \A a \in Actors : Committing(a) => call[a].id # c
      <3>1. \A a \in Actors : Committing(a)' => call'[a].id # c
        BY <2>2 DEF Committing
      <3>2. Pending(c) = row[c].status
        BY <2>2, SettledBefore
      <3>3. Pending(c)' = row'[c].status
        BY <3>1, SettledAfter
      <3> QED
        BY <1>2, <3>2, <3>3, SettledBefore, SettledAfter
    <2> QED
      BY <2>1, <2>2
  <1> QED
    BY <1>1, <1>2

\* SettledStatus is a function on Containers: it is what its values say.
LEMMA SettledSame ==
    ASSUME \A c \in Containers : SettledStatus'[c] = SettledStatus[c]
    PROVE  SettledStatus' = SettledStatus
  BY DEF SettledStatus

\* A step that settles the status of one container.
LEMMA SettledExcept ==
    ASSUME NEW c \in Containers, NEW s, SettledStatus'[c] = s,
           \A d \in Containers : d # c => SettledStatus'[d] = SettledStatus[d]
    PROVE  SettledStatus' = [SettledStatus EXCEPT ![c] = s]
  BY DEF SettledStatus

-----------------------------------------------------------------------------
\* The Docker call of a start or a stop is where it takes effect.
LEMMA DockerCallRefines ==
    ASSUME IInv, IInv', NEW a \in Actors, DockerCall(a)
    PROVE  Contract!Next
  <1>1. PICK c \in Containers : call[a].id = c
    BY DEF IInv, SafeInv, TypeInv, CallInv, DockerCall, At
  <1>2. /\ call[a].pc = "docker" /\ lock[c] = a /\ row[c].present
        /\ docker[c] \in {"running", "exited"} /\ docker \in [Containers -> DockerStates]
    BY <1>1, ManagerAssumption
       DEF DockerCall, At, IInv, SafeInv, LockInv, PresenceInv, RowHasContainer, Writing,
           Actors, TypeInv, TypeOK, DockerTypeOK, DockerStates
  <1>3. /\ \A b \in Actors : b # a => call'[b] = call[b]
        /\ call'[a].pc = "commit" /\ call'[a].id = c /\ call'[a].op = call[a].op
        /\ row' = row
        /\ UNCHANGED <<late, faults, crashes>>
    BY <1>1 DEF IInv, SafeInv, TypeInv, TypeOK, Call, DockerCall, Goto, loose
  <1>4. SettledStatus[c] # "gone"
    BY <1>2, SettledBefore
  <1>5. SettledStatus'[c] = NewStatus(call[a].op)
    BY <1>2, <1>3, SettledAfter DEF Committing
  <1>6. ASSUME NEW d \in Containers, d # c
        PROVE  SettledStatus'[d] = SettledStatus[d]
    <2>1. \A b \in Actors :
             /\ call'[b].id = d /\ Committing(b)' => call'[b] = call[b]
             /\ call[b].id = d /\ Committing(b) => call'[b] = call[b]
      BY <1>1, <1>3, <1>6
    <2>2. row'[d].present = row[d].present /\ row'[d].status = row[d].status
      BY <1>3
    <2> QED
      BY <2>1, <2>2, SettledKept
  <1>7. SettledStatus' = [SettledStatus EXCEPT ![c] = NewStatus(call[a].op)]
    BY <1>5, <1>6, SettledExcept
  <1>8. CASE call[a].op = "start"
    <2>1. docker' = [docker EXCEPT ![c] = "running"]
      BY <1>1, <1>8 DEF DockerCall, ContainerStart
    <2>2. Contract!Start(c)
      BY <1>3, <1>4, <1>7, <1>8, <2>1 DEF Contract!Start, NewStatus
    <2> QED
      BY <2>2 DEF Contract!Next
  <1>9. CASE call[a].op = "stop"
    <2>1. docker' = [docker EXCEPT ![c] = "exited"]
      BY <1>1, <1>2, <1>9 DEF DockerCall, ContainerStop
    <2>2. Contract!Stop(c)
      BY <1>3, <1>4, <1>7, <1>9, <2>1 DEF Contract!Stop, NewStatus
    <2> QED
      BY <2>2 DEF Contract!Next
  <1> QED
    BY <1>8, <1>9 DEF DockerCall

\* The commit shows what the Docker call has settled.
LEMMA CommitRefines ==
    ASSUME IInv, IInv', NEW a \in Actors, At(a, "commit"),
           Commit(a) \/ LateCommit(a)
    PROVE  UNCHANGED <<SettledStatus, docker, late>>
  <1>1. PICK c \in Containers : call[a].id = c
    BY DEF IInv, SafeInv, TypeInv, CallInv, At
  <1>2. /\ call[a].pc = "commit" /\ lock[c] = a /\ row[c].present
        /\ UNCHANGED <<docker, late>>
    BY <1>1, ManagerAssumption
       DEF Commit, LateCommit, At, dockerVars, loose, IInv, SafeInv, LockInv, PresenceInv, Writing, Actors
  <1>3. /\ \A b \in Actors : b # a => call'[b] = call[b]
        /\ call'[a].pc # "commit"
        /\ \A d \in Containers : d # c => row'[d] = row[d]
        /\ row'[c].present /\ row'[c].status = NewStatus(call[a].op)
    <2>1. call'[a].pc # "commit" /\ \A b \in Actors : b # a => call'[b] = call[b]
      BY DEF IInv, SafeInv, TypeInv, TypeOK, Call, Commit, LateCommit, Goto, Return,
             NoCall
    <2>2. row' = [row EXCEPT ![c] = [@ EXCEPT !.status = NewStatus(call[a].op),
                                             !.startedAt = call[a].startedAt]]
      BY <1>1 DEF Commit, LateCommit, WriteBack, At
    <2> QED
      BY <1>2, <2>1, <2>2 DEF IInv, SafeInv, TypeInv, TypeOK, Row
  <1>4. \A b \in Actors : b # a => ~(Committing(b) /\ call[b].id = c)
    BY <1>2 DEF Committing, IInv, SafeInv, LockInv, Writing
  <1>5. SettledStatus[c] = NewStatus(call[a].op)
    BY <1>1, <1>2, SettledBefore DEF Committing
  <1>6. SettledStatus'[c] = NewStatus(call[a].op)
    <2>1. \A b \in Actors : Committing(b)' => call'[b].id # c
      BY <1>3, <1>4 DEF Committing
    <2> QED
      BY <1>3, <2>1, SettledAfter
  <1>7. ASSUME NEW d \in Containers, d # c
        PROVE  SettledStatus'[d] = SettledStatus[d]
    <2>1. \A b \in Actors :
             /\ call'[b].id = d /\ Committing(b)' => call'[b] = call[b]
             /\ call[b].id = d /\ Committing(b) => call'[b] = call[b]
      BY <1>1, <1>3, <1>7 DEF Committing
    <2> QED
      BY <1>3, <1>7, <2>1, SettledKept
  <1>8. SettledStatus' = SettledStatus
    BY <1>5, <1>6, <1>7, SettledSame
  <1> QED
    BY <1>2, <1>8

\* The commit of the DELETE is the removal, also when it reports an error.
LEMMA CommitDeleteRefines ==
    ASSUME IInv, IInv', NEW a \in Actors, At(a, "commitDelete"),
           CommitDelete(a) \/ LateCommit(a)
    PROVE  Contract!Next
  <1>1. PICK c \in Containers : call[a].id = c
    BY DEF IInv, SafeInv, TypeInv, CallInv, At
  <1>2. /\ call[a].pc = "commitDelete" /\ lock[c] = a /\ row[c].present
        /\ UNCHANGED <<docker, late>>
    BY <1>1, ManagerAssumption
       DEF CommitDelete, LateCommit, At, dockerVars, loose, IInv, SafeInv, LockInv,
           PresenceInv, Writing, Actors
  <1>3. /\ \A b \in Actors : b # a => call'[b] = call[b]
        /\ call'[a].pc \in {"cleanupStop", "idle"}
        /\ \A d \in Containers : d # c => row'[d] = row[d]
        /\ ~row'[c].present
    <2>1. row' = [row EXCEPT ![c].present = FALSE]
      BY <1>1 DEF CommitDelete, LateCommit, At
    <2>2. /\ \A b \in Actors : b # a => call'[b] = call[b]
          /\ call'[a].pc \in {"cleanupStop", "idle"}
      BY DEF IInv, SafeInv, TypeInv, TypeOK, Call, CommitDelete, LateCommit, Goto,
             Return, NoCall
    <2> QED
      BY <2>1, <2>2 DEF IInv, SafeInv, TypeInv, TypeOK, Row
  <1>4. SettledStatus[c] # "gone" /\ SettledStatus'[c] = "gone"
    BY <1>2, <1>3, SettledBefore, SettledAfter
  <1>5. ASSUME NEW d \in Containers, d # c
        PROVE  SettledStatus'[d] = SettledStatus[d]
    <2>1. \A b \in Actors :
             /\ call'[b].id = d /\ Committing(b)' => call'[b] = call[b]
             /\ call[b].id = d /\ Committing(b) => call'[b] = call[b]
      BY <1>1, <1>3, <1>5 DEF Committing
    <2> QED
      BY <1>3, <1>5, <2>1, SettledKept
  <1>6. SettledStatus' = [SettledStatus EXCEPT ![c] = "gone"]
    BY <1>4, <1>5, SettledExcept
  <1>7. CASE CommitDelete(a)
    <2>1. UNCHANGED <<faults, crashes>>
      BY <1>7 DEF CommitDelete
    <2>2. Contract!Remove(c)
      BY <1>2, <1>4, <1>6, <2>1 DEF Contract!Remove
    <2> QED
      BY <2>2 DEF Contract!Next
  <1>8. CASE LateCommit(a)
    <2>1. faults' + crashes' = faults + crashes + 1
      BY <1>8 DEF LateCommit, Fault, IInv, SafeInv, TypeInv, TypeOK
    <2>2. Contract!RemovedUnawares(c)
      BY <1>2, <1>4, <1>6 DEF Contract!RemovedUnawares
    <2> QED
      BY <2>1, <2>2 DEF Contract!Mishap, Contract!Next
  <1> QED
    BY <1>7, <1>8

-----------------------------------------------------------------------------
\* A step that touches neither presence nor status of a row and moves no call to
\* or from its commit leaves SettledStatus as it is.
LEMMA Settled ==
    ASSUME IInv, IInv',
           \A c \in Containers : row'[c].present = row[c].present
                                   /\ row'[c].status = row[c].status,
           \A a \in Actors : Committing(a) \/ Committing(a)' => call'[a] = call[a]
    PROVE  SettledStatus' = SettledStatus
  <1>1. ASSUME NEW c \in Containers PROVE SettledStatus'[c] = SettledStatus[c]
    BY <1>1, SettledKept
  <1> QED
    BY <1>1, SettledSame

\* Reading, waiting for the lock and the UPDATE after a start show nothing.
LEMMA SilentRefines ==
    ASSUME IInv, IInv', NEW a \in Actors,
           UpdateContainer(a) \/ DeleteContainer(a) \/ ResetHealth(a)
    PROVE  UNCHANGED Contract!contractVars
  <1>1. UNCHANGED <<docker, late, faults, crashes>>
    BY DEF UpdateContainer, DeleteContainer, WriteRow, ResetHealth, dockerVars, loose
  <1>2. /\ call[a].pc # "commit" /\ call'[a].pc # "commit"
        /\ \A b \in Actors : b # a => call'[b] = call[b]
    BY DEF IInv, SafeInv, TypeInv, TypeOK, Call, UpdateContainer, DeleteContainer, WriteRow,
           ResetHealth, At, Goto, Return, NoCall
  <1>3. \A c \in Containers : row'[c].present = row[c].present
                                /\ row'[c].status = row[c].status
    <2>1. CASE UpdateContainer(a) \/ DeleteContainer(a)
      BY <2>1 DEF UpdateContainer, DeleteContainer, WriteRow
    <2>2. CASE ResetHealth(a)
      <3>1. PICK d \in Containers : call[a].id = d
        BY <2>2 DEF IInv, SafeInv, TypeInv, CallInv, ResetHealth, At
      <3>2. PICK new : new = [row[d] EXCEPT !.health = "none", !.oomKilled = FALSE,
                                            !.circuitOpen = FALSE]
        OBVIOUS
      <3>3. new.present = row[d].present /\ new.status = row[d].status
        BY <3>2 DEF IInv, SafeInv, TypeInv, TypeOK, Row
      <3>4. row' = row \/ row' = [row EXCEPT ![d] = new]
        BY <2>2, <3>1, <3>2 DEF ResetHealth
      <3> QED
        BY <3>3, <3>4 DEF IInv, SafeInv, TypeInv, TypeOK
    <2> QED
      BY <2>1, <2>2
  <1>4. SettledStatus' = SettledStatus
    BY <1>2, <1>3, Settled DEF Committing
  <1> QED
    BY <1>1, <1>4 DEF Contract!contractVars

\* A call that begins shows nothing.
LEMMA BeginRefines ==
    ASSUME IInv, IInv', NEW a \in Actors, NEW op \in Operations,
           NEW c \in Containers, At(a, "idle"), Begin(a, op, c),
           UNCHANGED <<docker, row, late, faults, crashes>>
    PROVE  UNCHANGED Contract!contractVars
  <1>1. /\ call[a].pc # "commit" /\ call'[a].pc # "commit"
        /\ \A b \in Actors : b # a => call'[b] = call[b]
    BY DEF IInv, SafeInv, TypeInv, TypeOK, Call, At, Begin
  <1>2. SettledStatus' = SettledStatus
    BY <1>1, Settled DEF Committing
  <1> QED
    BY <1>2 DEF Contract!contractVars

\* The cleanup of a removed container removes it from Docker.
LEMMA CleanupRefines ==
    ASSUME IInv, IInv', NEW a \in Actors, CleanupStop(a) \/ CleanupRemove(a)
    PROVE  Contract!Next \/ UNCHANGED Contract!contractVars
  <1>1. PICK c \in Containers : call[a].id = c
    BY DEF IInv, SafeInv, TypeInv, CallInv, CleanupStop, CleanupRemove, At
  <1>2. /\ ~row[c].present /\ call[a].pc # "commit" /\ call'[a].pc # "commit"
        /\ \A b \in Actors : b # a => call'[b] = call[b]
        /\ UNCHANGED <<row, late, faults, crashes>>
    BY <1>1 DEF IInv, SafeInv, TypeInv, TypeOK, Call, PresenceInv, Cleaning, CleanupStop,
                CleanupRemove, At, Goto, Return, NoCall, loose
  <1>3. SettledStatus' = SettledStatus
    BY <1>2, Settled DEF Committing
  <1>4. SettledStatus[c] = "gone"
    BY <1>2, SettledBefore
  <1>5. \/ docker' = docker
        \/ docker[c] = "running" /\ docker' = [docker EXCEPT ![c] = "exited"]
        \/ docker' = [docker EXCEPT ![c] = "absent"]
    BY <1>1 DEF CleanupStop, CleanupRemove, ContainerStop, ContainerRemove
  <1>6. CASE docker' = docker
    BY <1>2, <1>3, <1>6 DEF Contract!contractVars
  <1>7. CASE docker' # docker
    <2>1. Contract!Clean(c)
      BY <1>2, <1>3, <1>4, <1>5, <1>7 DEF Contract!Clean
    <2> QED
      BY <2>1 DEF Contract!Next
  <1> QED
    BY <1>6, <1>7

-----------------------------------------------------------------------------
\* Failures.

\* Whatever is rolled back, no row appears or goes, and what Docker may yet carry
\* out is about containers that have one.
LEMMA RolledBackRefines ==
    ASSUME IInv, IInv', UNCHANGED docker,
           \A c \in Containers : row'[c].present = row[c].present,
           late \subseteq late',
           \A e \in late' \ late : row[e.id].present,
           faults' + crashes' = faults + crashes + 1
    PROVE  Contract!Next
  <1>1. \A c \in Containers : SettledStatus'[c] = "gone" <=> SettledStatus[c] = "gone"
    BY SettledBefore, SettledAfter
  <1>2. \A e \in late' \ late : SettledStatus[e.id] # "gone"
    <2>1. \A e \in late' : e.id \in Containers
      BY DEF IInv, SafeInv, TypeInv, TypeOK, DockerCalls
    <2> QED
      BY <2>1, SettledBefore
  <1>3. Contract!RolledBack
    BY <1>1, <1>2 DEF Contract!RolledBack
  <1> QED
    BY <1>3 DEF Contract!Mishap, Contract!Next

\* A call that waits for Docker has a row.
LEMMA CallingHasRow ==
    ASSUME IInv, NEW a \in Actors, At(a, "docker")
    PROVE  row[call[a].id].present
  BY ManagerAssumption
     DEF IInv, SafeInv, TypeInv, CallInv, LockInv, PresenceInv, Writing, Actors, At

\* A failing call is a mishap.
LEMMA FailureRefines ==
    ASSUME IInv, IInv', NEW a \in Actors, Failure(a)
    PROVE  Contract!Next
  <1>1. faults' + crashes' = faults + crashes + 1
    <2>1. faults' = faults + 1 /\ crashes' = crashes
      BY DEF Failure, Abort, DockerCallGivenUp, LateCommit, CleanupStopFails,
             CleanupRemoveFails, Fault
    <2> QED
      BY <2>1 DEF IInv, SafeInv, TypeInv, TypeOK
  <1>2. CASE Abort(a) \/ CleanupStopFails(a) \/ CleanupRemoveFails(a)
    <2>1. UNCHANGED <<docker, row, late>>
      BY <1>2 DEF Abort, CleanupStopFails, CleanupRemoveFails, dockerVars, loose
    <2> QED
      BY <1>1, <2>1, RolledBackRefines
  <1>3. CASE DockerCallGivenUp(a)
    <2>1. /\ UNCHANGED <<docker, row>> /\ At(a, "docker")
          /\ late' = late \cup {[op |-> call[a].op, id |-> call[a].id]}
      BY <1>3 DEF DockerCallGivenUp, dockerVars
    <2>2. \A e \in late' \ late : row[e.id].present
      BY <2>1, CallingHasRow
    <2> QED
      BY <1>1, <2>1, <2>2, RolledBackRefines
  <1>4. CASE LateCommit(a) /\ At(a, "commit")
    <2>1. UNCHANGED <<SettledStatus, docker, late>>
      BY <1>4, CommitRefines
    <2>2. Contract!RolledBack
      BY <2>1 DEF Contract!RolledBack
    <2> QED
      BY <1>1, <2>2 DEF Contract!Mishap, Contract!Next
  <1>5. CASE LateCommit(a) /\ At(a, "commitDelete")
    BY <1>5, CommitDeleteRefines
  <1> QED
    BY <1>2, <1>3, <1>4, <1>5 DEF Failure, LateCommit

\* The daemon's late effect is the contract's.
LEMMA LateEffectRefines ==
    ASSUME IInv, IInv', NEW e \in late, LateDockerEffect(e)
    PROVE  Contract!Next
  <1>1. /\ e.id \in Containers /\ e.op \in {"start", "stop"}
        /\ docker \in [Containers -> {"running", "exited", "absent"}]
    BY DEF IInv, SafeInv, TypeInv, TypeOK, DockerTypeOK, DockerCalls, DockerStates
  <1>2. UNCHANGED <<row, call, faults, crashes>> /\ late' = late \ {e}
    BY DEF LateDockerEffect
  <1>3. SettledStatus' = SettledStatus
    BY <1>2, Settled
  <1>4. docker' = IF docker[e.id] = "absent" THEN docker
                  ELSE [docker EXCEPT ![e.id] =
                           IF e.op = "start" THEN "running" ELSE "exited"]
    BY <1>1 DEF LateDockerEffect, ContainerStart, ContainerStop
  <1>5. Contract!LateEffect(e)
    BY <1>2, <1>3, <1>4 DEF Contract!LateEffect
  <1> QED
    BY <1>5 DEF Contract!Next

-----------------------------------------------------------------------------
\* A step that leaves rows, calls and Docker alone shows nothing.
LEMMA FrameRefines ==
    ASSUME IInv, IInv', UNCHANGED <<docker, row, call, late, faults, crashes>>
    PROVE  UNCHANGED Contract!contractVars
  <1>1. SettledStatus' = SettledStatus
    BY Settled
  <1> QED
    BY <1>1 DEF Contract!contractVars

\* The end of a process is the contract's Exit.
LEMMA ExitRefines ==
    ASSUME IInv, IInv', NEW c \in Containers, ContainerExits(c)
    PROVE  Contract!Next
  <1>1. UNCHANGED <<row, call, late, faults, crashes>>
    BY DEF ContainerExits, loose
  <1>2. SettledStatus' = SettledStatus
    BY <1>1, Settled
  <1>3. Contract!Exit(c)
    BY <1>1, <1>2 DEF Contract!Exit, ContainerExits, ProcessExit
  <1> QED
    BY <1>3 DEF Contract!Next

\* Every step of the manager is one of the contract, or none.
LEMMA StepRefines ==
    ASSUME IInv, IInv', [ManagerNext]_vars
    PROVE  Contract!Next \/ UNCHANGED Contract!contractVars
  <1>1. ASSUME NEW r \in Requests, NEW op \in ApiCalls, NEW c \in Containers,
               BeginCall(r, op, c)
        PROVE  UNCHANGED Contract!contractVars
    <2>1. r \in Actors /\ op \in Operations
      BY ManagerAssumption DEF Actors, Operations
    <2>2. /\ At(r, "idle") /\ Begin(r, op, c)
          /\ UNCHANGED <<docker, row, late, faults, crashes>>
      BY <1>1 DEF BeginCall, dockerVars, loose
    <2> QED
      BY <2>1, <2>2, BeginRefines
  <1>2. ASSUME NEW a \in Actors, Progress(a)
        PROVE  Contract!Next \/ UNCHANGED Contract!contractVars
    <2>1. CASE Commit(a)
      <3>1. At(a, "commit") /\ UNCHANGED <<faults, crashes>>
        BY <2>1 DEF Commit
      <3> QED
        BY <2>1, <3>1, CommitRefines DEF Contract!contractVars
    <2>2. CASE CommitDelete(a)
      <3>1. At(a, "commitDelete")
        BY <2>2 DEF CommitDelete
      <3> QED
        BY <2>2, <3>1, CommitDeleteRefines
    <2> QED
      BY <1>2, <2>1, <2>2, SilentRefines, DockerCallRefines, CleanupRefines
         DEF Progress
  <1>3. ASSUME NEW a \in Actors, Failure(a)
        PROVE  Contract!Next
    BY <1>3, FailureRefines
  <1>10. ASSUME NEW e \in late, LateDockerEffect(e)
         PROVE  Contract!Next
    BY <1>10, LateEffectRefines
  <1>4. CASE WatcherTick \/ Tick
    BY <1>4, FrameRefines DEF WatcherTick, Tick, dockerVars, loose
  <1>5. ASSUME NEW c \in Containers, StopExpired(c)
        PROVE  UNCHANGED Contract!contractVars
    <2>0. UNCHANGED <<docker, row, late, faults, crashes>>
      BY <1>5 DEF StopExpired, dockerVars, loose
    <2>1. CASE row[c].present
      <3>1. Watcher \in Actors /\ "stop" \in Operations
        BY DEF Actors, Operations
      <3>2. At(Watcher, "idle") /\ Begin(Watcher, "stop", c)
        BY <1>5, <2>1 DEF StopExpired
      <3> QED
        BY <2>0, <3>1, <3>2, BeginRefines
    <2>2. CASE ~row[c].present
      BY <1>5, <2>0, <2>2, FrameRefines DEF StopExpired
    <2> QED
      BY <2>1, <2>2
  <1>6. CASE WatcherTimeout
    <2>1. faults' = faults + 1 /\ UNCHANGED <<docker, row, late, crashes>>
      BY <1>6 DEF WatcherTimeout, Fault, dockerVars, loose
    <2>2. faults' + crashes' = faults + crashes + 1
      BY <2>1 DEF IInv, SafeInv, TypeInv, TypeOK
    <2> QED
      BY <2>1, <2>2, RolledBackRefines
  <1>7. ASSUME NEW c \in Containers, ContainerExits(c)
        PROVE  Contract!Next
    BY <1>7, ExitRefines
  <1>8. CASE ServerCrash
    <2>1. crashes' = crashes + 1 /\ UNCHANGED <<docker, row, faults>>
      BY <1>8 DEF ServerCrash
    <2>2. faults' + crashes' = faults + crashes + 1
      BY <2>1 DEF IInv, SafeInv, TypeInv, TypeOK
    <2>3. late \subseteq late' /\ \A e \in late' \ late : row[e.id].present
      <3>1. PICK accepted \in SUBSET {a \in Actors : At(a, "docker")} :
               late' = late \cup {[op |-> call[a].op, id |-> call[a].id] : a \in accepted}
        BY <1>8 DEF ServerCrash
      <3>2. \A a \in accepted : row[call[a].id].present
        BY <3>1, CallingHasRow
      <3> QED
        BY <3>1, <3>2
    <2> QED
      BY <2>1, <2>2, <2>3, RolledBackRefines
  <1>9. CASE UNCHANGED vars
    BY <1>9, FrameRefines DEF vars, dockerVars, loose, managerVars
  <1> QED
    BY <1>1, <1>2, <1>3, <1>4, <1>5, <1>6, <1>7, <1>8, <1>9, <1>10
       DEF ManagerNext, ManagerStep

\* The initial state is the contract's.
LEMMA InitRefines == ManagerInit => Contract!Init
  <1> SUFFICES ASSUME ManagerInit PROVE Contract!Init
    OBVIOUS
  <1>1. \A c \in Containers : row[c].present /\ Pending(c) = "running"
    BY DEF ManagerInit, NewRow, Pending
  <1>2. SettledStatus = [c \in Containers |-> "running"]
    BY <1>1 DEF SettledStatus
  <1> QED
    BY <1>2 DEF ManagerInit, DockerInit, Contract!Init

(***************************************************************************)
(* StartContainer, StopContainer, RemoveContainer and the watcher, in any  *)
(* interleaving and with any failures and crashes, do what                 *)
(* ContainerContract allows and nothing else.                              *)
(***************************************************************************)
THEOREM ManagerImplementsContract == ManagerSpec => ImplementsContract
  <1>1. IInv /\ IInv' /\ [ManagerNext]_vars => [Contract!Next]_(Contract!contractVars)
    BY StepRefines
  <1> QED
    BY <1>1, InitRefines, ManagerInvariant, PTL
       DEF ManagerSpec, ImplementsContract, Contract!Spec
=============================================================================
