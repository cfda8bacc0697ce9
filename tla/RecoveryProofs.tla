--------------------------- MODULE RecoveryProofs ---------------------------
(***************************************************************************)
(* Proofs about RecoveryService composed with ContainerManager: its type   *)
(* invariant, the bound RestartBudget on automatic restarts, OpenedIsTold, *)
(* and RowHasContainer and NoUntracked of the composition, for any         *)
(* number of containers, requests and concurrent event goroutines.         *)
(***************************************************************************)
EXTENDS RecoveryService, ContainerManagerProofs, FiniteSetTheorems

-----------------------------------------------------------------------------
\* The inductive invariant.

\* A handler that is under way is about a container.
HandlerInv == \A h \in Handlers : hnd[h].pc # "idle" => hnd[h].id \in Containers

\* Handlers whose check of the counter is behind them will add one each; with
\* them counted in, the counter is bounded.  Likewise for the calls of Docker
\* that are counted already but not yet made.
Budget(c) ==
    /\ row[c].restartCount + Cardinality(HandlersAt("backoff", c))
          < MaxRestarts + Cardinality(Handlers)
    /\ restarts[c] + Cardinality(HandlersAt("restart", c))
          <= row[c].restartCount + Cardinality(Handlers)

BudgetInv == \A c \in Containers : row[c].present => Budget(c)

HandlerTypes ==
    /\ hnd \in [Handlers -> [pc : HandlerPCs, id : Containers \cup {None}]]
    /\ restarts \in [Containers -> Nat]
    /\ notices \subseteq [type : NoticeTypes, id : Containers]
    /\ HandlerInv

RTypeInv == TypeInv /\ HandlerTypes

RInv == RTypeInv /\ BudgetInv

-----------------------------------------------------------------------------
\* Types.

\* ContainerRestart keeps the types of the daemon's state.
LEMMA RestartEffect ==
    ASSUME DockerTypeOK, NEW c \in Containers, ContainerRestart(c)
    PROVE  /\ docker' \in [Containers -> DockerStates]
           /\ events' \in Seq([type : EventTypes, id : Containers])
  <1>1. docker' \in [Containers -> DockerStates]
    BY DEF ContainerRestart, DockerTypeOK, DockerStates
  <1>2. CASE docker[c] = "running"
    <2>1. PICK t \in DieEvents : Emit(<<Event(t, c)>>)
      BY <1>2 DEF ContainerRestart
    <2>2. <<Event(t, c)>> \in Seq([type : EventTypes, id : Containers])
      BY DEF Event, EventTypes
    <2> QED
      BY <1>1, <2>1, <2>2, EmitType
  <1>3. CASE docker[c] # "running"
    BY <1>1, <1>3 DEF ContainerRestart, DockerTypeOK
  <1> QED
    BY <1>2, <1>3

\* A handler that moves to one of its program counters or returns stays typed.
LEMMA HandlerMoveTypes ==
    ASSUME HandlerTypes, NEW h \in Handlers, NEW pc \in HandlerPCs,
           hnd[h].pc # "idle", HGoto(h, pc) \/ HReturn(h)
    PROVE  /\ hnd' \in [Handlers -> [pc : HandlerPCs, id : Containers \cup {None}]]
           /\ HandlerInv'
           /\ \A g \in Handlers : g # h => hnd'[g] = hnd[g]
           /\ hnd'[h].pc \in {pc, "idle"}
           /\ HGoto(h, pc) => hnd'[h].pc = pc /\ hnd'[h].id = hnd[h].id
  <1>1. CASE HGoto(h, pc)
    <2>1. hnd' \in [Handlers -> [pc : HandlerPCs, id : Containers \cup {None}]]
      BY <1>1 DEF HandlerTypes, HGoto
    <2>2. /\ \A g \in Handlers : g # h => hnd'[g] = hnd[g]
          /\ hnd'[h].pc = pc /\ hnd'[h].id = hnd[h].id
      BY <1>1 DEF HandlerTypes, HGoto
    <2>3. HandlerInv'
      BY <2>2 DEF HandlerTypes, HandlerInv
    <2> QED
      BY <2>1, <2>2, <2>3
  <1>2. CASE HReturn(h) /\ ~HGoto(h, pc)
    <2>1. NoHandler \in [pc : HandlerPCs, id : Containers \cup {None}]
      BY DEF NoHandler, HandlerPCs
    <2>2. hnd' \in [Handlers -> [pc : HandlerPCs, id : Containers \cup {None}]]
      BY <1>2, <2>1 DEF HandlerTypes, HReturn
    <2>3. /\ \A g \in Handlers : g # h => hnd'[g] = hnd[g]
          /\ hnd'[h].pc = "idle"
      BY <1>2 DEF HandlerTypes, HReturn, NoHandler
    <2>4. HandlerInv'
      BY <2>3 DEF HandlerTypes, HandlerInv
    <2> QED
      BY <1>2, <2>2, <2>3, <2>4
  <1> QED
    BY <1>1, <1>2

\* An UPDATE of a row by a row keeps the types of the manager's state.
LEMMA UpdateRowTypes ==
    ASSUME TypeInv, NEW c \in Containers, NEW new \in Row, UpdateRow(c, new)
    PROVE  TypeInv'
  <1>1. row' \in [Containers -> Row]
    BY DEF UpdateRow, TypeInv, TypeOK
  <1>2. UNCHANGED <<dockerVars, lock, call, expired, now, slipped, loose, faults,
                    crashes>>
    BY DEF UpdateRow
  <1> QED
    BY <1>1, <1>2 DEF TypeInv, TypeOK, CallInv, DockerTypeOK, dockerVars, loose

-----------------------------------------------------------------------------
\* Cardinalities.

\* The handlers at a program counter are finitely many, at most all of them.
LEMMA HandlersAtFinite ==
    ASSUME NEW pc, NEW c
    PROVE  /\ IsFiniteSet(HandlersAt(pc, c))
           /\ Cardinality(HandlersAt(pc, c)) \in Nat
           /\ Cardinality(Handlers) \in Nat
           /\ Cardinality(HandlersAt(pc, c)) <= Cardinality(Handlers)
  <1>1. HandlersAt(pc, c) \in SUBSET Handlers
    BY DEF HandlersAt
  <1>2. IsFiniteSet(Handlers)
    BY RecoveryAssumption
  <1>3. /\ IsFiniteSet(HandlersAt(pc, c))
        /\ Cardinality(HandlersAt(pc, c)) <= Cardinality(Handlers)
    BY <1>1, <1>2, FS_Subset
  <1> QED
    BY <1>2, <1>3, FS_CardinalityType

\* The same of the next state.
LEMMA HandlersAtFiniteNext ==
    ASSUME NEW pc, NEW c
    PROVE  /\ IsFiniteSet(HandlersAt(pc, c)')
           /\ Cardinality(HandlersAt(pc, c)') \in Nat
           /\ Cardinality(HandlersAt(pc, c)') <= Cardinality(Handlers)
  <1>1. HandlersAt(pc, c)' \in SUBSET Handlers
    BY DEF HandlersAt
  <1>2. IsFiniteSet(Handlers)
    BY RecoveryAssumption
  <1>3. /\ IsFiniteSet(HandlersAt(pc, c)')
        /\ Cardinality(HandlersAt(pc, c)') <= Cardinality(Handlers)
    BY <1>1, <1>2, FS_Subset
  <1> QED
    BY <1>3, FS_CardinalityType

\* Handlers that leave a program counter make their number no larger.
LEMMA HandlersAtShrinks ==
    ASSUME NEW pc, NEW c, HandlersAt(pc, c)' \subseteq HandlersAt(pc, c)
    PROVE  Cardinality(HandlersAt(pc, c)') <= Cardinality(HandlersAt(pc, c))
  BY HandlersAtFinite, FS_Subset

-----------------------------------------------------------------------------
\* The budget.

\* A step in which nobody passes the check, is counted or calls Docker keeps the
\* budget, whatever rows it deletes.
LEMMA BudgetFrame ==
    ASSUME RInv, RTypeInv',
           \A c \in Containers : /\ row'[c].present => row[c].present
                                 /\ row'[c].restartCount = row[c].restartCount,
           restarts' = restarts,
           \A c \in Containers, pc \in {"backoff", "restart"} :
               HandlersAt(pc, c)' \subseteq HandlersAt(pc, c)
    PROVE  BudgetInv'
  <1> SUFFICES ASSUME NEW c \in Containers, row'[c].present
               PROVE  Budget(c)'
    BY DEF BudgetInv
  <1>1. Budget(c)
    BY DEF RInv, BudgetInv
  <1>2. /\ row'[c].restartCount = row[c].restartCount
        /\ restarts'[c] = restarts[c]
        /\ row[c].restartCount \in Nat /\ restarts[c] \in Nat
    BY DEF RInv, RTypeInv, TypeInv, TypeOK, Row, HandlerTypes
  <1>3. /\ Cardinality(HandlersAt("backoff", c)')
              <= Cardinality(HandlersAt("backoff", c))
        /\ Cardinality(HandlersAt("restart", c)')
              <= Cardinality(HandlersAt("restart", c))
    <2>1. /\ HandlersAt("backoff", c)' \subseteq HandlersAt("backoff", c)
          /\ HandlersAt("restart", c)' \subseteq HandlersAt("restart", c)
      OBVIOUS
    <2> QED
      BY <2>1, HandlersAtShrinks
  <1>4. /\ Cardinality(HandlersAt("backoff", c)) \in Nat
        /\ Cardinality(HandlersAt("restart", c)) \in Nat
        /\ Cardinality(HandlersAt("backoff", c)') \in Nat
        /\ Cardinality(HandlersAt("restart", c)') \in Nat
        /\ Cardinality(Handlers) \in Nat
        /\ MaxRestarts \in Nat
    BY HandlersAtFinite, HandlersAtFiniteNext, RecoveryAssumption
  <1> QED
    BY <1>1, <1>2, <1>3, <1>4 DEF Budget

\* A handler that goes anywhere but behind the check or to Docker's call.
LEMMA MoveShrinks ==
    ASSUME NEW h \in Handlers, \A g \in Handlers : g # h => hnd'[g] = hnd[g],
           hnd'[h].pc \notin {"backoff", "restart"}
    PROVE  \A c \in Containers, pc \in {"backoff", "restart"} :
               HandlersAt(pc, c)' \subseteq HandlersAt(pc, c)
  BY DEF HandlersAt

\* The row of the call's container goes.
Deletes(a) == row' = [row EXCEPT ![call[a].id].present = FALSE]

\* What the lifecycle's steps do to the rows: the commit of a start or a stop,
\* the UPDATE after a start, the DELETE, or nothing.
LEMMA ManagerStepWrites ==
    ASSUME ManagerStep
    PROVE  \/ UNCHANGED row
           \/ \E a \in Actors : \/ At(a, "commit") /\ WriteBack(a)
                                \/ ResetHealth(a)
                                \/ At(a, "commitDelete") /\ Deletes(a)
  <1>1. ASSUME NEW a \in Actors, Progress(a)
        PROVE  \/ UNCHANGED row
               \/ At(a, "commit") /\ WriteBack(a)
               \/ ResetHealth(a)
               \/ At(a, "commitDelete") /\ Deletes(a)
    BY <1>1 DEF Progress, UpdateContainer, DeleteContainer, WriteRow,
       DockerCall, Commit, CommitDelete, CleanupStop, CleanupRemove, Deletes
  <1>2. ASSUME NEW a \in Actors, Failure(a)
        PROVE  \/ UNCHANGED row
               \/ At(a, "commit") /\ WriteBack(a)
               \/ At(a, "commitDelete") /\ Deletes(a)
    BY <1>2 DEF Failure, Abort, DockerCallGivenUp, LateCommit, CleanupStopFails,
       CleanupRemoveFails, Deletes
  <1> QED
    BY <1>1, <1>2 DEF ManagerStep, BeginCall, LateDockerEffect, WatcherTick,
       StopExpired, WatcherTimeout, ContainerExits, Tick

\* The lifecycle's steps neither touch restart_count nor bring a row back.
LEMMA ManagerStepRows ==
    ASSUME TypeInv, ManagerStep
    PROVE  \A c \in Containers : /\ row'[c].present => row[c].present
                                 /\ row'[c].restartCount = row[c].restartCount
  <1>1. ASSUME NEW a \in Actors, At(a, "commit"), WriteBack(a)
        PROVE  \A c \in Containers : /\ row'[c].present => row[c].present
                                     /\ row'[c].restartCount = row[c].restartCount
    BY <1>1 DEF WriteBack, TypeInv, TypeOK, Row
  <1>2. ASSUME NEW a \in Actors, ResetHealth(a)
        PROVE  \A c \in Containers : /\ row'[c].present => row[c].present
                                     /\ row'[c].restartCount = row[c].restartCount
    <2>1. PICK d \in Containers : call[a].id = d
      BY <1>2 DEF TypeInv, CallInv, ResetHealth, At
    <2> DEFINE new == [row[d] EXCEPT !.health = "none", !.oomKilled = FALSE,
                                     !.circuitOpen = FALSE]
    <2>2. /\ new.present = row[d].present
          /\ new.restartCount = row[d].restartCount
      BY DEF TypeInv, TypeOK, Row
    <2>3. row' = row \/ row' = [row EXCEPT ![d] = new]
      BY <1>2, <2>1 DEF ResetHealth
    <2> HIDE DEF new
    <2> QED
      BY <2>2, <2>3 DEF TypeInv, TypeOK
  <1>3. ASSUME NEW a \in Actors, Deletes(a)
        PROVE  \A c \in Containers : /\ row'[c].present => row[c].present
                                     /\ row'[c].restartCount = row[c].restartCount
    BY <1>3 DEF Deletes, TypeInv, TypeOK, Row
  <1> QED
    BY <1>1, <1>2, <1>3, ManagerStepWrites

-----------------------------------------------------------------------------
\* One lemma per kind of step.

\* The listener connects or loses its stream.
LEMMA ListenerRInv ==
    ASSUME RInv, Connect \/ StreamDrops
    PROVE  RInv'
  <1>1. UNCHANGED <<row, hnd, restarts, notices>>
    BY DEF Connect, StreamDrops, managerVars, recoveryVars
  <1>2. TypeInv'
    <2>1. events' \in Seq([type : EventTypes, id : Containers])
      <3>1. events' = events \/ events' = <<>>
        BY DEF Connect, StreamDrops
      <3>2. <<>> \in Seq([type : EventTypes, id : Containers])
        OBVIOUS
      <3> QED
        BY <3>1, <3>2 DEF RInv, RTypeInv, TypeInv, TypeOK, DockerTypeOK
    <2>2. faults' \in Nat
      BY DEF Connect, StreamDrops, Fault, managerVars, RInv, RTypeInv, TypeInv,
             TypeOK
    <2>3. connected' \in BOOLEAN
      BY DEF Connect, StreamDrops
    <2>4. UNCHANGED <<docker, row, lock, call, expired, now, slipped, loose, crashes>>
      BY DEF Connect, StreamDrops, managerVars
    <2> QED
      BY <2>1, <2>2, <2>3, <2>4
         DEF RInv, RTypeInv, TypeInv, TypeOK, DockerTypeOK, CallInv, loose
  <1>3. RTypeInv'
    BY <1>1, <1>2 DEF RInv, RTypeInv, HandlerTypes, HandlerInv
  <1>4. BudgetInv'
    BY <1>1 DEF RInv, BudgetInv, Budget, HandlersAt
  <1> QED
    BY <1>3, <1>4 DEF RInv

\* dispatch starts a handler at the beginning of its method.
LEMMA DispatchRInv ==
    ASSUME RInv, NEW h \in Handlers, Dispatch(h)
    PROVE  RInv'
  <1> USE DEF RInv, RTypeInv
  <1>1. /\ events # <<>> /\ events' = Tail(events)
        /\ UNCHANGED <<docker, connected, row, lock, call, expired, now,
                       slipped, loose, faults, crashes, restarts, notices>>
    BY DEF Dispatch, managerVars
  <1>2. /\ events' \in Seq([type : EventTypes, id : Containers])
        /\ Head(events) \in [type : EventTypes, id : Containers]
    <2> DEFINE S == [type : EventTypes, id : Containers]
    <2>1. events \in Seq(S)
      BY DEF TypeInv, TypeOK, DockerTypeOK
    <2> HIDE DEF S
    <2>2. Tail(events) \in Seq(S) /\ Head(events) \in S
      BY <1>1, <2>1
    <2> QED
      BY <1>1, <2>2 DEF S
  <1>3. TypeInv'
    BY <1>1, <1>2 DEF TypeInv, TypeOK, DockerTypeOK, CallInv, loose
  <1>4. CASE hnd' = hnd
    <2>1. HandlerTypes'
      BY <1>1, <1>4 DEF HandlerTypes, HandlerInv
    <2>2. BudgetInv'
      BY <1>1, <1>4 DEF BudgetInv, Budget, HandlersAt
    <2> QED
      BY <1>3, <2>1, <2>2
  <1>5. CASE hnd' # hnd
    <2>1. PICK t \in EventTypes, c \in Containers :
             /\ t # "clean"
             /\ hnd' = [hnd EXCEPT ![h] = [pc |-> HandlerFor(t), id |-> c]]
      BY <1>2, <1>5 DEF Dispatch
    <2>2. HandlerFor(t) \in HandlerPCs \ {"idle", "backoff", "restart"}
      BY <2>1, HealthAssumption
         DEF HandlerFor, HandlerPCs, EventTypes, DieEvents
    <2>3. hnd' \in [Handlers -> [pc : HandlerPCs, id : Containers \cup {None}]]
      BY <2>1, <2>2 DEF HandlerTypes
    <2>4. /\ \A g \in Handlers : g # h => hnd'[g] = hnd[g]
          /\ hnd'[h].pc = HandlerFor(t) /\ hnd'[h].id = c
      BY <2>1 DEF HandlerTypes
    <2>5. HandlerTypes'
      BY <1>1, <2>3, <2>4 DEF HandlerTypes, HandlerInv
    <2>6. \A d \in Containers, pc \in {"backoff", "restart"} :
             HandlersAt(pc, d)' \subseteq HandlersAt(pc, d)
      BY <2>2, <2>4, MoveShrinks
    <2>7. BudgetInv'
      BY <1>1, <1>3, <2>5, <2>6, BudgetFrame
    <2> QED
      BY <1>3, <2>5, <2>7
  <1> QED
    BY <1>4, <1>5

\* A health check only adds an event.
LEMMA HealthCheckRInv ==
    ASSUME RInv, NEW c \in Containers, NEW s \in HealthStatuses, HealthCheck(c, s)
    PROVE  RInv'
  <1>1. /\ Emit(<<Event(s, c)>>)
        /\ UNCHANGED <<docker, connected, row, lock, call, expired, now,
                       slipped, loose, faults, crashes, hnd, restarts, notices>>
    BY DEF HealthCheck, HealthReport, managerVars, recoveryVars
  <1>2. <<Event(s, c)>> \in Seq([type : EventTypes, id : Containers])
    BY DEF Event, EventTypes
  <1>3. events' \in Seq([type : EventTypes, id : Containers])
    BY <1>1, <1>2, EmitType DEF RInv, RTypeInv, TypeInv, TypeOK
  <1>4. TypeInv'
    BY <1>1, <1>3 DEF RInv, RTypeInv, TypeInv, TypeOK, DockerTypeOK, CallInv, loose
  <1>5. RTypeInv'
    BY <1>1, <1>4 DEF RInv, RTypeInv, HandlerTypes, HandlerInv
  <1>6. BudgetInv'
    BY <1>1 DEF RInv, BudgetInv, Budget, HandlersAt
  <1> QED
    BY <1>5, <1>6 DEF RInv

\* The SELECT: a handler passes the check only while the counter is below the
\* limit, and there are never more handlers behind it than handlers.
LEMMA LookupRInv ==
    ASSUME RInv, NEW h \in Handlers, Lookup(h)
    PROVE  RInv'
  <1> USE DEF RInv, RTypeInv
  <1>1. PICK c \in Containers : hnd[h].id = c
    BY DEF HandlerTypes, HandlerInv, Lookup
  <1>2. /\ hnd[h].pc = "lookup"
        /\ UNCHANGED <<vars, restarts, notices>>
        /\ \/ HGoto(h, Decision(row[c]))
           \/ HReturn(h)
    BY <1>1 DEF Lookup
  <1>3. Decision(row[c]) \in {"open", "backoff"} \cap HandlerPCs
    BY DEF Decision, HandlerPCs
  <1>4. /\ hnd' \in [Handlers -> [pc : HandlerPCs, id : Containers \cup {None}]]
        /\ HandlerInv'
        /\ \A g \in Handlers : g # h => hnd'[g] = hnd[g]
        /\ hnd'[h].pc \in {Decision(row[c]), "idle"}
        /\ HGoto(h, Decision(row[c])) => hnd'[h].id = c
    BY <1>1, <1>2, <1>3, HandlerMoveTypes
  <1>5. TypeInv'
    BY <1>2, StutterTypes
  <1>6. HandlerTypes'
    BY <1>2, <1>4 DEF HandlerTypes
  <1>7. UNCHANGED <<row, restarts>>
    BY <1>2 DEF vars, managerVars
  <1>8. CASE hnd'[h].pc # "backoff"
    <2>1. \A d \in Containers, pc \in {"backoff", "restart"} :
             HandlersAt(pc, d)' \subseteq HandlersAt(pc, d)
      BY <1>3, <1>4, <1>8, MoveShrinks
    <2>2. BudgetInv'
      BY <1>5, <1>6, <1>7, <2>1, BudgetFrame
    <2> QED
      BY <1>5, <1>6, <2>2
  <1>9. CASE hnd'[h].pc = "backoff"
    <2>1. row[c].restartCount < MaxRestarts /\ HGoto(h, Decision(row[c]))
      <3>1. Decision(row[c]) = "backoff"
        BY <1>4, <1>9
      <3>2. ~(row[c].restartCount >= MaxRestarts)
        BY <3>1 DEF Decision
      <3>3. row[c].restartCount \in Nat /\ MaxRestarts \in Nat
        BY RecoveryAssumption DEF TypeInv, TypeOK, Row
      <3>4. ~HReturn(h)
        BY <1>9 DEF HReturn, NoHandler, HandlerTypes
      <3> QED
        BY <1>2, <3>2, <3>3, <3>4
    <2> SUFFICES ASSUME NEW d \in Containers, row'[d].present
                 PROVE  Budget(d)'
      BY <1>5, <1>6 DEF BudgetInv
    <2>2. /\ Budget(d) /\ row[d].restartCount \in Nat /\ restarts[d] \in Nat
          /\ row'[d] = row[d] /\ restarts'[d] = restarts[d]
      BY <1>7 DEF BudgetInv, TypeInv, TypeOK, Row, HandlerTypes
    <2>3. HandlersAt("restart", d)' \subseteq HandlersAt("restart", d)
      BY <1>4, <1>9 DEF HandlersAt
    <2>4. d # c => HandlersAt("backoff", d)' \subseteq HandlersAt("backoff", d)
      BY <1>4, <2>1 DEF HandlersAt
    <2>5. /\ Cardinality(HandlersAt("restart", d)')
                <= Cardinality(HandlersAt("restart", d))
          /\ d # c => Cardinality(HandlersAt("backoff", d)')
                         <= Cardinality(HandlersAt("backoff", d))
      BY <2>3, <2>4, HandlersAtShrinks
    <2>6. /\ Cardinality(HandlersAt("backoff", d)) \in Nat
          /\ Cardinality(HandlersAt("restart", d)) \in Nat
          /\ Cardinality(HandlersAt("backoff", d)') \in Nat
          /\ Cardinality(HandlersAt("restart", d)') \in Nat
          /\ Cardinality(HandlersAt("backoff", d)') <= Cardinality(Handlers)
          /\ Cardinality(Handlers) \in Nat
          /\ MaxRestarts \in Nat
      BY HandlersAtFinite, HandlersAtFiniteNext, RecoveryAssumption
    <2> QED
      BY <2>1, <2>2, <2>5, <2>6 DEF Budget
  <1> QED
    BY <1>8, <1>9

\* An UPDATE that leaves the counter alone, by a handler that is neither behind
\* the check afterwards nor about to call Docker.
LEMMA QuietUpdate ==
    ASSUME RInv, NEW h \in Handlers, NEW c \in Containers, NEW new \in Row,
           new.present = row[c].present,
           new.restartCount = row[c].restartCount,
           UpdateRow(c, new),
           NEW pc \in HandlerPCs \ {"backoff", "restart"},
           hnd[h].pc # "idle", HGoto(h, pc) \/ HReturn(h),
           UNCHANGED <<restarts, notices>>
    PROVE  RInv'
  <1> USE DEF RInv, RTypeInv
  <1>1. TypeInv'
    BY UpdateRowTypes
  <1>2. /\ hnd' \in [Handlers -> [pc : HandlerPCs, id : Containers \cup {None}]]
        /\ HandlerInv'
        /\ \A g \in Handlers : g # h => hnd'[g] = hnd[g]
        /\ hnd'[h].pc \in {pc, "idle"}
    BY HandlerMoveTypes
  <1>3. HandlerTypes'
    BY <1>2 DEF HandlerTypes
  <1>4. \A d \in Containers, p \in {"backoff", "restart"} :
           HandlersAt(p, d)' \subseteq HandlersAt(p, d)
    BY <1>2, MoveShrinks
  <1>5. \A d \in Containers : /\ row'[d].present => row[d].present
                              /\ row'[d].restartCount = row[d].restartCount
    BY DEF UpdateRow, TypeInv, TypeOK
  <1>6. BudgetInv'
    BY <1>1, <1>3, <1>4, <1>5, BudgetFrame
  <1> QED
    BY <1>1, <1>3, <1>6

\* The UPDATEs of a handler that do not count a restart.
LEMMA MarkRInv ==
    ASSUME RInv, NEW h \in Handlers,
           \/ OpenCircuit(h) \/ MarkRunning(h) \/ MarkStopped(h)
           \/ MarkOOM(h) \/ MarkHealth(h)
    PROVE  RInv'
  <1>0. /\ HealthStatuses \subseteq {"healthy", "unhealthy", "starting"}
        /\ row \in [Containers -> Row] /\ now \in Nat
    BY HealthAssumption DEF RInv, RTypeInv, TypeInv, TypeOK
  <1>1. hnd[h].pc # "idle" /\ UNCHANGED <<restarts, notices>>
    BY <1>0 DEF OpenCircuit, MarkRunning, MarkStopped, MarkOOM, MarkHealth
  <1>2. PICK c \in Containers : hnd[h].id = c
    BY <1>1 DEF RInv, RTypeInv, HandlerTypes, HandlerInv
  <1>3. {"tellOpened", "tellRestarted", "tellUnhealthy"}
            \subseteq HandlerPCs \ {"backoff", "restart"}
    BY DEF HandlerPCs
  <1>4. CASE OpenCircuit(h)
    <2> DEFINE new == [row[c] EXCEPT !.circuitOpen = TRUE, !.status = "stopped"]
    <2>1. new \in Row /\ new.present = row[c].present
                      /\ new.restartCount = row[c].restartCount
      BY <1>0 DEF Row, Statuses
    <2>2. UpdateRow(c, new) /\ HGoto(h, "tellOpened")
      BY <1>2, <1>4 DEF OpenCircuit
    <2> QED
      BY <1>1, <1>3, <2>1, <2>2, QuietUpdate
  <1>5. CASE MarkRunning(h)
    <2> DEFINE new == [row[c] EXCEPT !.status = "running", !.startedAt = now]
    <2>1. new \in Row /\ new.present = row[c].present
                      /\ new.restartCount = row[c].restartCount
      BY <1>0 DEF Row, Statuses
    <2>2. UpdateRow(c, new) /\ HGoto(h, "tellRestarted")
      BY <1>2, <1>5 DEF MarkRunning
    <2> QED
      BY <1>1, <1>3, <2>1, <2>2, QuietUpdate
  <1>6. CASE MarkStopped(h)
    <2> DEFINE new == [row[c] EXCEPT !.status = "stopped"]
    <2>1. new \in Row /\ new.present = row[c].present
                      /\ new.restartCount = row[c].restartCount
      BY <1>0 DEF Row, Statuses
    <2>2. UpdateRow(c, new) /\ HReturn(h)
      BY <1>2, <1>6 DEF MarkStopped
    <2> QED
      BY <1>1, <1>3, <2>1, <2>2, QuietUpdate
  <1>7. CASE MarkOOM(h)
    <2> DEFINE new == [row[c] EXCEPT !.oomKilled = TRUE]
    <2>1. new \in Row /\ new.present = row[c].present
                      /\ new.restartCount = row[c].restartCount
      BY <1>0 DEF Row
    <2>2. UpdateRow(c, new) /\ HReturn(h)
      BY <1>2, <1>7 DEF MarkOOM
    <2> QED
      BY <1>1, <1>3, <2>1, <2>2, QuietUpdate
  <1>8. CASE MarkHealth(h)
    <2> DEFINE new == [row[c] EXCEPT !.health = hnd[h].pc]
    <2>1. new \in Row /\ new.present = row[c].present
                      /\ new.restartCount = row[c].restartCount
      BY <1>0, <1>8 DEF Row, MarkHealth
    <2>2. UpdateRow(c, new) /\ (HGoto(h, "tellUnhealthy") \/ HReturn(h))
      BY <1>2, <1>8 DEF MarkHealth
    <2> QED
      BY <1>1, <1>3, <2>1, <2>2, QuietUpdate
  <1> QED
    BY <1>4, <1>5, <1>6, <1>7, <1>8

\* The counter goes up by one and the handler that raised it leaves the ones
\* behind the check; it is now one of those about to call Docker.
LEMMA CountRestartRInv ==
    ASSUME RInv, NEW h \in Handlers, CountRestart(h)
    PROVE  RInv'
  <1> USE DEF RInv, RTypeInv
  <1>1. PICK c \in Containers : hnd[h].id = c
    BY DEF HandlerTypes, HandlerInv, CountRestart
  <1> DEFINE new == [row[c] EXCEPT !.restartCount = @ + 1, !.status = "starting"]
  <1>2. /\ hnd[h].pc = "backoff" /\ HGoto(h, "restart") /\ UpdateRow(c, new)
        /\ UNCHANGED <<restarts, notices>>
    BY <1>1 DEF CountRestart
  <1>3. /\ new \in Row /\ new.restartCount = row[c].restartCount + 1
        /\ new.present = row[c].present
    <2>1. row[c] \in Row
      BY DEF TypeInv, TypeOK
    <2>2. row[c].restartCount + 1 \in Nat
      BY <2>1 DEF Row
    <2>3. new = [row[c] EXCEPT !.restartCount = row[c].restartCount + 1,
                               !.status = "starting"]
      BY <2>1 DEF Row
    <2> QED
      BY <2>1, <2>2, <2>3 DEF Row, Statuses
  <1> HIDE DEF new
  <1>4. TypeInv'
    BY <1>2, <1>3, UpdateRowTypes
  <1>5. /\ hnd' \in [Handlers -> [pc : HandlerPCs, id : Containers \cup {None}]]
        /\ HandlerInv'
        /\ \A g \in Handlers : g # h => hnd'[g] = hnd[g]
        /\ hnd'[h].pc = "restart" /\ hnd'[h].id = c
    <2>1. "restart" \in HandlerPCs
      BY DEF HandlerPCs
    <2> QED
      BY <1>1, <1>2, <2>1, HandlerMoveTypes
  <1>6. HandlerTypes'
    BY <1>2, <1>5 DEF HandlerTypes
  <1>7. BudgetInv'
    <2> SUFFICES ASSUME NEW d \in Containers, row'[d].present
                 PROVE  Budget(d)'
      BY DEF BudgetInv
    <2>1. /\ row[d].present /\ restarts'[d] = restarts[d]
          /\ d = c => row'[d].restartCount = row[d].restartCount + 1
          /\ d # c => row'[d].restartCount = row[d].restartCount
      BY <1>2, <1>3 DEF UpdateRow, TypeInv, TypeOK
    <2>2. Budget(d) /\ row[d].restartCount \in Nat /\ restarts[d] \in Nat
      BY <2>1 DEF BudgetInv, TypeInv, TypeOK, Row, HandlerTypes
    <2>3. CASE d = c
      <3>1. /\ HandlersAt("backoff", c)' = HandlersAt("backoff", c) \ {h}
            /\ HandlersAt("restart", c)' = HandlersAt("restart", c) \cup {h}
            /\ h \in HandlersAt("backoff", c) /\ h \notin HandlersAt("restart", c)
        BY <1>1, <1>2, <1>5 DEF HandlersAt
      <3>2. /\ Cardinality(HandlersAt("backoff", c)')
                  = Cardinality(HandlersAt("backoff", c)) - 1
            /\ Cardinality(HandlersAt("restart", c)')
                  = Cardinality(HandlersAt("restart", c)) + 1
        <4> DEFINE B == HandlersAt("backoff", c)
                   R == HandlersAt("restart", c)
        <4>1. IsFiniteSet(B) /\ IsFiniteSet(R)
          BY HandlersAtFinite
        <4> HIDE DEF B, R
        <4>2. h \in B => Cardinality(B \ {h}) = Cardinality(B) - 1
          BY <4>1, FS_RemoveElement
        <4>3. h \notin R => Cardinality(R \cup {h}) = Cardinality(R) + 1
          BY <4>1, FS_AddElement
        <4> QED
          BY <3>1, <4>2, <4>3 DEF B, R
      <3>3. /\ Cardinality(HandlersAt("backoff", c)) \in Nat
            /\ Cardinality(HandlersAt("restart", c)) \in Nat
            /\ Cardinality(Handlers) \in Nat /\ MaxRestarts \in Nat
        BY HandlersAtFinite, RecoveryAssumption
      <3> QED
        BY <2>1, <2>2, <2>3, <3>2, <3>3 DEF Budget
    <2>4. CASE d # c
      <3>1. /\ HandlersAt("backoff", d)' = HandlersAt("backoff", d)
            /\ HandlersAt("restart", d)' = HandlersAt("restart", d)
        BY <1>1, <1>5, <2>4 DEF HandlersAt
      <3> QED
        BY <2>1, <2>2, <2>4, <3>1 DEF Budget
    <2> QED
      BY <2>3, <2>4
  <1> QED
    BY <1>4, <1>6, <1>7

\* A handler that leaves Docker's call for pc may have made it: the number of
\* calls goes up by one at most, the number of handlers about to call goes down.
LEMMA CalledBudget ==
    ASSUME RInv, NEW h \in Handlers, NEW c \in Containers,
           hnd[h].id = c, hnd[h].pc = "restart",
           hnd'[h].pc \notin {"backoff", "restart"},
           \A g \in Handlers : g # h => hnd'[g] = hnd[g],
           UNCHANGED row, CountCall(c)
    PROVE  BudgetInv' /\ restarts' \in [Containers -> Nat]
  <1> USE DEF RInv, RTypeInv
  <1>1. /\ restarts' \in [Containers -> Nat]
        /\ restarts'[c] <= restarts[c] + 1
        /\ \A d \in Containers : d # c => restarts'[d] = restarts[d]
    BY RecoveryAssumption DEF CountCall, HandlerTypes
  <1> SUFFICES ASSUME NEW d \in Containers, row'[d].present
               PROVE  Budget(d)'
    BY <1>1 DEF BudgetInv
  <1>2. /\ Budget(d) /\ row[d].restartCount \in Nat /\ restarts[d] \in Nat
        /\ row'[d] = row[d] /\ restarts'[d] \in Nat
    BY <1>1 DEF BudgetInv, TypeInv, TypeOK, Row, HandlerTypes
  <1>3. Cardinality(HandlersAt("backoff", d)')
            <= Cardinality(HandlersAt("backoff", d))
    <2>1. HandlersAt("backoff", d)' \subseteq HandlersAt("backoff", d)
      BY DEF HandlersAt
    <2> QED
      BY <2>1, HandlersAtShrinks
  <1>4. restarts'[d] + Cardinality(HandlersAt("restart", d)')
            <= restarts[d] + Cardinality(HandlersAt("restart", d))
    <2> DEFINE R == HandlersAt("restart", d)
    <2>1. IsFiniteSet(R) /\ Cardinality(R) \in Nat
      BY HandlersAtFinite
    <2>2. CASE d = c
      <3>1. HandlersAt("restart", d)' = R \ {h} /\ h \in R
        BY <2>2 DEF HandlersAt
      <3>2. Cardinality(HandlersAt("restart", d)') = Cardinality(R) - 1
        BY <2>1, <3>1, FS_RemoveElement
      <3> HIDE DEF R
      <3>3. restarts'[d] + Cardinality(HandlersAt("restart", d)')
                <= restarts[d] + Cardinality(R)
        BY <1>1, <1>2, <2>1, <2>2, <3>2
      <3> QED
        BY <3>3 DEF R
    <2>3. CASE d # c
      <3>1. HandlersAt("restart", d)' = R
        BY <2>3 DEF HandlersAt
      <3> QED
        BY <1>1, <1>2, <2>1, <2>3, <3>1
    <2> QED
      BY <2>2, <2>3
  <1>5. /\ Cardinality(HandlersAt("backoff", d)) \in Nat
        /\ Cardinality(HandlersAt("restart", d)) \in Nat
        /\ Cardinality(HandlersAt("backoff", d)') \in Nat
        /\ Cardinality(HandlersAt("restart", d)') \in Nat
        /\ Cardinality(Handlers) \in Nat
        /\ MaxRestarts \in Nat
    BY HandlersAtFinite, HandlersAtFiniteNext, RecoveryAssumption
  <1> QED
    BY <1>2, <1>3, <1>4, <1>5 DEF Budget

\* The call of ContainerRestart.
LEMMA RestartRInv ==
    ASSUME RInv, NEW h \in Handlers, Restart(h)
    PROVE  RInv'
  <1> USE DEF RInv, RTypeInv
  <1>1. PICK c \in Containers : hnd[h].id = c
    BY DEF HandlerTypes, HandlerInv, Restart
  <1>2. /\ hnd[h].pc = "restart" /\ CountCall(c)
        /\ HGoto(h, "mark") \/ HGoto(h, "failed")
        /\ ContainerRestart(c) \/ UNCHANGED <<docker, events>>
        /\ UNCHANGED <<connected, row, lock, call, expired, now, slipped, loose,
                       faults, crashes, notices>>
    BY <1>1 DEF Restart, managerVars
  <1>3. /\ docker' \in [Containers -> DockerStates]
        /\ events' \in Seq([type : EventTypes, id : Containers])
    BY <1>2, RestartEffect DEF TypeInv, TypeOK, DockerTypeOK
  <1>4. TypeInv'
    BY <1>2, <1>3 DEF TypeInv, TypeOK, DockerTypeOK, CallInv, loose
  <1>5. /\ hnd' \in [Handlers -> [pc : HandlerPCs, id : Containers \cup {None}]]
        /\ HandlerInv'
        /\ \A g \in Handlers : g # h => hnd'[g] = hnd[g]
        /\ hnd'[h].pc \in {"mark", "failed", "idle"}
    <2>1. {"mark", "failed"} \subseteq HandlerPCs
      BY DEF HandlerPCs
    <2> QED
      BY <1>2, <2>1, HandlerMoveTypes
  <1>6. BudgetInv' /\ restarts' \in [Containers -> Nat]
    BY <1>1, <1>2, <1>5, CalledBudget
  <1>7. HandlerTypes'
    BY <1>2, <1>5, <1>6 DEF HandlerTypes
  <1> QED
    BY <1>4, <1>6, <1>7

\* A notification.
LEMMA TellRInv ==
    ASSUME RInv, NEW h \in Handlers, Tell(h)
    PROVE  RInv'
  <1> USE DEF RInv, RTypeInv
  <1>1. /\ hnd[h].pc \in {"tellOpened", "tellRestarted", "tellUnhealthy"}
        /\ HReturn(h) /\ UNCHANGED <<vars, restarts>>
    BY DEF Tell
  <1>2. PICK c \in Containers : hnd[h].id = c
    BY <1>1 DEF HandlerTypes, HandlerInv
  <1>3. notices' \subseteq [type : NoticeTypes, id : Containers]
    <2>1. NoticeOf(hnd[h].pc) \in NoticeTypes
      BY <1>1 DEF NoticeOf, NoticeTypes
    <2> QED
      BY <1>2, <2>1 DEF Tell, HandlerTypes
  <1>4. /\ hnd' \in [Handlers -> [pc : HandlerPCs, id : Containers \cup {None}]]
        /\ HandlerInv'
        /\ \A g \in Handlers : g # h => hnd'[g] = hnd[g]
        /\ hnd'[h].pc = "idle"
    <2>1. "idle" \in HandlerPCs
      BY DEF HandlerPCs
    <2> QED
      BY <1>1, <2>1, HandlerMoveTypes
  <1>5. TypeInv'
    BY <1>1, StutterTypes
  <1>6. HandlerTypes'
    BY <1>1, <1>3, <1>4 DEF HandlerTypes
  <1>7. \A d \in Containers, pc \in {"backoff", "restart"} :
           HandlersAt(pc, d)' \subseteq HandlersAt(pc, d)
    BY <1>4, MoveShrinks
  <1>8. UNCHANGED <<row, restarts>>
    BY <1>1 DEF vars, managerVars
  <1>9. BudgetInv'
    BY <1>5, <1>6, <1>7, <1>8, BudgetFrame
  <1> QED
    BY <1>5, <1>6, <1>9

\* A statement of a handler that fails.
LEMMA HandlerErrorRInv ==
    ASSUME RInv, NEW h \in Handlers, HandlerError(h)
    PROVE  RInv'
  <1> USE DEF RInv, RTypeInv
  <1>1. /\ hnd[h].pc # "idle" /\ Fault
        /\ UNCHANGED <<dockerVars, row, lock, call, expired, now, slipped, loose,
                       crashes, notices>>
        /\ HReturn(h) \/ HGoto(h, AfterError(hnd[h].pc))
    BY DEF HandlerError
  <1>2. PICK c \in Containers : hnd[h].id = c
    BY <1>1 DEF HandlerTypes, HandlerInv
  <1>3. AfterError(hnd[h].pc) \in HandlerPCs \ {"backoff", "restart"}
    BY DEF AfterError, HandlerPCs
  <1>4. /\ hnd' \in [Handlers -> [pc : HandlerPCs, id : Containers \cup {None}]]
        /\ HandlerInv'
        /\ \A g \in Handlers : g # h => hnd'[g] = hnd[g]
        /\ hnd'[h].pc \notin {"backoff", "restart"}
    BY <1>1, <1>3, HandlerMoveTypes
  <1>5. TypeInv'
    BY <1>1 DEF Fault, TypeInv, TypeOK, DockerTypeOK, CallInv, dockerVars, loose
  <1>6. CASE hnd[h].pc = "restart"
    <2>1. CountCall(c) /\ UNCHANGED row
      BY <1>1, <1>2, <1>6 DEF HandlerError
    <2>2. BudgetInv' /\ restarts' \in [Containers -> Nat]
      BY <1>2, <1>4, <1>6, <2>1, CalledBudget
    <2> QED
      BY <1>1, <1>4, <1>5, <2>2 DEF HandlerTypes
  <1>7. CASE hnd[h].pc # "restart"
    <2>1. UNCHANGED <<row, restarts>>
      BY <1>1, <1>7 DEF HandlerError
    <2>2. HandlerTypes'
      BY <1>1, <1>4, <2>1 DEF HandlerTypes
    <2>3. \A d \in Containers, pc \in {"backoff", "restart"} :
             HandlersAt(pc, d)' \subseteq HandlersAt(pc, d)
      BY <1>4, MoveShrinks
    <2>4. BudgetInv'
      BY <1>5, <2>1, <2>2, <2>3, BudgetFrame
    <2> QED
      BY <1>5, <2>2, <2>4
  <1> QED
    BY <1>6, <1>7

\* A reset: handlers under way are the only restarts that can still be counted.
LEMMA ResetCircuitRInv ==
    ASSUME RInv, NEW c \in Containers, ResetCircuit(c)
    PROVE  RInv'
  <1> USE DEF RInv, RTypeInv
  <1> DEFINE new == [row[c] EXCEPT !.circuitOpen = FALSE, !.restartCount = 0,
                                   !.oomKilled = FALSE]
  <1>1. /\ row[c].present /\ UpdateRow(c, new) /\ UNCHANGED <<hnd, notices>>
        /\ restarts' = [restarts EXCEPT ![c] = 0]
    BY DEF ResetCircuit
  <1>2. new \in Row /\ new.restartCount = 0 /\ new.present = row[c].present
    BY DEF TypeInv, TypeOK, Row
  <1> HIDE DEF new
  <1>3. TypeInv'
    BY <1>1, <1>2, UpdateRowTypes
  <1>4. HandlerTypes'
    BY <1>1 DEF HandlerTypes, HandlerInv
  <1>5. BudgetInv'
    <2> SUFFICES ASSUME NEW d \in Containers, row'[d].present
                 PROVE  Budget(d)'
      BY DEF BudgetInv
    <2>1. CASE d = c
      <3>1. row'[d].restartCount = 0 /\ restarts'[d] = 0
        BY <1>1, <1>2, <2>1 DEF UpdateRow, TypeInv, TypeOK, HandlerTypes
      <3>2. /\ Cardinality(HandlersAt("backoff", d)') \in Nat
            /\ Cardinality(HandlersAt("restart", d)') \in Nat
            /\ Cardinality(HandlersAt("backoff", d)') <= Cardinality(Handlers)
            /\ Cardinality(HandlersAt("restart", d)') <= Cardinality(Handlers)
            /\ Cardinality(Handlers) \in Nat
            /\ MaxRestarts \in Nat \ {0}
        BY HandlersAtFinite, HandlersAtFiniteNext, RecoveryAssumption
      <3> QED
        BY <3>1, <3>2 DEF Budget
    <2>2. CASE d # c
      <3>1. row'[d] = row[d] /\ restarts'[d] = restarts[d]
        BY <1>1, <2>2 DEF UpdateRow, TypeInv, TypeOK, HandlerTypes
      <3>2. /\ HandlersAt("backoff", d)' = HandlersAt("backoff", d)
            /\ HandlersAt("restart", d)' = HandlersAt("restart", d)
        BY <1>1 DEF HandlersAt
      <3> QED
        BY <3>1, <3>2 DEF BudgetInv, Budget
    <2> QED
      BY <2>1, <2>2
  <1> QED
    BY <1>3, <1>4, <1>5

\* A crash of the server: no handler is left.
LEMMA RecoveryCrashRInv ==
    ASSUME RInv, RecoveryCrash
    PROVE  RInv'
  <1> USE DEF RInv, RTypeInv
  <1>1. /\ ServerCrash /\ UNCHANGED <<row, restarts, notices>>
        /\ hnd' = [h \in Handlers |-> NoHandler]
    BY DEF RecoveryCrash, ServerCrash
  <1>2. TypeInv'
    BY <1>1, ServerCrashTypes
  <1>3. HandlerTypes'
    <2>1. NoHandler \in [pc : HandlerPCs, id : Containers \cup {None}]
      BY DEF NoHandler, HandlerPCs
    <2> QED
      BY <1>1, <2>1 DEF HandlerTypes, HandlerInv, NoHandler
  <1>4. \A d \in Containers, pc \in {"backoff", "restart"} :
           HandlersAt(pc, d)' \subseteq HandlersAt(pc, d)
    BY <1>1 DEF HandlersAt, NoHandler
  <1>5. BudgetInv'
    BY <1>1, <1>2, <1>3, <1>4, BudgetFrame
  <1> QED
    BY <1>2, <1>3, <1>5

-----------------------------------------------------------------------------
\* Initially no handler is there and nothing was counted.
LEMMA InitRInv == RecoveryInit => RInv
  <1> SUFFICES ASSUME RecoveryInit PROVE RInv
    OBVIOUS
  <1>1. ManagerInit /\ hnd = [h \in Handlers |-> NoHandler]
                    /\ restarts = [c \in Containers |-> 0] /\ notices = {}
    BY DEF RecoveryInit
  <1>2. TypeInv
    BY <1>1, InitIInv DEF IInv, SafeInv
  <1>3. HandlerTypes
    <2>1. NoHandler \in [pc : HandlerPCs, id : Containers \cup {None}]
      BY DEF NoHandler, HandlerPCs
    <2> QED
      BY <1>1, <2>1 DEF HandlerTypes, HandlerInv, NoHandler
  <1>4. BudgetInv
    <2> SUFFICES ASSUME NEW c \in Containers
                 PROVE  Budget(c)
      BY DEF BudgetInv
    <2>1. row[c].restartCount = 0 /\ restarts[c] = 0
      BY <1>1 DEF ManagerInit, NewRow
    <2>2. /\ Cardinality(HandlersAt("backoff", c)) \in Nat
          /\ Cardinality(HandlersAt("restart", c)) \in Nat
          /\ Cardinality(HandlersAt("backoff", c)) <= Cardinality(Handlers)
          /\ Cardinality(HandlersAt("restart", c)) <= Cardinality(Handlers)
          /\ Cardinality(Handlers) \in Nat
          /\ MaxRestarts \in Nat \ {0}
      BY HandlersAtFinite, RecoveryAssumption
    <2> QED
      BY <2>1, <2>2 DEF Budget
  <1> QED
    BY <1>2, <1>3, <1>4 DEF RInv, RTypeInv

\* Every step of the lifecycle, the listener, the handlers and the owner.
LEMMA NextRInv == RInv /\ [RecoveryNext]_allVars => RInv'
  <1> SUFFICES ASSUME RInv, [RecoveryNext]_allVars PROVE RInv'
    OBVIOUS
  <1>1. CASE ManagerStep /\ UNCHANGED recoveryVars
    <2>1. UNCHANGED <<hnd, restarts, notices>>
      BY <1>1 DEF recoveryVars
    <2>2. TypeInv'
      BY <1>1, ManagerStepTypes DEF RInv, RTypeInv
    <2>3. RTypeInv'
      BY <2>1, <2>2 DEF RInv, RTypeInv, HandlerTypes, HandlerInv
    <2>4. \A c \in Containers : /\ row'[c].present => row[c].present
                                /\ row'[c].restartCount = row[c].restartCount
      BY <1>1, ManagerStepRows DEF RInv, RTypeInv
    <2>5. \A c \in Containers, pc \in {"backoff", "restart"} :
             HandlersAt(pc, c)' \subseteq HandlersAt(pc, c)
      BY <2>1 DEF HandlersAt
    <2>6. BudgetInv'
      BY <2>1, <2>3, <2>4, <2>5, BudgetFrame
    <2> QED
      BY <2>3, <2>6 DEF RInv
  <1>2. CASE Connect \/ StreamDrops
    BY <1>2, ListenerRInv
  <1>3. ASSUME NEW h \in Handlers, Dispatch(h) \/ HandlerStep(h) \/ HandlerError(h)
        PROVE  RInv'
    BY <1>3, DispatchRInv, LookupRInv, MarkRInv, CountRestartRInv, RestartRInv,
       TellRInv, HandlerErrorRInv DEF HandlerStep
  <1>4. ASSUME NEW c \in Containers, NEW s \in HealthStatuses, HealthCheck(c, s)
        PROVE  RInv'
    BY <1>4, HealthCheckRInv
  <1>5. ASSUME NEW c \in Containers, ResetCircuit(c)
        PROVE  RInv'
    BY <1>5, ResetCircuitRInv
  <1>6. CASE RecoveryCrash
    BY <1>6, RecoveryCrashRInv
  <1>7. CASE UNCHANGED allVars
    <2>1. UNCHANGED <<vars, row, hnd, restarts, notices>>
      BY <1>7 DEF allVars, vars, managerVars, recoveryVars
    <2>2. TypeInv'
      BY <2>1, StutterTypes DEF RInv, RTypeInv
    <2>3. HandlerTypes'
      BY <2>1 DEF RInv, RTypeInv, HandlerTypes, HandlerInv
    <2>4. BudgetInv'
      BY <2>1 DEF RInv, BudgetInv, Budget, HandlersAt
    <2> QED
      BY <2>2, <2>3, <2>4 DEF RInv, RTypeInv
  <1> QED
    BY <1>1, <1>2, <1>3, <1>4, <1>5, <1>6, <1>7 DEF RecoveryNext, RecoveryStep

(***************************************************************************)
(* The inductive invariant of lifecycle and recovery holds in every        *)
(* reachable state.                                                        *)
(***************************************************************************)
THEOREM RecoveryInvariant == RecoverySpec => []RInv
  BY InitRInv, NextRInv, PTL DEF RecoverySpec

\* The history of lost writes is about containers.
LostInv == lost \subseteq Containers

\* Every step keeps it so.
LEMMA LostNext == LostInv /\ RInv /\ [RecoveryNext]_allVars => LostInv'
  <1> SUFFICES ASSUME LostInv, RInv, [RecoveryNext]_allVars PROVE LostInv'
    OBVIOUS
  <1>1. ASSUME NEW h \in Handlers, Dispatch(h) \/ HandlerStep(h)
        PROVE  lost' \subseteq lost
    BY <1>1 DEF Dispatch, HandlerStep, Lookup, OpenCircuit, CountRestart, Restart,
       MarkRunning, MarkStopped, MarkOOM, MarkHealth, Tell
  <1>2. ASSUME NEW h \in Handlers, HandlerError(h)
        PROVE  LostInv'
    BY <1>2 DEF HandlerError, LostInv, RInv, RTypeInv, HandlerTypes, HandlerInv
  <1>3. CASE RecoveryCrash
    BY <1>3 DEF RecoveryCrash, LostInv, RInv, RTypeInv, HandlerTypes, HandlerInv
  <1>4. CASE (ManagerStep /\ UNCHANGED recoveryVars) \/ UNCHANGED allVars
    BY <1>4 DEF recoveryVars, allVars, LostInv
  <1>5. CASE Connect \/ StreamDrops
    BY <1>5 DEF Connect, StreamDrops, recoveryVars, LostInv
  <1>6. ASSUME NEW c \in Containers,
               ResetCircuit(c) \/ \E v \in HealthStatuses : HealthCheck(c, v)
        PROVE  LostInv'
    BY <1>6 DEF ResetCircuit, HealthCheck, recoveryVars, LostInv
  <1> QED
    BY <1>1, <1>2, <1>3, <1>4, <1>5, <1>6 DEF RecoveryNext, RecoveryStep, LostInv

(***************************************************************************)
(* Types of lifecycle and recovery together: whichever of them writes a    *)
(* row, its columns keep the values the code knows.                        *)
(***************************************************************************)
THEOREM RecoveryTypeCorrect == RecoverySpec => []RecoveryTypeOK
  <1>1. RInv /\ LostInv => RecoveryTypeOK
    BY DEF RInv, RTypeInv, TypeInv, HandlerTypes, RecoveryTypeOK, LostInv
  <1>2. RecoveryInit => LostInv
    BY DEF RecoveryInit, LostInv
  <1> QED
    BY <1>1, <1>2, LostNext, RecoveryInvariant, PTL DEF RecoverySpec

(***************************************************************************)
(* HandleCrash with any number of concurrent handlers: restart_count stays *)
(* below the plan's limit plus the number of handlers, and Docker is asked *)
(* for no more restarts than the counter shows plus that number.           *)
(***************************************************************************)
THEOREM RestartsBounded == RecoverySpec => []RestartBudget
  <1>1. RInv => RestartBudget
    <2> SUFFICES ASSUME RInv, NEW c \in Containers, row[c].present
                 PROVE  /\ row[c].restartCount
                              < MaxRestarts + Cardinality(Handlers)
                        /\ restarts[c]
                              <= row[c].restartCount + Cardinality(Handlers)
      BY DEF RestartBudget
    <2>1. Budget(c) /\ row[c].restartCount \in Nat /\ restarts[c] \in Nat
      BY DEF RInv, BudgetInv, RTypeInv, TypeInv, TypeOK, Row, HandlerTypes
    <2>2. /\ Cardinality(HandlersAt("backoff", c)) \in Nat
          /\ Cardinality(HandlersAt("restart", c)) \in Nat
          /\ Cardinality(Handlers) \in Nat
          /\ MaxRestarts \in Nat
      BY HandlersAtFinite, RecoveryAssumption
    <2> QED
      BY <2>1, <2>2 DEF Budget
  <1> QED
    BY <1>1, RecoveryInvariant, PTL

-----------------------------------------------------------------------------
\* Rows and containers beside recovery.

\* A step that keeps calls and locks, no row appearing or going and no container
\* being removed or brought back, keeps the safe part of the manager's
\* invariant.
LEMMA RecoveryFrame ==
    ASSUME SafeInv, TypeInv', UNCHANGED <<lock, call, slipped, loose>>,
           \A c \in Containers : row'[c].present = row[c].present,
           \A c \in Containers : docker'[c] = "absent" <=> docker[c] = "absent"
    PROVE  SafeInv'
  <1>1. LockInv'
    BY DEF SafeInv, LockInv
  <1>2. PresenceInv'
    <2>1. \A a \in Actors : call[a].pc \in Cleaning => call[a].id \in Containers
      BY DEF SafeInv, TypeInv, CallInv, Cleaning
    <2> QED
      BY <2>1 DEF SafeInv, PresenceInv
  <1>3. RowHasContainer' /\ NoUntracked'
    BY DEF SafeInv, RowHasContainer, NoUntracked, loose
  <1> QED
    BY <1>1, <1>2, <1>3 DEF SafeInv

\* An UPDATE by recovery neither makes nor deletes a row.
LEMMA UpdateRowSafe ==
    ASSUME SafeInv, TypeInv', NEW c \in Containers, NEW new,
           new.present = row[c].present, UpdateRow(c, new)
    PROVE  SafeInv'
  <1>1. \A d \in Containers : row'[d].present = row[d].present
    BY DEF UpdateRow, SafeInv, TypeInv, TypeOK
  <1>2. UNCHANGED <<docker, lock, call, slipped, loose>>
    BY DEF UpdateRow, dockerVars
  <1> QED
    BY <1>1, <1>2, RecoveryFrame

\* The statements of a handler.
LEMMA HandlerStepSafe ==
    ASSUME SafeInv, RInv, TypeInv', NEW h \in Handlers, HandlerStep(h)
    PROVE  SafeInv'
  <1>1. PICK c \in Containers : hnd[h].id = c
    BY HealthAssumption
       DEF RInv, RTypeInv, HandlerTypes, HandlerInv, HandlerStep, Lookup, OpenCircuit,
           CountRestart, Restart, MarkRunning, MarkStopped, MarkOOM, MarkHealth, Tell
  <1>2. CASE Lookup(h) \/ Tell(h)
    <2>1. UNCHANGED <<docker, row, lock, call, slipped, loose>>
      BY <1>2 DEF Lookup, Tell, vars, dockerVars, managerVars
    <2> QED
      BY <2>1, RecoveryFrame
  <1>3. CASE Restart(h)
    <2>1. UNCHANGED <<row, lock, call, slipped, loose>>
      BY <1>3 DEF Restart, managerVars
    <2>2. docker' = docker
          \/ (docker[c] # "absent" /\ docker' = [docker EXCEPT ![c] = "running"])
      BY <1>1, <1>3 DEF Restart, ContainerRestart
    <2>3. \A d \in Containers : docker'[d] = "absent" <=> docker[d] = "absent"
      BY <2>2 DEF SafeInv, TypeInv, TypeOK, DockerTypeOK
    <2> QED
      BY <2>1, <2>3, RecoveryFrame
  <1>4. CASE OpenCircuit(h) \/ CountRestart(h) \/ MarkRunning(h) \/ MarkStopped(h)
             \/ MarkOOM(h) \/ MarkHealth(h)
    <2>1. row[c] \in Row
      BY DEF SafeInv, TypeInv, TypeOK
    <2>2. CASE OpenCircuit(h)
      <3>1. PICK new : new = [row[c] EXCEPT !.circuitOpen = TRUE, !.status = "stopped"]
        OBVIOUS
      <3>2. new.present = row[c].present
        BY <2>1, <3>1 DEF Row
      <3>3. UpdateRow(c, new)
        BY <1>1, <2>2, <3>1 DEF OpenCircuit
      <3> QED
        BY <3>2, <3>3, UpdateRowSafe
    <2>3. CASE CountRestart(h)
      <3>1. PICK new : new = [row[c] EXCEPT !.restartCount = @ + 1, !.status = "starting"]
        OBVIOUS
      <3>2. new.present = row[c].present
        BY <2>1, <3>1 DEF Row
      <3>3. UpdateRow(c, new)
        BY <1>1, <2>3, <3>1 DEF CountRestart
      <3> QED
        BY <3>2, <3>3, UpdateRowSafe
    <2>4. CASE MarkRunning(h)
      <3>1. PICK new : new = [row[c] EXCEPT !.status = "running", !.startedAt = now]
        OBVIOUS
      <3>2. new.present = row[c].present
        BY <2>1, <3>1 DEF Row
      <3>3. UpdateRow(c, new)
        BY <1>1, <2>4, <3>1 DEF MarkRunning
      <3> QED
        BY <3>2, <3>3, UpdateRowSafe
    <2>5. CASE MarkStopped(h)
      <3>1. PICK new : new = [row[c] EXCEPT !.status = "stopped"]
        OBVIOUS
      <3>2. new.present = row[c].present
        BY <2>1, <3>1 DEF Row
      <3>3. UpdateRow(c, new)
        BY <1>1, <2>5, <3>1 DEF MarkStopped
      <3> QED
        BY <3>2, <3>3, UpdateRowSafe
    <2>6. CASE MarkOOM(h)
      <3>1. PICK new : new = [row[c] EXCEPT !.oomKilled = TRUE]
        OBVIOUS
      <3>2. new.present = row[c].present
        BY <2>1, <3>1 DEF Row
      <3>3. UpdateRow(c, new)
        BY <1>1, <2>6, <3>1 DEF MarkOOM
      <3> QED
        BY <3>2, <3>3, UpdateRowSafe
    <2>7. CASE MarkHealth(h)
      <3>1. PICK new : new = [row[c] EXCEPT !.health = hnd[h].pc]
        OBVIOUS
      <3>2. new.present = row[c].present
        BY <2>1, <3>1 DEF Row
      <3>3. UpdateRow(c, new)
        BY <1>1, <2>7, <3>1 DEF MarkHealth
      <3> QED
        BY <3>2, <3>3, UpdateRowSafe
    <2> QED
      BY <1>4, <2>2, <2>3, <2>4, <2>5, <2>6, <2>7
  <1> QED
    BY <1>2, <1>3, <1>4 DEF HandlerStep

\* Every step of lifecycle and recovery keeps the safe part.
LEMMA NextSafe == SafeInv /\ RInv /\ RInv' /\ [RecoveryNext]_allVars => SafeInv'
  <1> SUFFICES ASSUME SafeInv, RInv, RInv', [RecoveryNext]_allVars PROVE SafeInv'
    OBVIOUS
  <1>0. TypeInv'
    BY DEF RInv, RTypeInv
  <1>1. CASE ManagerStep /\ UNCHANGED recoveryVars
    BY <1>1, ManagerStepIInv DEF Kept
  <1>2. CASE Connect \/ StreamDrops
    <2>1. UNCHANGED <<docker, row, lock, call, slipped, loose>>
      BY <1>2 DEF Connect, StreamDrops, managerVars
    <2> QED
      BY <1>0, <2>1, RecoveryFrame
  <1>3. ASSUME NEW h \in Handlers, Dispatch(h) \/ HandlerError(h)
        PROVE  SafeInv'
    <2>1. UNCHANGED <<docker, row, lock, call, slipped, loose>>
      BY <1>3 DEF Dispatch, HandlerError, managerVars, dockerVars
    <2> QED
      BY <1>0, <2>1, RecoveryFrame
  <1>4. ASSUME NEW h \in Handlers, HandlerStep(h)
        PROVE  SafeInv'
    BY <1>0, <1>4, HandlerStepSafe
  <1>5. ASSUME NEW c \in Containers, NEW s \in HealthStatuses, HealthCheck(c, s)
        PROVE  SafeInv'
    <2>1. UNCHANGED <<docker, row, lock, call, slipped, loose>>
      BY <1>5 DEF HealthCheck, HealthReport, managerVars
    <2> QED
      BY <1>0, <2>1, RecoveryFrame
  <1>6. ASSUME NEW c \in Containers, ResetCircuit(c)
        PROVE  SafeInv'
    <2>1. PICK new : new = [row[c] EXCEPT !.circuitOpen = FALSE, !.restartCount = 0,
                                          !.oomKilled = FALSE]
      OBVIOUS
    <2>2. new.present = row[c].present
      BY <2>1 DEF SafeInv, TypeInv, TypeOK, Row
    <2>3. UpdateRow(c, new)
      BY <1>6, <2>1 DEF ResetCircuit
    <2> QED
      BY <1>0, <2>2, <2>3, UpdateRowSafe
  <1>7. CASE RecoveryCrash
    BY <1>0, <1>7, ServerCrashIInv DEF RecoveryCrash, Kept
  <1>8. CASE UNCHANGED allVars
    <2>1. UNCHANGED <<docker, row, lock, call, slipped, loose>>
      BY <1>8 DEF allVars, vars, dockerVars, managerVars
    <2> QED
      BY <1>0, <2>1, RecoveryFrame
  <1> QED
    BY <1>1, <1>2, <1>3, <1>4, <1>5, <1>6, <1>7, <1>8
       DEF RecoveryNext, RecoveryStep

\* Locks, rows and containers of the manager stay in order beside recovery.
LEMMA SafeBesideRecovery == RecoverySpec => []SafeInv
  <1>1. RecoveryInit => SafeInv
    BY InitIInv DEF RecoveryInit, IInv
  <1> QED
    BY <1>1, NextSafe, RecoveryInvariant, PTL DEF RecoverySpec

(***************************************************************************)
(* No row outlives its container, also when handlers restart containers    *)
(* and write rows while they are being removed.                            *)
(***************************************************************************)
THEOREM RowsHaveContainersBesideRecovery == RecoverySpec => []RowHasContainer
  <1>1. SafeInv => RowHasContainer
    BY DEF SafeInv
  <1> QED
    BY <1>1, SafeBesideRecovery, PTL

(***************************************************************************)
(* No automatic restart brings a removed container back, whether its       *)
(* process had crashed or not: a container without a row is gone, being    *)
(* cleaned up, or one of the orphans that a failed cleanup, a crash or an  *)
(* errored COMMIT of the DELETE left behind.                               *)
(***************************************************************************)
THEOREM NoneUntrackedBesideRecovery == RecoverySpec => []NoUntracked
  <1>1. SafeInv => NoUntracked
    BY DEF SafeInv
  <1> QED
    BY <1>1, SafeBesideRecovery, PTL

-----------------------------------------------------------------------------
\* The notification of an opened circuit.

\* The notification of c has been stored.
Told(c) == [type |-> "circuit_breaker_opened", id |-> c] \in notices

\* A step that opens no circuit and loses no notification, made or pending.
LEMMA ToldFrame ==
    ASSUME OpenedIsTold, notices \subseteq notices', {faults, crashes} \subseteq Nat,
           faults' = 0 /\ crashes' = 0 => faults = 0 /\ crashes = 0,
           \A c \in Containers : row'[c].circuitOpen => row[c].circuitOpen,
           \A h \in Handlers : hnd[h].pc = "tellOpened" => hnd'[h] = hnd[h]
    PROVE  OpenedIsTold'
  <1> SUFFICES ASSUME NEW c \in Containers, row'[c].circuitOpen, faults' = 0, crashes' = 0
               PROVE  Told(c)' \/ HandlersAt("tellOpened", c)' # {}
    BY DEF OpenedIsTold, Told
  <1>1. Told(c) \/ HandlersAt("tellOpened", c) # {}
    BY DEF OpenedIsTold, Told
  <1>2. CASE Told(c)
    BY <1>2 DEF Told
  <1>3. CASE HandlersAt("tellOpened", c) # {}
    <2>1. PICK h \in Handlers : hnd[h].pc = "tellOpened" /\ hnd[h].id = c
      BY <1>3 DEF HandlersAt
    <2>2. h \in HandlersAt("tellOpened", c)'
      BY <2>1 DEF HandlersAt
    <2> QED
      BY <2>2
  <1> QED
    BY <1>1, <1>2, <1>3

\* The steps of the manager open no circuit; a start closes one.
LEMMA ManagerStepCircuits ==
    ASSUME TypeInv, ManagerStep, NEW c \in Containers, row'[c].circuitOpen
    PROVE  row[c].circuitOpen
  <1>1. ASSUME NEW a \in Actors, At(a, "commit"), WriteBack(a)
        PROVE  row[c].circuitOpen
    <2>1. PICK d \in Containers : call[a].id = d
      BY <1>1 DEF TypeInv, CallInv, At
    <2>2. PICK new : new = [row[d] EXCEPT !.status = NewStatus(call[a].op),
                                          !.startedAt = call[a].startedAt]
      OBVIOUS
    <2>3. new.circuitOpen = row[d].circuitOpen
      BY <2>2 DEF TypeInv, TypeOK, Row
    <2>4. row' = [row EXCEPT ![d] = new]
      BY <1>1, <2>1, <2>2 DEF WriteBack
    <2> QED
      BY <2>3, <2>4 DEF TypeInv, TypeOK
  <1>2. ASSUME NEW a \in Actors, ResetHealth(a) PROVE row[c].circuitOpen
    <2>1. PICK d \in Containers : call[a].id = d
      BY <1>2 DEF TypeInv, CallInv, ResetHealth, At
    <2>2. PICK new : new = [row[d] EXCEPT !.health = "none", !.oomKilled = FALSE,
                                          !.circuitOpen = FALSE]
      OBVIOUS
    <2>3. new.circuitOpen = FALSE
      BY <2>2 DEF TypeInv, TypeOK, Row
    <2>4. row' = row \/ row' = [row EXCEPT ![d] = new]
      BY <1>2, <2>1, <2>2 DEF ResetHealth
    <2> QED
      BY <2>3, <2>4 DEF TypeInv, TypeOK
  <1>3. ASSUME NEW a \in Actors, At(a, "commitDelete"), Deletes(a)
        PROVE  row[c].circuitOpen
    <2>1. PICK d \in Containers : call[a].id = d
      BY <1>3 DEF TypeInv, CallInv, At
    <2>2. PICK new : new = [row[d] EXCEPT !.present = FALSE]
      OBVIOUS
    <2>3. new.circuitOpen = row[d].circuitOpen
      BY <2>2 DEF TypeInv, TypeOK, Row
    <2>4. row' = [row EXCEPT ![d] = new]
      BY <1>3, <2>1, <2>2 DEF Deletes
    <2> QED
      BY <2>3, <2>4 DEF TypeInv, TypeOK
  <1>4. CASE row' = row
    BY <1>4
  <1> QED
    BY <1>1, <1>2, <1>3, <1>4, ManagerStepWrites

\* The manager loses no notification and forgets no failure.
LEMMA ManagerStepTold ==
    ASSUME OpenedIsTold, TypeInv, ManagerStep, UNCHANGED recoveryVars
    PROVE  OpenedIsTold'
  <1>1. {faults, crashes} \subseteq Nat
    BY DEF TypeInv, TypeOK
  <1>2. faults' \in {faults, faults + 1} /\ crashes' = crashes
    BY DEF ManagerStep, BeginCall, Progress, Failure, UpdateContainer, DeleteContainer,
           WriteRow, DockerCall, Commit, ResetHealth, CommitDelete, CleanupStop,
           CleanupRemove, Abort, DockerCallGivenUp, LateCommit, LateDockerEffect,
           CleanupStopFails, CleanupRemoveFails, WatcherTick, StopExpired, WatcherTimeout,
           ContainerExits, Tick, Fault
  <1>3. faults' = 0 /\ crashes' = 0 => faults = 0 /\ crashes = 0
    BY <1>1, <1>2
  <1>4. \A c \in Containers : row'[c].circuitOpen => row[c].circuitOpen
    BY ManagerStepCircuits
  <1>5. notices' = notices /\ hnd' = hnd
    BY DEF recoveryVars
  <1> QED
    BY <1>1, <1>3, <1>4, <1>5, ToldFrame

\* An UPDATE by recovery that opens no circuit.
LEMMA UpdateRowTold ==
    ASSUME OpenedIsTold, TypeInv, NEW c \in Containers, NEW new,
           new.circuitOpen => row[c].circuitOpen, UpdateRow(c, new),
           notices' = notices,
           \A h \in Handlers : hnd[h].pc = "tellOpened" => hnd'[h] = hnd[h]
    PROVE  OpenedIsTold'
  <1>1. \A d \in Containers : row'[d].circuitOpen => row[d].circuitOpen
    BY DEF UpdateRow, TypeInv, TypeOK
  <1>2. {faults, crashes} \subseteq Nat /\ UNCHANGED <<faults, crashes>>
    BY DEF UpdateRow, TypeInv, TypeOK
  <1> QED
    BY <1>1, <1>2, ToldFrame

\* A handler that moves leaves the others, and is not one that was to tell.
LEMMA HandlerMoves ==
    ASSUME HandlerTypes, NEW h \in Handlers, hnd[h].pc # "tellOpened", NEW pc,
           HGoto(h, pc) \/ HReturn(h)
    PROVE  \A g \in Handlers : hnd[g].pc = "tellOpened" => hnd'[g] = hnd[g]
  BY DEF HandlerTypes, HGoto, HReturn

\* The handler that opens a circuit goes on to tell its owner.
LEMMA OpenCircuitTold ==
    ASSUME OpenedIsTold, RTypeInv, NEW h \in Handlers, OpenCircuit(h)
    PROVE  OpenedIsTold'
  <1>1. PICK c \in Containers : hnd[h].id = c
    BY DEF RTypeInv, HandlerTypes, HandlerInv, OpenCircuit
  <1>2. /\ hnd'[h].pc = "tellOpened" /\ hnd'[h].id = c /\ hnd[h].pc # "tellOpened"
        /\ \A g \in Handlers : g # h => hnd'[g] = hnd[g]
    BY <1>1 DEF RTypeInv, HandlerTypes, OpenCircuit, HGoto
  <1>3. \A d \in Containers : d # c => row'[d] = row[d]
    BY <1>1 DEF OpenCircuit, UpdateRow, RTypeInv, TypeInv, TypeOK
  <1>4. UNCHANGED <<faults, crashes, notices>>
    BY DEF OpenCircuit, UpdateRow
  <1> SUFFICES ASSUME NEW d \in Containers, row'[d].circuitOpen, faults' = 0, crashes' = 0
               PROVE  Told(d)' \/ HandlersAt("tellOpened", d)' # {}
    BY DEF OpenedIsTold, Told
  <1>5. CASE d = c
    BY <1>2, <1>5 DEF HandlersAt
  <1>6. CASE d # c
    <2>1. Told(d) \/ HandlersAt("tellOpened", d) # {}
      BY <1>3, <1>4, <1>6 DEF OpenedIsTold, Told
    <2>2. Told(d) => Told(d)'
      BY <1>4 DEF Told
    <2>3. HandlersAt("tellOpened", d) \subseteq HandlersAt("tellOpened", d)'
      BY <1>2 DEF HandlersAt
    <2> QED
      BY <2>1, <2>2, <2>3
  <1> QED
    BY <1>5, <1>6

\* The handler that tells stores what it has to.
LEMMA TellTold ==
    ASSUME OpenedIsTold, RTypeInv, NEW h \in Handlers, Tell(h)
    PROVE  OpenedIsTold'
  <1>1. \A g \in Handlers : g # h => hnd'[g] = hnd[g]
    BY DEF RTypeInv, HandlerTypes, Tell, HReturn
  <1>2. UNCHANGED <<row, faults, crashes>>
    BY DEF Tell, vars, managerVars
  <1>3. notices \subseteq notices'
    BY DEF Tell
  <1>4. hnd[h].pc = "tellOpened"
           => [type |-> "circuit_breaker_opened", id |-> hnd[h].id] \in notices'
    BY DEF Tell, NoticeOf
  <1> SUFFICES ASSUME NEW d \in Containers, row'[d].circuitOpen, faults' = 0, crashes' = 0
               PROVE  Told(d)' \/ HandlersAt("tellOpened", d)' # {}
    BY DEF OpenedIsTold, Told
  <1>5. Told(d) \/ HandlersAt("tellOpened", d) # {}
    BY <1>2 DEF OpenedIsTold, Told
  <1>6. CASE Told(d)
    BY <1>3, <1>6 DEF Told
  <1>7. CASE HandlersAt("tellOpened", d) # {}
    <2>1. PICK g \in Handlers : hnd[g].pc = "tellOpened" /\ hnd[g].id = d
      BY <1>7 DEF HandlersAt
    <2>2. CASE g = h
      BY <1>4, <2>1, <2>2 DEF Told
    <2>3. CASE g # h
      BY <1>1, <2>1, <2>3 DEF HandlersAt
    <2> QED
      BY <2>2, <2>3
  <1> QED
    BY <1>5, <1>6, <1>7

\* The other statements of a handler.
LEMMA HandlerStepTold ==
    ASSUME OpenedIsTold, RTypeInv, NEW h \in Handlers, HandlerStep(h)
    PROVE  OpenedIsTold'
  <1> USE DEF RTypeInv
  <1>1. CASE OpenCircuit(h)
    BY <1>1, OpenCircuitTold
  <1>2. CASE Tell(h)
    BY <1>2, TellTold
  <1>3. CASE Lookup(h) \/ Restart(h)
    <2>1. UNCHANGED <<row, faults, crashes, notices>>
      BY <1>3 DEF Lookup, Restart, vars, managerVars
    <2>2. \A g \in Handlers : hnd[g].pc = "tellOpened" => hnd'[g] = hnd[g]
      <3>1. hnd[h].pc # "tellOpened" /\ \E pc : HGoto(h, pc) \/ HReturn(h)
        BY <1>3 DEF Lookup, Restart
      <3> QED
        BY <3>1, HandlerMoves
    <2>3. {faults, crashes} \subseteq Nat
      BY DEF TypeInv, TypeOK
    <2> QED
      BY <2>1, <2>2, <2>3, ToldFrame
  <1>4. ASSUME CountRestart(h) \/ MarkRunning(h) \/ MarkStopped(h) \/ MarkOOM(h)
                 \/ MarkHealth(h)
        PROVE  OpenedIsTold'
    <2>1. hnd[h].pc \notin {"tellOpened", "idle"} /\ notices' = notices
          /\ \E pc : HGoto(h, pc) \/ HReturn(h)
      BY <1>4, HealthAssumption
         DEF CountRestart, MarkRunning, MarkStopped, MarkOOM, MarkHealth
    <2>2. \A g \in Handlers : hnd[g].pc = "tellOpened" => hnd'[g] = hnd[g]
      BY <2>1, HandlerMoves
    <2>3. PICK c \in Containers : hnd[h].id = c
      BY <2>1 DEF HandlerTypes, HandlerInv
    <2>4. PICK new : UpdateRow(c, new) /\ new.circuitOpen = row[c].circuitOpen
      <3>1. row[c] \in Row
        BY DEF TypeInv, TypeOK
      <3>2. CASE CountRestart(h)
        <4>1. PICK new : new = [row[c] EXCEPT !.restartCount = @ + 1,
                                              !.status = "starting"]
          OBVIOUS
        <4>2. new.circuitOpen = row[c].circuitOpen
          BY <3>1, <4>1 DEF Row
        <4>3. UpdateRow(c, new)
          BY <2>3, <3>2, <4>1 DEF CountRestart
        <4> QED
          BY <4>2, <4>3
      <3>3. CASE MarkRunning(h)
        <4>1. PICK new : new = [row[c] EXCEPT !.status = "running", !.startedAt = now]
          OBVIOUS
        <4>2. new.circuitOpen = row[c].circuitOpen
          BY <3>1, <4>1 DEF Row
        <4>3. UpdateRow(c, new)
          BY <2>3, <3>3, <4>1 DEF MarkRunning
        <4> QED
          BY <4>2, <4>3
      <3>4. CASE MarkStopped(h)
        <4>1. PICK new : new = [row[c] EXCEPT !.status = "stopped"]
          OBVIOUS
        <4> QED
          BY <2>3, <3>1, <3>4, <4>1 DEF MarkStopped, Row
      <3>5. CASE MarkOOM(h)
        <4>1. PICK new : new = [row[c] EXCEPT !.oomKilled = TRUE]
          OBVIOUS
        <4> QED
          BY <2>3, <3>1, <3>5, <4>1 DEF MarkOOM, Row
      <3>6. CASE MarkHealth(h)
        <4>1. PICK new : new = [row[c] EXCEPT !.health = hnd[h].pc]
          OBVIOUS
        <4> QED
          BY <2>3, <3>1, <3>6, <4>1 DEF MarkHealth, Row
      <3> QED
        BY <1>4, <3>2, <3>3, <3>4, <3>5, <3>6
    <2> QED
      BY <2>1, <2>2, <2>4, UpdateRowTold
  <1> QED
    BY <1>1, <1>2, <1>3, <1>4 DEF HandlerStep

\* Every step keeps OpenedIsTold; a failing one because faults or crashes count it.
LEMMA NextTold == OpenedIsTold /\ RInv /\ [RecoveryNext]_allVars => OpenedIsTold'
  <1> SUFFICES ASSUME OpenedIsTold, RTypeInv, [RecoveryNext]_allVars PROVE OpenedIsTold'
    BY DEF RInv
  <1>0. {faults, crashes} \subseteq Nat
    BY DEF RTypeInv, TypeInv, TypeOK
  <1>1. CASE ManagerStep /\ UNCHANGED recoveryVars
    BY <1>1, ManagerStepTold DEF RTypeInv
  <1>2. CASE Connect \/ UNCHANGED allVars
    <2>1. UNCHANGED <<row, faults, crashes, notices, hnd>>
      BY <1>2 DEF Connect, managerVars, recoveryVars, allVars, vars
    <2> QED
      BY <1>0, <2>1, ToldFrame
  <1>3. CASE StreamDrops \/ \E h \in Handlers : HandlerError(h)
    <2>1. faults' = faults + 1
      BY <1>3 DEF StreamDrops, HandlerError, Fault
    <2> QED
      BY <1>0, <2>1 DEF OpenedIsTold
  <1>4. ASSUME NEW h \in Handlers, Dispatch(h)
        PROVE  OpenedIsTold'
    <2>1. UNCHANGED <<row, faults, crashes, notices>>
      BY <1>4 DEF Dispatch, managerVars
    <2>2. \A g \in Handlers : hnd[g].pc = "tellOpened" => hnd'[g] = hnd[g]
      BY <1>4 DEF Dispatch, RTypeInv, HandlerTypes
    <2> QED
      BY <1>0, <2>1, <2>2, ToldFrame
  <1>5. ASSUME NEW h \in Handlers, HandlerStep(h)
        PROVE  OpenedIsTold'
    BY <1>5, HandlerStepTold
  <1>6. ASSUME NEW c \in Containers, NEW s \in HealthStatuses, HealthCheck(c, s)
        PROVE  OpenedIsTold'
    <2>1. UNCHANGED <<row, faults, crashes, notices, hnd>>
      BY <1>6 DEF HealthCheck, managerVars, recoveryVars
    <2> QED
      BY <1>0, <2>1, ToldFrame
  <1>7. ASSUME NEW c \in Containers, ResetCircuit(c)
        PROVE  OpenedIsTold'
    <2>1. PICK new : new = [row[c] EXCEPT !.circuitOpen = FALSE, !.restartCount = 0,
                                          !.oomKilled = FALSE]
      OBVIOUS
    <2>2. new.circuitOpen => row[c].circuitOpen
      BY <2>1 DEF RTypeInv, TypeInv, TypeOK, Row
    <2>3. UpdateRow(c, new) /\ UNCHANGED <<hnd, notices>>
      BY <1>7, <2>1 DEF ResetCircuit
    <2> QED
      BY <2>2, <2>3, UpdateRowTold DEF RTypeInv
  <1>8. CASE RecoveryCrash
    <2>1. crashes' = crashes + 1
      BY <1>8 DEF RecoveryCrash, ServerCrash
    <2> QED
      BY <1>0, <2>1 DEF OpenedIsTold
  <1> QED
    BY <1>1, <1>2, <1>3, <1>4, <1>5, <1>6, <1>7, <1>8
       DEF RecoveryNext, RecoveryStep

(***************************************************************************)
(* Whatever other handlers, starts, resets and removals come in between,   *)
(* the owner of a container whose circuit HandleCrash has opened is told,  *)
(* for any number of concurrent handlers.                                  *)
(***************************************************************************)
THEOREM OpenedCircuitsAreTold == RecoverySpec => []OpenedIsTold
  <1>1. RecoveryInit => OpenedIsTold
    BY DEF RecoveryInit, ManagerInit, NewRow, OpenedIsTold
  <1> QED
    BY <1>1, NextTold, RecoveryInvariant, PTL DEF RecoverySpec
=============================================================================
