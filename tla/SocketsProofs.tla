---------------------------- MODULE SocketsProofs ---------------------------
(***************************************************************************)
(* Proofs about Server and Sockets, for any finite number of requests and  *)
(* sockets and any size of the pool: every connection that is out of the   *)
(* pool belongs to a call or a socket that holds it, and the process never *)
(* exits in the middle of a transaction.                                   *)
(*                                                                         *)
(* Every step moves one call or one socket and changes the count by what   *)
(* this one holds more or less than before.  Exit finds the count at 0, so *)
(* nobody holds anything, and nothing moves any more.                      *)
(***************************************************************************)
EXTENDS Sockets, FiniteSetTheorems, TLAPS

PCs == {"idle", "begin", "query", "reading", "tx", "rollback", "reset", "update", "cleanup"}
Mains == {"idle", "acquire", "lookup", "attach", "copy", "check", "read"}
Process == [pc : PCs, op : Ops, ctx : BOOLEAN]
SocketRecord == [kind : Kinds, main : Mains, helper : BOOLEAN, ctx : BOOLEAN,
                 client : BOOLEAN, docker : {"open", "ended", "none"}]

SocketsTypeOK ==
    /\ proc \in [Procs -> Process]
    /\ inUse \in 0 .. MaxConns
    /\ phase \in {"serving", "draining", "closing", "exited"}
    /\ sock \in [Socket -> SocketRecord]

\* pool.Close has waited for every connection.
ExitedInv == phase = "exited" => inUse = 0

\* The inductive invariant.
PoolInv == SocketsTypeOK /\ PoolBalanced /\ ExitedInv

-----------------------------------------------------------------------------
\* Counting.

\* f[p] slots for each p.
Slots(P, f) == {h \in P \X {1, 2} : h[2] <= f[h[1]]}

LEMMA FinitePairs ==
    ASSUME NEW P, IsFiniteSet(P) PROVE IsFiniteSet(P \X {1, 2})
<1>1. IsFiniteSet({1})
  BY FS_Singleton
<1>2. IsFiniteSet({1} \cup {2})
  BY <1>1, FS_AddElement
<1>3. {1, 2} = {1} \cup {2}
  OBVIOUS
<1> QED
  BY <1>2, <1>3, FS_Product

\* The slots are those of p and those of the others.
LEMMA SlotsCount ==
    ASSUME NEW P, IsFiniteSet(P), NEW f \in [P -> 0 .. 2], NEW p \in P
    PROVE  \E rest :
              /\ rest = {h \in P \X {1, 2} : h[1] # p /\ h[2] <= f[h[1]]}
              /\ Cardinality(rest) \in Nat
              /\ Cardinality(Slots(P, f)) = Cardinality(rest) + f[p]
<1>1. IsFiniteSet(P \X {1, 2})
  BY FinitePairs
<1>2. PICK rest : rest = {h \in P \X {1, 2} : h[1] # p /\ h[2] <= f[h[1]]}
  OBVIOUS
<1>3. IsFiniteSet(rest) /\ Cardinality(rest) \in Nat
  BY <1>1, <1>2, FS_Subset, FS_CardinalityType
<1>4. <<p, 1>> \notin rest /\ <<p, 2>> \notin rest /\ <<p, 1>> # <<p, 2>>
  BY <1>2
<1>5. f[p] = 0 \/ f[p] = 1 \/ f[p] = 2
  OBVIOUS
<1>6. CASE f[p] = 0
  <2>1. Slots(P, f) = rest
    BY <1>2, <1>6 DEF Slots
  <2> QED
    BY <1>2, <1>3, <1>6, <2>1
<1>7. CASE f[p] = 1
  <2>1. Slots(P, f) = rest \cup {<<p, 1>>}
    BY <1>2, <1>7 DEF Slots
  <2>2. Cardinality(rest \cup {<<p, 1>>}) = Cardinality(rest) + 1
    BY <1>3, <1>4, FS_AddElement
  <2> QED
    BY <1>2, <1>3, <1>7, <2>1, <2>2
<1>8. CASE f[p] = 2
  <2>1. PICK one : one = rest \cup {<<p, 1>>}
    OBVIOUS
  <2>2. IsFiniteSet(one) /\ Cardinality(one) = Cardinality(rest) + 1
    BY <1>3, <1>4, <2>1, FS_AddElement
  <2>3. <<p, 2>> \notin one
    BY <1>4, <2>1
  <2>4. Cardinality(one \cup {<<p, 2>>}) = Cardinality(one) + 1
    BY <2>2, <2>3, FS_AddElement
  <2>5. Slots(P, f) = one \cup {<<p, 2>>}
    BY <1>2, <1>8, <2>1 DEF Slots
  <2> QED
    BY <1>2, <1>3, <1>8, <2>2, <2>4, <2>5
<1> QED
  BY <1>5, <1>6, <1>7, <1>8

\* When p gets or loses slots, the count follows.
LEMMA SlotsMove ==
    ASSUME NEW P, IsFiniteSet(P), NEW f \in [P -> 0 .. 2], NEW g \in [P -> 0 .. 2],
           NEW p \in P, \A q \in P : q # p => g[q] = f[q]
    PROVE  /\ Cardinality(Slots(P, f)) \in Nat /\ Cardinality(Slots(P, g)) \in Nat
           /\ Cardinality(Slots(P, g)) = (Cardinality(Slots(P, f)) - f[p]) + g[p]
<1>1. PICK a : /\ a = {h \in P \X {1, 2} : h[1] # p /\ h[2] <= f[h[1]]}
               /\ Cardinality(a) \in Nat
               /\ Cardinality(Slots(P, f)) = Cardinality(a) + f[p]
  BY SlotsCount
<1>2. PICK b : /\ b = {h \in P \X {1, 2} : h[1] # p /\ h[2] <= g[h[1]]}
               /\ Cardinality(b) \in Nat
               /\ Cardinality(Slots(P, g)) = Cardinality(b) + g[p]
  BY SlotsCount
<1>3. a = b
  BY <1>1, <1>2
<1>4. /\ f[p] \in Nat /\ g[p] \in Nat
      /\ \A n \in Nat : (n + f[p]) - f[p] = n
  OBVIOUS
<1>5. Cardinality(Slots(P, f)) \in Nat /\ Cardinality(Slots(P, g)) \in Nat
  BY <1>1, <1>2, <1>4
<1>6. (Cardinality(Slots(P, f)) - f[p]) = Cardinality(a)
  BY <1>1, <1>4
<1> QED
  BY <1>2, <1>3, <1>5, <1>6

LEMMA FiniteProcs == IsFiniteSet(Procs)
BY ServerAssumption, FS_AddElement DEF Procs

LEMMA HeldType == \A pc : Held(pc) \in 0 .. 2
BY DEF Held

\* A step of one call changes the connections of calls by what this one takes.
LEMMA CallCount ==
    ASSUME NEW p \in Procs, \A q \in Procs : q # p => proc'[q] = proc[q]
    PROVE  /\ Cardinality(CallConns) \in Nat /\ Cardinality(CallConns') \in Nat
           /\ Cardinality(CallConns') =
                 (Cardinality(CallConns) - Held(proc[p].pc)) + Held(proc'[p].pc)
<1>1. PICK f : f = [q \in Procs |-> Held(proc[q].pc)]
  OBVIOUS
<1>2. PICK g : g = [q \in Procs |-> Held(proc'[q].pc)]
  OBVIOUS
<1>3. /\ f \in [Procs -> 0 .. 2] /\ g \in [Procs -> 0 .. 2]
      /\ \A q \in Procs : q # p => g[q] = f[q]
      /\ f[p] = Held(proc[p].pc) /\ g[p] = Held(proc'[p].pc)
  BY <1>1, <1>2, HeldType
<1>4. CallConns = Slots(Procs, f)
  BY <1>1 DEF CallConns, Slots
<1>5. CallConns' = Slots(Procs, g)
  BY <1>2 DEF CallConns, Slots
<1>6. /\ Cardinality(Slots(Procs, f)) \in Nat /\ Cardinality(Slots(Procs, g)) \in Nat
      /\ Cardinality(Slots(Procs, g)) = (Cardinality(Slots(Procs, f)) - f[p]) + g[p]
  BY <1>3, FiniteProcs, SlotsMove
<1> QED
  BY <1>3, <1>4, <1>5, <1>6

LEMMA SocketConnsFinite ==
    IsFiniteSet(SocketConns) /\ Cardinality(SocketConns) \in Nat
BY SocketsAssumption, FS_Subset, FS_CardinalityType DEF SocketConns

\* The same for a step of one socket.
LEMMA SocketCount ==
    ASSUME NEW s \in Socket, \A t \in Socket : t # s => sock'[t] = sock[t]
    PROVE  /\ Cardinality(SocketConns) \in Nat /\ Cardinality(SocketConns') \in Nat
           /\ Cardinality(SocketConns') =
                 (Cardinality(SocketConns) - SocketHeld(s)) + SocketHeld(s)'
<1>1. PICK a : a = {t \in Socket : t # s /\ sock[t].main = "lookup"}
  OBVIOUS
<1>2. IsFiniteSet(a) /\ Cardinality(a) \in Nat /\ s \notin a
  BY <1>1, SocketsAssumption, FS_Subset, FS_CardinalityType
<1>3. Cardinality(a \cup {s}) = Cardinality(a) + 1
  BY <1>2, FS_AddElement
<1>4. Cardinality(SocketConns) = Cardinality(a) + SocketHeld(s)
  <2>1. CASE sock[s].main = "lookup"
    <3>1. SocketConns = a \cup {s} /\ SocketHeld(s) = 1
      BY <1>1, <2>1 DEF SocketConns, SocketHeld
    <3> QED
      BY <1>3, <3>1
  <2>2. CASE sock[s].main # "lookup"
    <3>1. SocketConns = a /\ SocketHeld(s) = 0
      BY <1>1, <2>2 DEF SocketConns, SocketHeld
    <3> QED
      BY <1>2, <3>1
  <2> QED
    BY <2>1, <2>2
<1>5. Cardinality(SocketConns') = Cardinality(a) + SocketHeld(s)'
  <2>1. CASE sock'[s].main = "lookup"
    <3>1. SocketConns' = a \cup {s} /\ SocketHeld(s)' = 1
      BY <1>1, <2>1 DEF SocketConns, SocketHeld
    <3> QED
      BY <1>3, <3>1
  <2>2. CASE sock'[s].main # "lookup"
    <3>1. SocketConns' = a /\ SocketHeld(s)' = 0
      BY <1>1, <2>2 DEF SocketConns, SocketHeld
    <3> QED
      BY <1>2, <3>1
  <2> QED
    BY <2>1, <2>2
<1>6. SocketHeld(s) \in {0, 1} /\ SocketHeld(s)' \in {0, 1}
  BY DEF SocketHeld
<1> QED
  BY <1>2, <1>4, <1>5, <1>6

-----------------------------------------------------------------------------
\* The steps.

\* A step of one call that changes the count by what the call takes.
LEMMA OneCallMoves ==
    ASSUME PoolInv, NEW p \in Procs, proc' \in [Procs -> Process],
           \A q \in Procs : q # p => proc'[q] = proc[q],
           inUse' = (inUse - Held(proc[p].pc)) + Held(proc'[p].pc),
           inUse' <= MaxConns, UNCHANGED <<phase, sock>>, phase # "exited"
    PROVE  PoolInv'
<1>1. /\ Cardinality(CallConns) \in Nat /\ Cardinality(CallConns') \in Nat
      /\ Cardinality(CallConns') =
            (Cardinality(CallConns) - Held(proc[p].pc)) + Held(proc'[p].pc)
  BY CallCount
<1>2. /\ SocketConns' = SocketConns /\ Cardinality(SocketConns) \in Nat
      /\ inUse = Cardinality(CallConns) + Cardinality(SocketConns)
  BY SocketConnsFinite DEF PoolInv, PoolBalanced, SocketConns, SocketHeld
<1>3. Held(proc[p].pc) \in Nat /\ Held(proc'[p].pc) \in Nat
  BY HeldType
<1>4. inUse' = Cardinality(CallConns') + Cardinality(SocketConns)
  BY <1>1, <1>2, <1>3
<1>5. inUse' \in Nat /\ MaxConns \in Nat
  BY <1>1, <1>2, <1>4, ServerAssumption
<1>6. SocketsTypeOK'
  BY <1>5 DEF PoolInv, SocketsTypeOK
<1>7. PoolBalanced'
  BY <1>2, <1>4 DEF PoolBalanced
<1> QED
  BY <1>6, <1>7 DEF PoolInv, ExitedInv

\* A step of one socket that changes the count by what the socket takes.
LEMMA SocketMove ==
    ASSUME PoolInv, NEW s \in Socket, sock' \in [Socket -> SocketRecord],
           \A t \in Socket : t # s => sock'[t] = sock[t],
           inUse' = (inUse - SocketHeld(s)) + SocketHeld(s)',
           inUse' <= MaxConns, UNCHANGED <<phase, proc>>, phase # "exited"
    PROVE  PoolInv'
<1>1. /\ Cardinality(SocketConns) \in Nat /\ Cardinality(SocketConns') \in Nat
      /\ Cardinality(SocketConns') =
            (Cardinality(SocketConns) - SocketHeld(s)) + SocketHeld(s)'
  BY SocketCount
<1>2. /\ CallConns' = CallConns
      /\ inUse = Cardinality(CallConns) + Cardinality(SocketConns)
  BY DEF PoolInv, PoolBalanced, CallConns
<1>3. Cardinality(CallConns) \in Nat
  <2>1. Watcher \in Procs
    BY DEF Procs
  <2> QED
    BY <2>1, CallCount
<1>4. SocketHeld(s) \in Nat /\ SocketHeld(s)' \in Nat
  BY DEF SocketHeld
<1>5. inUse' = Cardinality(CallConns) + Cardinality(SocketConns')
  BY <1>1, <1>2, <1>3, <1>4
<1>6. inUse' \in Nat /\ MaxConns \in Nat
  BY <1>1, <1>3, <1>5, ServerAssumption
<1>7. SocketsTypeOK'
  BY <1>6 DEF PoolInv, SocketsTypeOK
<1>8. PoolBalanced'
  BY <1>2, <1>5 DEF PoolBalanced
<1> QED
  BY <1>7, <1>8 DEF PoolInv, ExitedInv

\* What a call holds, by place.
LEMMA HeldAt ==
    /\ Held("idle") = 0 /\ Held("begin") = 0 /\ Held("reset") = 0
    /\ Held("cleanup") = 0 /\ Held("query") = 1 /\ Held("tx") = 1
    /\ Held("update") = 1 /\ Held("rollback") = 1 /\ Held("reading") = 2
BY DEF Held

LEMMA GotoFields ==
    ASSUME PoolInv, NEW p \in Procs, NEW pc \in PCs, Goto(p, pc)
    PROVE  /\ proc' \in [Procs -> Process] /\ proc'[p].pc = pc
           /\ \A q \in Procs : q # p => proc'[q] = proc[q]
<1>1. proc \in [Procs -> Process] /\ proc[p] \in Process
  BY DEF PoolInv, SocketsTypeOK
<1>2. PICK new : new = [proc[p] EXCEPT !.pc = pc]
  OBVIOUS
<1>3. new \in Process /\ new.pc = pc
  BY <1>1, <1>2 DEF Process
<1>4. proc' = [proc EXCEPT ![p] = new]
  BY <1>2 DEF Goto
<1> QED
  BY <1>1, <1>3, <1>4

\* A step of a call to pc.
LEMMA GotoStep ==
    ASSUME PoolInv, NEW p \in Procs, NEW pc \in PCs, Goto(p, pc),
           inUse' = (inUse - Held(proc[p].pc)) + Held(pc),
           inUse' <= MaxConns, UNCHANGED <<phase, sock>>, phase # "exited"
    PROVE  PoolInv'
<1>1. /\ proc' \in [Procs -> Process] /\ proc'[p].pc = pc
      /\ \A q \in Procs : q # p => proc'[q] = proc[q]
  BY GotoFields
<1> QED
  BY <1>1, OneCallMoves

\* A step that makes a call the record new.
LEMMA CallStepTo ==
    ASSUME PoolInv, NEW p \in Procs, NEW new \in Process,
           proc' = [proc EXCEPT ![p] = new],
           inUse' = (inUse - Held(proc[p].pc)) + Held(new.pc),
           inUse' <= MaxConns, UNCHANGED <<phase, sock>>, phase # "exited"
    PROVE  PoolInv'
<1>1. /\ proc' \in [Procs -> Process] /\ proc'[p] = new
      /\ \A q \in Procs : q # p => proc'[q] = proc[q]
  BY DEF PoolInv, SocketsTypeOK
<1> QED
  BY <1>1, OneCallMoves

\* A new call, of a request or of the watcher.
LEMMA CallBegins ==
    ASSUME PoolInv, NEW p \in Procs, NEW op \in Ops, At(p, "idle"),
           proc' = [proc EXCEPT ![p] = NewCall(op)],
           UNCHANGED <<inUse, phase, sock>>, phase # "exited"
    PROVE  PoolInv'
<1>1. PICK new : new = NewCall(op)
  OBVIOUS
<1>2. new \in Process /\ new.pc = "begin"
  BY <1>1 DEF Process, PCs, NewCall
<1>3. inUse \in Nat /\ inUse <= MaxConns
  BY ServerAssumption DEF PoolInv, SocketsTypeOK
<1>4. inUse' = (inUse - Held(proc[p].pc)) + Held(new.pc)
  BY <1>2, <1>3, HeldAt DEF At
<1> QED
  BY <1>1, <1>2, <1>3, <1>4, CallStepTo

\* A call returns, and gives back what it holds.
LEMMA ReturnStep ==
    ASSUME PoolInv, NEW p \in Procs, Return(p),
           inUse' = inUse - Held(proc[p].pc), UNCHANGED <<phase, sock>>,
           phase # "exited"
    PROVE  PoolInv'
<1>1. /\ inUse \in Nat /\ inUse <= MaxConns /\ MaxConns \in Nat
      /\ Held(proc[p].pc) \in Nat
  BY ServerAssumption, HeldType DEF PoolInv, SocketsTypeOK
<1>2. PICK new : new = NoCall
  OBVIOUS
<1>3. new \in Process /\ new.pc = "idle"
  BY <1>2 DEF NoCall, Process, PCs, Ops
<1>4. inUse' = (inUse - Held(proc[p].pc)) + Held(new.pc) /\ inUse' <= MaxConns
  BY <1>1, <1>3, HeldAt
<1>5. proc' = [proc EXCEPT ![p] = new]
  BY <1>2 DEF Return
<1> QED
  BY <1>3, <1>4, <1>5, CallStepTo

\* The end of a context moves nothing.
LEMMA ContextEndsStep ==
    ASSUME PoolInv, NEW p \in Procs, ContextEnds(p), sock' = sock
    PROVE  PoolInv'
<1>1. /\ inUse \in Nat /\ inUse <= MaxConns /\ Held(proc[p].pc) \in Nat
      /\ proc \in [Procs -> Process] /\ proc[p] \in Process
  BY ServerAssumption, HeldType DEF PoolInv, SocketsTypeOK
<1>2. PICK new : new = [proc[p] EXCEPT !.ctx = FALSE]
  OBVIOUS
<1>3. new \in Process /\ new.pc = proc[p].pc
  BY <1>1, <1>2 DEF Process
<1>4. /\ proc' = [proc EXCEPT ![p] = new] /\ UNCHANGED <<inUse, phase>>
      /\ phase # "exited"
  BY <1>1, <1>2 DEF ContextEnds, Up
<1>5. inUse' = (inUse - Held(proc[p].pc)) + Held(new.pc) /\ inUse' <= MaxConns
  BY <1>1, <1>3, <1>4
<1> QED
  BY <1>3, <1>4, <1>5, CallStepTo

\* A wait that fails holds what it held.
LEMMA WaitFailsStep ==
    ASSUME PoolInv, NEW p \in Procs, proc[p].pc \in Waiting, WaitFails(p),
           sock' = sock, phase # "exited"
    PROVE  PoolInv'
<1>1. /\ inUse \in Nat /\ inUse <= MaxConns /\ UNCHANGED <<inUse, phase>>
  BY ServerAssumption DEF PoolInv, SocketsTypeOK, WaitFails
<1>2. CASE At(p, "query")
  <2>1. PICK pc : pc = IF proc[p].op = "remove" THEN "tx" ELSE "rollback"
    OBVIOUS
  <2>2. pc \in PCs /\ Held(pc) = 1 /\ Held(proc[p].pc) = 1
    BY <1>2, <2>1, HeldAt DEF PCs, At
  <2>3. inUse' = (inUse - Held(proc[p].pc)) + Held(pc) /\ inUse' <= MaxConns
    BY <1>1, <2>2
  <2>4. Goto(p, pc)
    BY <1>2, <2>1 DEF WaitFails
  <2> QED
    BY <1>1, <2>2, <2>3, <2>4, GotoStep
<1>3. CASE ~At(p, "query")
  <2>1. Return(p)
    BY <1>3 DEF WaitFails
  <2>2. Held(proc[p].pc) = 0
    BY <1>3, HeldAt DEF Waiting, At
  <2> QED
    BY <1>1, <2>1, <2>2, ReturnStep
<1> QED
  BY <1>2, <1>3

LEMMA CallStepInv ==
    ASSUME PoolInv, NEW p \in Procs, CallStep(p), sock' = sock
    PROVE  PoolInv'
<1>0. /\ inUse \in Nat /\ inUse <= MaxConns /\ MaxConns \in Nat
      /\ proc[p].pc \in PCs /\ proc[p].op \in Ops
  BY ServerAssumption DEF PoolInv, SocketsTypeOK, Process
<1>1. CASE Acquire(p)
  <2>1. /\ proc[p].pc \in Waiting /\ phase # "exited" /\ phase' = phase
        /\ inUse < MaxConns /\ inUse' = inUse + 1
        /\ Goto(p, AfterAcquire(proc[p].pc, proc[p].op))
    BY <1>1 DEF Acquire, Take
  <2>2. PICK pc : pc = AfterAcquire(proc[p].pc, proc[p].op)
    OBVIOUS
  <2>3. pc \in PCs /\ Held(pc) = Held(proc[p].pc) + 1
    BY <2>1, <2>2, HeldAt DEF AfterAcquire, Waiting, PCs
  <2>4. inUse' = (inUse - Held(proc[p].pc)) + Held(pc) /\ inUse' <= MaxConns
    BY <1>0, <2>1, <2>3, HeldType
  <2> QED
    BY <2>1, <2>2, <2>3, <2>4, GotoStep
<1>2. CASE AcquireFails(p)
  BY <1>2, WaitFailsStep DEF AcquireFails, Up
<1>3. CASE FinishQuery(p) \/ QueryFails(p)
  <2>1. PICK pc \in {"tx", "rollback"} : Goto(p, pc)
    BY <1>3 DEF FinishQuery, QueryFails
  <2>2. /\ phase # "exited" /\ phase' = phase /\ proc[p].pc = "reading"
        /\ inUse' = inUse - 1 /\ pc \in PCs
    BY <1>3 DEF FinishQuery, QueryFails, Up, At, PCs
  <2>3. inUse' = (inUse - Held(proc[p].pc)) + Held(pc) /\ inUse' <= MaxConns
    BY <1>0, <2>2, HeldAt
  <2> QED
    BY <2>1, <2>2, <2>3, GotoStep
<1>4. CASE TransactionFails(p)
  <2>1. /\ phase # "exited" /\ phase' = phase /\ Goto(p, "rollback")
        /\ proc[p].pc \in {"tx", "query"} /\ inUse' = inUse /\ "rollback" \in PCs
    BY <1>4 DEF TransactionFails, Up, At, PCs
  <2>2. inUse' = (inUse - Held(proc[p].pc)) + Held("rollback") /\ inUse' <= MaxConns
    BY <1>0, <2>1, HeldAt
  <2> QED
    BY <2>1, <2>2, GotoStep
<1>5. CASE Commit(p)
  <2>1. /\ phase # "exited" /\ phase' = phase /\ proc[p].pc = "tx" /\ inUse' = inUse - 1
    BY <1>5 DEF Commit, Up, At
  <2>2. PICK pc : pc = AfterCommit(proc[p].op)
    OBVIOUS
  <2>3. pc \in PCs /\ Held(pc) = 0
    BY <1>0, <2>2, HeldAt DEF AfterCommit, Ops, PCs
  <2>4. /\ inUse' = (inUse - Held(proc[p].pc)) + Held(pc) /\ inUse' <= MaxConns
        /\ inUse' = inUse - Held(proc[p].pc)
    BY <1>0, <2>1, <2>3, HeldAt
  <2>5. Return(p) \/ Goto(p, pc)
    BY <1>5, <2>2 DEF Commit
  <2> QED
    BY <2>1, <2>3, <2>4, <2>5, GotoStep, ReturnStep
<1>6. CASE CommitFails(p)
  <2>1. inUse' = inUse - Held(proc[p].pc)
    BY <1>6, HeldAt DEF CommitFails, At
  <2> QED
    BY <1>6, <2>1, ReturnStep DEF CommitFails, Up
<1>7. CASE Rollback(p)
  <2>1. inUse' = inUse - Held(proc[p].pc)
    BY <1>7, HeldAt DEF Rollback, At
  <2> QED
    BY <1>7, <2>1, ReturnStep DEF Rollback, Up
<1>8. CASE Finish(p)
  BY <1>8, ReturnStep DEF Finish, Up
<1> QED
  BY <1>1, <1>2, <1>3, <1>4, <1>5, <1>6, <1>7, <1>8 DEF CallStep

LEMMA ServerStep ==
    ASSUME PoolInv, ServerNext, sock' = sock
    PROVE  PoolInv'
<1>1. ASSUME NEW r \in Requests, NEW op \in Ops, Arrive(r, op) PROVE PoolInv'
  <2>1. r \in Procs
    BY DEF Procs
  <2> QED
    BY <1>1, <2>1, CallBegins DEF Arrive
<1>2. CASE WatcherTick
  <2>1. Watcher \in Procs /\ "stop" \in Ops
    BY DEF Procs, Ops
  <2> QED
    BY <1>2, <2>1, CallBegins DEF WatcherTick, Up
<1>3. ASSUME NEW p \in Procs, ContextEnds(p) \/ CallStep(p) PROVE PoolInv'
  BY <1>3, ContextEndsStep, CallStepInv
<1>4. CASE Signal \/ Shutdown \/ Exit
  <2>1. /\ UNCHANGED <<proc, inUse, sock>>
        /\ phase' \in {"serving", "draining", "closing", "exited"}
        /\ phase' = "exited" => inUse' = 0
    BY <1>4 DEF Signal, Shutdown, Exit
  <2>2. SocketsTypeOK' /\ ExitedInv'
    BY <2>1 DEF PoolInv, SocketsTypeOK, ExitedInv
  <2>3. PoolBalanced'
    BY <2>1 DEF PoolInv, PoolBalanced, CallConns, SocketConns, SocketHeld
  <2> QED
    BY <2>2, <2>3 DEF PoolInv
<1> QED
  BY <1>1, <1>2, <1>3, <1>4 DEF ServerNext

\* A step that makes socket s the record new.
LEMMA SocketStepTo ==
    ASSUME PoolInv, NEW s \in Socket, NEW new \in SocketRecord,
           sock' = [sock EXCEPT ![s] = new],
           inUse' = (inUse - SocketHeld(s)) + (IF new.main = "lookup" THEN 1 ELSE 0),
           inUse' <= MaxConns, UNCHANGED <<phase, proc>>, phase # "exited"
    PROVE  PoolInv'
<1>1. /\ sock' \in [Socket -> SocketRecord] /\ sock'[s] = new
      /\ \A t \in Socket : t # s => sock'[t] = sock[t]
  BY DEF PoolInv, SocketsTypeOK
<1>2. inUse' = (inUse - SocketHeld(s)) + SocketHeld(s)'
  BY <1>1 DEF SocketHeld
<1> QED
  BY <1>1, <1>2, SocketMove

\* A step of a socket that neither looks up a row nor will.
LEMMA SocketIdleStep ==
    ASSUME PoolInv, NEW s \in Socket, NEW new \in SocketRecord,
           sock' = [sock EXCEPT ![s] = new], new.main # "lookup",
           sock[s].main # "lookup", UNCHANGED serverVars, phase # "exited"
    PROVE  PoolInv'
<1>1. inUse \in Nat /\ inUse <= MaxConns /\ UNCHANGED <<inUse, phase, proc>>
  BY ServerAssumption DEF PoolInv, SocketsTypeOK, serverVars
<1>2. inUse' = (inUse - SocketHeld(s)) + (IF new.main = "lookup" THEN 1 ELSE 0)
  BY <1>1 DEF SocketHeld
<1> QED
  BY <1>1, <1>2, SocketStepTo

\* A step that touches neither main nor the count.
LEMMA SocketSideStep ==
    ASSUME PoolInv, NEW s \in Socket, NEW new \in SocketRecord,
           sock' = [sock EXCEPT ![s] = new], new.main = sock[s].main,
           UNCHANGED serverVars, phase # "exited"
    PROVE  PoolInv'
<1>1. inUse \in Nat /\ inUse <= MaxConns /\ UNCHANGED <<inUse, phase, proc>>
  BY ServerAssumption DEF PoolInv, SocketsTypeOK, serverVars
<1>2. inUse' = (inUse - SocketHeld(s)) + (IF new.main = "lookup" THEN 1 ELSE 0)
  BY <1>1 DEF SocketHeld
<1> QED
  BY <1>1, <1>2, SocketStepTo

LEMMA HandlerReturnsStep ==
    ASSUME PoolInv, NEW s \in Socket, HandlerReturns(s), phase # "exited"
    PROVE  PoolInv'
<1>1. sock \in [Socket -> SocketRecord] /\ sock[s] \in SocketRecord
  BY DEF PoolInv, SocketsTypeOK
<1>2. PICK new : new = [sock[s] EXCEPT !.main = "idle", !.ctx = FALSE, !.docker = "none"]
  OBVIOUS
<1>3. new \in SocketRecord /\ new.main = "idle"
  BY <1>1, <1>2 DEF SocketRecord, Mains
<1>4. sock' = [sock EXCEPT ![s] = new] /\ UNCHANGED <<phase, proc>>
      /\ inUse' = inUse - SocketHeld(s)
  BY <1>1, <1>2 DEF HandlerReturns
<1>5. inUse \in Nat /\ inUse <= MaxConns /\ MaxConns \in Nat /\ SocketHeld(s) \in Nat
  BY ServerAssumption DEF PoolInv, SocketsTypeOK, SocketHeld
<1>6. /\ inUse' = (inUse - SocketHeld(s)) + (IF new.main = "lookup" THEN 1 ELSE 0)
      /\ inUse' <= MaxConns
  BY <1>3, <1>4, <1>5
<1> QED
  BY <1>3, <1>4, <1>6, SocketStepTo

LEMMA HelperEndsStep ==
    ASSUME PoolInv, NEW s \in Socket, HelperEnds(s), phase # "exited"
    PROVE  PoolInv'
<1>1. sock \in [Socket -> SocketRecord] /\ sock[s] \in SocketRecord
  BY DEF PoolInv, SocketsTypeOK
<1>2. PICK new : new = [sock[s] EXCEPT !.helper = FALSE, !.ctx = FALSE]
  OBVIOUS
<1>3. new \in SocketRecord /\ new.main = sock[s].main
  BY <1>1, <1>2 DEF SocketRecord
<1>4. sock' = [sock EXCEPT ![s] = new] /\ UNCHANGED serverVars
  BY <1>1, <1>2 DEF HelperEnds
<1> QED
  BY <1>3, <1>4, SocketSideStep

LEMMA MainStep ==
    ASSUME PoolInv, NEW s \in Socket, NEW main \in Mains,
           sock' = [sock EXCEPT ![s].main = main],
           inUse' = (inUse - SocketHeld(s)) + (IF main = "lookup" THEN 1 ELSE 0),
           inUse' <= MaxConns, UNCHANGED <<phase, proc>>, phase # "exited"
    PROVE  PoolInv'
<1>1. sock \in [Socket -> SocketRecord] /\ sock[s] \in SocketRecord
  BY DEF PoolInv, SocketsTypeOK
<1>2. PICK new : new = [sock[s] EXCEPT !.main = main]
  OBVIOUS
<1>3. new \in SocketRecord /\ new.main = main
  BY <1>1, <1>2 DEF SocketRecord
<1>4. sock' = [sock EXCEPT ![s] = new]
  BY <1>1, <1>2
<1> QED
  BY <1>3, <1>4, SocketStepTo

LEMMA OpenStep ==
    ASSUME PoolInv, NEW s \in Socket, NEW kind \in Kinds, OpenSocket(s, kind)
    PROVE  PoolInv'
<1>1. PICK new : new = [kind |-> kind,
                        main |-> IF kind = "metrics" THEN "attach" ELSE "acquire",
                        helper |-> kind # "terminal",
                        ctx |-> TRUE, client |-> TRUE, docker |-> "none"]
  OBVIOUS
<1>2. new \in SocketRecord /\ new.main # "lookup"
  BY <1>1 DEF SocketRecord, Mains
<1>3. /\ sock' = [sock EXCEPT ![s] = new] /\ UNCHANGED serverVars
      /\ sock[s].main # "lookup" /\ phase # "exited"
  BY <1>1 DEF OpenSocket, Released
<1> QED
  BY <1>2, <1>3, SocketIdleStep

LEMMA AcquireStep ==
    ASSUME PoolInv, NEW s \in Socket, SocketAcquire(s)
    PROVE  PoolInv'
<1>1. /\ sock[s].main = "acquire" /\ sock' = [sock EXCEPT ![s].main = "lookup"]
      /\ inUse < MaxConns /\ inUse' = inUse + 1 /\ UNCHANGED <<phase, proc>>
      /\ phase # "exited"
  BY DEF SocketAcquire, Take
<1>2. inUse \in Nat /\ MaxConns \in Nat /\ "lookup" \in Mains
  BY ServerAssumption DEF PoolInv, SocketsTypeOK, Mains
<1>3. inUse' = (inUse - SocketHeld(s)) + 1 /\ inUse' <= MaxConns
  BY <1>1, <1>2 DEF SocketHeld
<1> QED
  BY <1>1, <1>2, <1>3, MainStep

LEMMA LookupStep ==
    ASSUME PoolInv, NEW s \in Socket, SocketLookup(s)
    PROVE  PoolInv'
<1>1. /\ sock[s].main = "lookup" /\ sock' = [sock EXCEPT ![s].main = "attach"]
      /\ inUse' = inUse - 1 /\ UNCHANGED <<phase, proc>> /\ phase # "exited"
  BY DEF SocketLookup, Up
<1>2. inUse \in Nat /\ inUse <= MaxConns /\ MaxConns \in Nat /\ "attach" \in Mains
  BY ServerAssumption DEF PoolInv, SocketsTypeOK, Mains
<1>3. inUse' = (inUse - SocketHeld(s)) + 0 /\ inUse' <= MaxConns
  BY <1>1, <1>2 DEF SocketHeld
<1> QED
  BY <1>1, <1>2, <1>3, MainStep

LEMMA AttachStep ==
    ASSUME PoolInv, NEW s \in Socket, Attach(s)
    PROVE  PoolInv'
<1>1. sock \in [Socket -> SocketRecord] /\ sock[s] \in SocketRecord
  BY DEF PoolInv, SocketsTypeOK
<1>2. PICK main, helper :
         /\ main = IF Follower(s) THEN "copy" ELSE "check"
         /\ helper = IF Follower(s) THEN sock[s].helper ELSE TRUE
  OBVIOUS
<1>3. PICK new : new = [sock[s] EXCEPT !.main = main, !.helper = helper, !.docker = "open"]
  OBVIOUS
<1>4. main \in Mains /\ main # "lookup" /\ helper \in BOOLEAN
  BY <1>1, <1>2 DEF Mains, SocketRecord
<1>5. new \in SocketRecord /\ new.main = main
  BY <1>1, <1>3, <1>4 DEF SocketRecord
<1>6. /\ sock' = [sock EXCEPT ![s] = new] /\ UNCHANGED serverVars
      /\ sock[s].main # "lookup" /\ phase # "exited"
  BY <1>1, <1>2, <1>3 DEF Attach, Up
<1> QED
  BY <1>4, <1>5, <1>6, SocketIdleStep

\* The loop of a terminal goes on.
LEMMA TerminalStep ==
    ASSUME PoolInv, NEW s \in Socket, NEW main \in {"read", "check"},
           sock' = [sock EXCEPT ![s].main = main], sock[s].main # "lookup",
           UNCHANGED serverVars, phase # "exited"
    PROVE  PoolInv'
<1>1. inUse \in Nat /\ inUse <= MaxConns /\ UNCHANGED <<inUse, phase, proc>>
      /\ main \in Mains
  BY ServerAssumption DEF PoolInv, SocketsTypeOK, serverVars, Mains
<1>2. inUse' = (inUse - SocketHeld(s)) + (IF main = "lookup" THEN 1 ELSE 0)
  BY <1>1 DEF SocketHeld
<1> QED
  BY <1>1, <1>2, MainStep

\* Container or client end.
LEMMA EndStep ==
    ASSUME PoolInv, NEW s \in Socket, DockerEnds(s) \/ ClientGone(s)
    PROVE  PoolInv'
<1>1. sock \in [Socket -> SocketRecord] /\ sock[s] \in SocketRecord
  BY DEF PoolInv, SocketsTypeOK
<1>2. UNCHANGED serverVars /\ phase # "exited"
  BY DEF DockerEnds, ClientGone, Up
<1>3. CASE DockerEnds(s)
  <2>1. PICK new : new = [sock[s] EXCEPT !.docker = "ended"]
    OBVIOUS
  <2>2. new \in SocketRecord /\ new.main = sock[s].main
    BY <1>1, <2>1 DEF SocketRecord
  <2>3. sock' = [sock EXCEPT ![s] = new]
    BY <1>1, <1>3, <2>1 DEF DockerEnds
  <2> QED
    BY <1>2, <2>2, <2>3, SocketSideStep
<1>4. CASE ClientGone(s)
  <2>1. PICK new : new = [sock[s] EXCEPT !.client = FALSE]
    OBVIOUS
  <2>2. new \in SocketRecord /\ new.main = sock[s].main
    BY <1>1, <2>1 DEF SocketRecord
  <2>3. sock' = [sock EXCEPT ![s] = new]
    BY <1>1, <1>4, <2>1 DEF ClientGone
  <2> QED
    BY <1>2, <2>2, <2>3, SocketSideStep
<1> QED
  BY <1>3, <1>4

LEMMA SocketNextStep ==
    ASSUME PoolInv, NEW s \in Socket, SocketNext(s)
    PROVE  PoolInv'
<1>1. CASE \E kind \in Kinds : OpenSocket(s, kind)
  BY <1>1, OpenStep
<1>2. CASE SocketAcquire(s)
  BY <1>2, AcquireStep
<1>3. CASE SocketLookup(s)
  BY <1>3, LookupStep
<1>4. CASE Attach(s)
  BY <1>4, AttachStep
<1>5. CASE SocketTurnedAway(s) \/ LookupFails(s) \/ CopyEnds(s) \/ SnapshotPanics(s)
             \/ ReadFails(s)
  BY <1>5, HandlerReturnsStep
     DEF SocketTurnedAway, LookupFails, CopyEnds, SnapshotPanics, ReadFails, Up
<1>6. CASE CheckContext(s)
  <2>1. phase # "exited" /\ sock[s].main # "lookup"
    BY <1>6 DEF CheckContext, Up
  <2>2. CASE sock[s].ctx
    BY <1>6, <2>1, <2>2, TerminalStep DEF CheckContext
  <2>3. CASE ~sock[s].ctx
    BY <1>6, <2>1, <2>3, HandlerReturnsStep DEF CheckContext
  <2> QED
    BY <2>2, <2>3
<1>7. CASE TerminalInput(s)
  <2>1. phase # "exited" /\ sock[s].main # "lookup"
    BY <1>7 DEF TerminalInput, Up
  <2>2. CASE sock' = [sock EXCEPT ![s].main = "check"] /\ UNCHANGED serverVars
    BY <2>1, <2>2, TerminalStep
  <2>3. CASE HandlerReturns(s)
    BY <2>1, <2>3, HandlerReturnsStep
  <2> QED
    BY <1>7, <2>2, <2>3 DEF TerminalInput
<1>8. CASE HelperReadFails(s)
  BY <1>8, HelperEndsStep DEF HelperReadFails, Up
<1>9. CASE WriteFails(s)
  BY <1>9, HandlerReturnsStep, HelperEndsStep DEF WriteFails, Up
<1>10. CASE DockerEnds(s) \/ ClientGone(s)
  BY <1>10, EndStep
<1> QED
  BY <1>1, <1>2, <1>3, <1>4, <1>5, <1>6, <1>7, <1>8, <1>9, <1>10
     DEF SocketNext, SocketStep

LEMMA InitPoolInv == SocketsInit => PoolInv
<1> SUFFICES ASSUME SocketsInit PROVE PoolInv
  OBVIOUS
<1>1. /\ proc = [p \in Procs |-> NoCall]
      /\ inUse = 0 /\ phase = "serving" /\ sock = [s \in Socket |-> NoSocket]
  BY DEF SocketsInit, ServerInit
<1>2. NoCall \in Process /\ NoSocket \in SocketRecord
  BY DEF NoCall, Process, PCs, Ops, NoSocket, SocketRecord, Kinds, Mains
<1>3. MaxConns \in Nat
  BY ServerAssumption
<1>4. SocketsTypeOK
  BY <1>1, <1>2, <1>3 DEF SocketsTypeOK
<1>5. CallConns = {} /\ SocketConns = {}
  <2>1. \A p \in Procs : Held(proc[p].pc) = 0
    BY <1>1, HeldAt DEF NoCall
  <2>2. CallConns = {}
    BY <2>1 DEF CallConns
  <2>3. SocketConns = {}
    BY <1>1 DEF SocketConns, SocketHeld, NoSocket
  <2> QED
    BY <2>2, <2>3
<1>6. PoolBalanced
  BY <1>1, <1>3, <1>5, FS_EmptySet DEF PoolBalanced
<1> QED
  BY <1>1, <1>4, <1>6 DEF PoolInv, ExitedInv

LEMMA NextPoolInv == PoolInv /\ [SocketsNext]_vars => PoolInv'
<1> SUFFICES ASSUME PoolInv, [SocketsNext]_vars PROVE PoolInv'
  OBVIOUS
<1>1. CASE ServerNext /\ UNCHANGED sock
  BY <1>1, ServerStep
<1>2. CASE \E s \in Socket : SocketNext(s)
  BY <1>2, SocketNextStep
<1>3. CASE UNCHANGED vars
  <2>1. UNCHANGED <<proc, inUse, phase, sock>>
    BY <1>3 DEF vars, serverVars
  <2>2. SocketsTypeOK' /\ ExitedInv'
    BY <2>1 DEF PoolInv, SocketsTypeOK, ExitedInv
  <2>3. PoolBalanced'
    BY <2>1 DEF PoolInv, PoolBalanced, CallConns, SocketConns, SocketHeld
  <2> QED
    BY <2>2, <2>3 DEF PoolInv
<1> QED
  BY <1>1, <1>2, <1>3 DEF SocketsNext

-----------------------------------------------------------------------------
\* The theorems.

\* The inductive invariant of pool, calls, sockets and shutdown holds in every
\* reachable state.
THEOREM PoolInvariant == SocketsSpec => []PoolInv
BY InitPoolInv, NextPoolInv, PTL DEF SocketsSpec

\* Type correctness of pool, calls and sockets: among the rest, the count never
\* leaves 0 .. MaxConns.
THEOREM SocketsTypeCorrect == SocketsSpec => []SocketsTypeOK
<1>1. PoolInv => SocketsTypeOK
  BY DEF PoolInv
<1> QED
  BY <1>1, PoolInvariant, PTL

(***************************************************************************)
(* ConnectionsBalance: no path through CreateContainer, StartContainer,    *)
(* StopContainer, RemoveContainer or a socket loses a connection or gives  *)
(* one back twice, errors, timeouts and a closed pool included, and the    *)
(* pool is never overdrawn.                                                *)
(***************************************************************************)
THEOREM ConnectionsBalance == SocketsSpec => []PoolBalanced
<1>1. PoolInv => PoolBalanced
  BY DEF PoolInv
<1> QED
  BY <1>1, PoolInvariant, PTL

(***************************************************************************)
(* TransactionsAreWhole: however late a request, the watcher or a socket   *)
(* is, main does not return while it has a connection.                     *)
(***************************************************************************)
THEOREM TransactionsAreWhole == SocketsSpec => []NoCutTransaction
<1>1. PoolInv => NoCutTransaction
  <2> SUFFICES ASSUME PoolInv, phase = "exited"
               PROVE  /\ \A p \in Procs : Held(proc[p].pc) = 0
                      /\ \A s \in Socket : SocketHeld(s) = 0
    BY DEF NoCutTransaction
  <2>1. Cardinality(CallConns) + Cardinality(SocketConns) = 0
    BY DEF PoolInv, ExitedInv, PoolBalanced
  <2>2. IsFiniteSet(SocketConns) /\ Cardinality(SocketConns) \in Nat
    BY SocketConnsFinite
  <2>3. IsFiniteSet(CallConns) /\ Cardinality(CallConns) \in Nat
    <3>1. IsFiniteSet(Procs \X {1, 2})
      BY FiniteProcs, FinitePairs
    <3>2. CallConns \in SUBSET (Procs \X {1, 2})
      BY DEF CallConns
    <3> QED
      BY <3>1, <3>2, FS_Subset, FS_CardinalityType
  <2>4. CallConns = {} /\ SocketConns = {}
    <3>1. Cardinality(CallConns) = 0 /\ Cardinality(SocketConns) = 0
      BY <2>1, <2>2, <2>3
    <3> QED
      BY <2>2, <2>3, <3>1, FS_EmptySet
  <2>5. ASSUME NEW p \in Procs, Held(proc[p].pc) # 0 PROVE FALSE
    <3>1. 1 <= Held(proc[p].pc)
      BY <2>5, HeldType
    <3>2. <<p, 1>> \in CallConns
      BY <3>1 DEF CallConns
    <3> QED
      BY <2>4, <3>2
  <2>6. ASSUME NEW s \in Socket PROVE SocketHeld(s) = 0
    BY <2>4 DEF SocketConns, SocketHeld
  <2> QED
    BY <2>5, <2>6
<1> QED
  BY <1>1, PoolInvariant, PTL
=============================================================================
