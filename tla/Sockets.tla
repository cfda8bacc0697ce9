------------------------------ MODULE Sockets -------------------------------
(***************************************************************************)
(* The WebSockets (websocket/terminalHandler.go, logsHandler.go and        *)
(* metricHandler.go), beside the requests and the shutdown of Server.      *)
(*                                                                         *)
(* A socket has two goroutines that share a cancellable context: main, the *)
(* handler itself, and a helper.  The followers, logs and metrics, let the *)
(* helper read the client and main copy Docker's stream to it; a terminal  *)
(* does it the other way round.  The connection is hijacked: the request's *)
(* own context does not end with the client, and Shutdown does not wait.   *)
(***************************************************************************)
EXTENDS Server

CONSTANT Socket    \* WebSocket connections, one after the other on each

ASSUME SocketsAssumption == IsFiniteSet(Socket)

VARIABLE sock

vars == <<serverVars, sock>>

Kinds == {"terminal", "logs", "metrics"}

(***************************************************************************)
(* main    idle     has returned                                           *)
(*         acquire  waits for a connection of the pool, without a deadline *)
(*         lookup   reads the container's row                              *)
(*         attach   calls Docker                                           *)
(*         copy     a follower's copy loop                                 *)
(*         check    a terminal's loop, before the select on the context    *)
(*         read     a terminal's loop, in ReadMessage                      *)
(* helper  whether it runs                                                 *)
(* ctx     the context is not cancelled                                    *)
(* client  the client is connected                                         *)
(* docker  the stream: open, ended by Docker, or not there (any more)      *)
(***************************************************************************)
NoSocket == [kind |-> "logs", main |-> "idle", helper |-> FALSE, ctx |-> FALSE,
             client |-> FALSE, docker |-> "none"]

Released(s) == sock[s].main = "idle" /\ ~sock[s].helper
Follower(s) == sock[s].kind # "terminal"
SocketHeld(s) == IF sock[s].main = "lookup" THEN 1 ELSE 0

SocketsInit == ServerInit /\ sock = [s \in Socket |-> NoSocket]

-----------------------------------------------------------------------------
\* The upgrade.  A follower starts its helper at once; the metrics are asked of
\* Docker by the container's ID, without a look at the database.
OpenSocket(s, kind) ==
    /\ phase = "serving"
    /\ Released(s)
    /\ sock' = [sock EXCEPT ![s] =
                 [kind |-> kind,
                  main |-> IF kind = "metrics" THEN "attach" ELSE "acquire",
                  helper |-> kind # "terminal",
                  ctx |-> TRUE, client |-> TRUE, docker |-> "none"]]
    /\ UNCHANGED serverVars

\* GetContainerByID of ExecTerminal and StreamLogs.
SocketAcquire(s) ==
    /\ sock[s].main = "acquire"
    /\ Take
    /\ sock' = [sock EXCEPT ![s].main = "lookup"]
    /\ UNCHANGED <<proc, phase>>

\* The row is read: the connection goes back.
SocketLookup(s) ==
    /\ Up
    /\ sock[s].main = "lookup"
    /\ sock' = [sock EXCEPT ![s].main = "attach"]
    /\ inUse' = inUse - 1
    /\ UNCHANGED <<proc, phase>>

\* Docker answers with a stream; a terminal starts its helper now.
Attach(s) ==
    /\ Up
    /\ sock[s].main = "attach"
    /\ sock' = [sock EXCEPT ![s].main = IF Follower(s) THEN "copy" ELSE "check",
                            ![s].helper = IF Follower(s) THEN @ ELSE TRUE,
                            ![s].docker = "open"]
    /\ UNCHANGED serverVars

\* The handler returns: the deferred calls close the stream from Docker, cancel
\* the context and close the connection to the client.
HandlerReturns(s) ==
    /\ sock' = [sock EXCEPT ![s].main = "idle", ![s].ctx = FALSE, ![s].docker = "none"]
    /\ inUse' = inUse - SocketHeld(s)
    /\ UNCHANGED <<proc, phase>>

\* No connection (the context has ended, or the pool is closed).
SocketTurnedAway(s) ==
    /\ Up
    /\ sock[s].main = "acquire"
    /\ TurnedAway \/ ~sock[s].ctx
    /\ HandlerReturns(s)

\* No such row, or an error of the query or of Docker, the end of the context
\* included.
LookupFails(s) ==
    /\ Up
    /\ sock[s].main \in {"lookup", "attach"}
    /\ HandlerReturns(s)

\* StdCopy, or the loop over Decode, ends with the stream: Docker ended it, or
\* the context was cancelled.
CopyEnds(s) ==
    /\ Up
    /\ sock[s].main = "copy"
    /\ sock[s].docker = "ended" \/ ~sock[s].ctx
    /\ HandlerReturns(s)

\* buildSnapshot divides by the difference of two readings of the system's CPU
\* time: when they are equal, as both are 0 for a container that does not run, it
\* panics.  The deferred calls run, and Recovery ends the panic; the status it
\* writes has nowhere to go.
SnapshotPanics(s) ==
    /\ Up
    /\ sock[s].main = "copy"
    /\ sock[s].kind = "metrics"
    /\ sock[s].docker = "open"
    /\ HandlerReturns(s)

\* The select at the head of a terminal's loop.
CheckContext(s) ==
    /\ Up
    /\ sock[s].main = "check"
    /\ IF sock[s].ctx
       THEN sock' = [sock EXCEPT ![s].main = "read"] /\ UNCHANGED serverVars
       ELSE HandlerReturns(s)

\* ReadMessage of a terminal fails.
ReadFails(s) ==
    /\ Up
    /\ sock[s].main = "read"
    /\ ~sock[s].client
    /\ HandlerReturns(s)

\* A message of the client: a resize, whose error is dropped, or input, which is
\* written to Docker.  Writing to a shell that has gone may fail.
TerminalInput(s) ==
    /\ Up
    /\ sock[s].main = "read"
    /\ sock[s].client
    /\ \/ sock' = [sock EXCEPT ![s].main = "check"] /\ UNCHANGED serverVars
       \/ sock[s].docker = "ended" /\ HandlerReturns(s)

-----------------------------------------------------------------------------
\* Mutant: the helper of a follower ends without cancelling.
HelperEndsQuietly(s) ==
    /\ sock' = [sock EXCEPT ![s].helper = FALSE]
    /\ UNCHANGED serverVars

\* The helper returns, and cancels the context.
HelperEnds(s) ==
    /\ sock' = [sock EXCEPT ![s].helper = FALSE, ![s].ctx = FALSE]
    /\ UNCHANGED serverVars

\* A follower's helper: ReadMessage fails once the client has gone or the
\* handler has closed the connection.  A terminal's helper: Read fails once
\* Docker has ended the stream or the handler has closed it.
HelperReadFails(s) ==
    /\ Up
    /\ sock[s].helper
    /\ IF Follower(s) THEN ~sock[s].client \/ sock[s].main = "idle"
                      ELSE sock[s].docker # "open"
    /\ HelperEnds(s)

\* Output of Docker that cannot be written to the client any more.
WriteFails(s) ==
    /\ Up
    /\ sock[s].docker = "open"
    /\ ~sock[s].client
    /\ \/ sock[s].main = "copy" /\ HandlerReturns(s)
       \/ ~Follower(s) /\ sock[s].helper /\ HelperEnds(s)

\* The container stops or is removed, or the shell exits.
DockerEnds(s) ==
    /\ Up
    /\ sock[s].docker = "open"
    /\ sock' = [sock EXCEPT ![s].docker = "ended"]
    /\ UNCHANGED serverVars

ClientGone(s) ==
    /\ Up
    /\ sock[s].client
    /\ sock' = [sock EXCEPT ![s].client = FALSE]
    /\ UNCHANGED serverVars

-----------------------------------------------------------------------------
\* What the goroutines of a socket do by themselves.
SocketStep(s) ==
    \/ SocketLookup(s)
    \/ SocketTurnedAway(s)
    \/ Attach(s)
    \/ CopyEnds(s)
    \/ CheckContext(s)
    \/ ReadFails(s)
    \/ HelperReadFails(s)

SocketNext(s) ==
    \/ \E kind \in Kinds : OpenSocket(s, kind)
    \/ SocketAcquire(s)
    \/ SocketStep(s)
    \/ LookupFails(s)
    \/ SnapshotPanics(s)
    \/ TerminalInput(s)
    \/ WriteFails(s)
    \/ DockerEnds(s)
    \/ ClientGone(s)

SocketsNext ==
    \/ ServerNext /\ UNCHANGED sock
    \/ \E s \in Socket : SocketNext(s)

\* Contexts end, and a call whose context has ended does not block any more;
\* while it lasts nothing is assumed of PostgreSQL and Docker.  They answer a
\* socket.  The pool serves its waiters in turn, so a socket that is passed over
\* again and again is served in the end.
SocketsSpec ==
    /\ SocketsInit
    /\ [][SocketsNext]_vars
    /\ \A p \in Procs : WF_vars(ContextEnds(p) /\ UNCHANGED sock)
    /\ \A p \in Procs : WF_vars(~proc[p].ctx /\ CallStep(p) /\ UNCHANGED sock)
    /\ WF_vars(Shutdown /\ UNCHANGED sock)
    /\ WF_vars(Exit /\ UNCHANGED sock)
    /\ \A s \in Socket : SF_vars(SocketAcquire(s))
    /\ \A s \in Socket : WF_vars(SocketLookup(s)) /\ WF_vars(Attach(s))
    /\ \A s \in Socket : WF_vars(SocketTurnedAway(s)) /\ WF_vars(CopyEnds(s))
    /\ \A s \in Socket : WF_vars(CheckContext(s)) /\ WF_vars(ReadFails(s))
    /\ \A s \in Socket : WF_vars(HelperReadFails(s))

-----------------------------------------------------------------------------
\* Properties.

\* The connections of requests and watcher, numbered for each, and of sockets.
CallConns == {h \in Procs \X {1, 2} : h[2] <= Held(proc[h[1]].pc)}
SocketConns == {s \in Socket : SocketHeld(s) = 1}

\* Every connection that is out of the pool belongs to a call that is under way:
\* no path through CreateContainer, StartContainer, StopContainer, RemoveContainer
\* or a socket's lookup, with a failing wait, query, statement, Docker call or
\* commit, an ended context or a closed pool, loses one or gives one back twice.
PoolBalanced ==
    /\ inUse = Cardinality(CallConns) + Cardinality(SocketConns)
    /\ inUse <= MaxConns

\* main's deferred calls: the process does not exit while a request, the watcher
\* or a socket has a connection, so never in the middle of a transaction, however
\* late it is: a request that outlives the ten seconds of Shutdown is cut before
\* its BeginTx or after its commit.
NoCutTransaction ==
    phase = "exited" => /\ \A p \in Procs : Held(proc[p].pc) = 0
                        /\ \A s \in Socket : SocketHeld(s) = 0

\* ExecTerminal and StreamLogs ask the pool for a connection under a context
\* without a deadline, while transactions may hold all of it: creates that pull an
\* image, or starts and stops of which each waits for a second connection that
\* only another of them could give back.  Their contexts end, and the socket gets
\* a connection, or is turned away, or the process ends.
SocketServed ==
    \A s \in Socket : sock[s].main = "acquire" ~> (sock[s].main # "acquire" \/ ~Up)

\* After a signal the process exits: closing the pool, which waits for every
\* connection, ends whatever requests, watcher and sockets are doing.
ShutdownEnds == phase = "draining" ~> phase = "exited"

\* When the client of a socket goes, or its handler returns, both goroutines and
\* the stream from Docker are released, in whatever order client, container and
\* helper end.
SocketReleased ==
    \A s \in Socket : (~sock[s].client \/ sock[s].main = "idle")
                          ~> ((Released(s) /\ sock[s].docker = "none") \/ ~Up)
=============================================================================
