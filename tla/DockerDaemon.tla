---------------------------- MODULE DockerDaemon ----------------------------
(***************************************************************************)
(* The Docker daemon as src/ uses it (external: the daemon is not part of  *)
(* the repository).  It keeps the machine state of every managed container *)
(* and feeds an ordered event stream to the subscriber, when there is one. *)
(*                                                                         *)
(* Only the events that ContainerEventsService.dispatch reacts to are kept *)
(* apart: "clean" and "crash" are "die" with exit code zero and non-zero,  *)
(* "oom" is the out-of-memory event that precedes the die, and the members *)
(* of HealthStatuses are the "health_status: ..." events.                  *)
(***************************************************************************)
EXTENDS Naturals, Sequences, FiniteSets

CONSTANTS Containers,      \* the containers of the instance
          HealthStatuses   \* the health checks' verdicts that are reported

VARIABLES docker,          \* docker[c]: what the daemon knows of c
          events,          \* sent to the subscriber, not yet dispatched
          connected        \* the event stream is open

dockerVars == <<docker, events, connected>>

DieEvents == {"clean", "crash"}
EventTypes == DieEvents \cup {"oom"} \cup HealthStatuses
DockerStates == {"running", "exited", "absent"}

ASSUME HealthAssumption ==
    HealthStatuses \subseteq {"healthy", "unhealthy", "starting"}

DockerTypeOK ==
    /\ docker \in [Containers -> DockerStates]
    /\ events \in Seq([type : EventTypes, id : Containers])
    /\ connected \in BOOLEAN

DockerInit ==
    /\ docker = [c \in Containers |-> "running"]
    /\ events = <<>>
    /\ connected = FALSE

Event(t, c) == [type |-> t, id |-> c]

\* No "Since" is passed to Events(): what happens while the stream is down is
\* never reported.
Emit(es) == events' = IF connected THEN events \o es ELSE events

(***************************************************************************)
(* ContainerStop: SIGTERM, then SIGKILL after the timeout.  The exit code  *)
(* is the process's own: 0 if it handles the signal, 143 or 137 otherwise. *)
(* Stopping a container that is not running changes nothing (304).         *)
(***************************************************************************)
ContainerStop(c) ==
    IF docker[c] = "running"
    THEN /\ docker' = [docker EXCEPT ![c] = "exited"]
         /\ \E t \in DieEvents : Emit(<<Event(t, c)>>)
    ELSE UNCHANGED <<docker, events>>

\* ContainerStart; a running container stays as it is (304).
ContainerStart(c) ==
    /\ docker' = [docker EXCEPT ![c] = "running"]
    /\ UNCHANGED events

\* ContainerRemove with Force: a running container is killed first.
ContainerRemove(c) ==
    /\ docker' = [docker EXCEPT ![c] = "absent"]
    /\ Emit(IF docker[c] = "running" THEN <<Event("crash", c)>> ELSE <<>>)

\* ContainerRestart of a container that exists: a running one is stopped first,
\* and that stop is a "die" like any other.
ContainerRestart(c) ==
    /\ docker[c] # "absent"
    /\ docker' = [docker EXCEPT ![c] = "running"]
    /\ IF docker[c] = "running"
       THEN \E t \in DieEvents : Emit(<<Event(t, c)>>)
       ELSE UNCHANGED events

\* The process of c ends by itself: normally, on an error, or out of memory.
ProcessExit(c) ==
    /\ docker[c] = "running"
    /\ docker' = [docker EXCEPT ![c] = "exited"]
    /\ \E es \in {<<Event("clean", c)>>, <<Event("crash", c)>>,
                  <<Event("oom", c), Event("crash", c)>>} : Emit(es)

\* A health check of c gives the verdict s.
HealthReport(c, s) ==
    /\ docker[c] = "running"
    /\ Emit(<<Event(s, c)>>)
    /\ UNCHANGED docker
=============================================================================
