------------------------- MODULE ContainerContract --------------------------
(***************************************************************************)
(* What the container manager promises of a container, to those who use    *)
(* the API: a start or a stop changes the status in the table and the      *)
(* container in Docker at one instant, a removal is final and is followed  *)
(* by the removal from Docker, and apart from the container's process,     *)
(* which may end at any time, only a failing call or a crash of the server *)
(* changes one of the two without the other.                               *)
(***************************************************************************)
EXTENDS Naturals

CONSTANT Containers

VARIABLES status,    \* status[c]: "running", "stopped" or "gone"
          machine,   \* machine[c]: "running", "exited" or "absent" in Docker
          owed,      \* calls reported as failed that Docker may yet carry out
          mishaps    \* how many calls failed or crashes there were

contractVars == <<status, machine, owed, mishaps>>

Init ==
    /\ status = [c \in Containers |-> "running"]
    /\ machine = [c \in Containers |-> "running"]
    /\ owed = {}
    /\ mishaps = 0

Start(c) ==
    /\ status[c] # "gone"
    /\ status' = [status EXCEPT ![c] = "running"]
    /\ machine' = [machine EXCEPT ![c] = "running"]
    /\ UNCHANGED <<owed, mishaps>>

Stop(c) ==
    /\ status[c] # "gone"
    /\ status' = [status EXCEPT ![c] = "stopped"]
    /\ machine' = [machine EXCEPT ![c] = "exited"]
    /\ UNCHANGED <<owed, mishaps>>

Remove(c) ==
    /\ status[c] # "gone"
    /\ status' = [status EXCEPT ![c] = "gone"]
    /\ UNCHANGED <<machine, owed, mishaps>>

\* Only what has been removed from the table is removed from Docker.
Clean(c) ==
    /\ status[c] = "gone"
    /\ \/ machine[c] = "running" /\ machine' = [machine EXCEPT ![c] = "exited"]
       \/ machine' = [machine EXCEPT ![c] = "absent"]
    /\ UNCHANGED <<status, owed, mishaps>>

Exit(c) ==
    /\ machine[c] = "running"
    /\ machine' = [machine EXCEPT ![c] = "exited"]
    /\ UNCHANGED <<status, owed, mishaps>>

\* Docker carries out a call that was reported as failed, on a container that
\* is still there: it brings none back and loses none.
LateEffect(e) ==
    /\ e \in owed
    /\ owed' = owed \ {e}
    /\ machine' = IF machine[e.id] = "absent" THEN machine
                  ELSE [machine EXCEPT ![e.id] =
                           IF e.op = "start" THEN "running" ELSE "exited"]
    /\ UNCHANGED <<status, mishaps>>

\* A start or stop is rolled back in the table although Docker carried it out
\* or may yet do so.  No row comes back and none is lost.
RolledBack ==
    /\ \A c \in Containers : status'[c] = "gone" <=> status[c] = "gone"
    /\ owed \subseteq owed'
    /\ \A e \in owed' \ owed : status[e.id] # "gone"
    /\ UNCHANGED machine

\* The removal is reported as failed although it is done.
RemovedUnawares(c) ==
    /\ status[c] # "gone"
    /\ status' = [status EXCEPT ![c] = "gone"]
    /\ UNCHANGED <<machine, owed>>

Mishap ==
    /\ mishaps' = mishaps + 1
    /\ RolledBack \/ \E c \in Containers : RemovedUnawares(c)

Next ==
    \/ \E c \in Containers : Start(c) \/ Stop(c) \/ Remove(c) \/ Clean(c) \/ Exit(c)
    \/ \E e \in owed : LateEffect(e)
    \/ Mishap

Spec == Init /\ [][Next]_contractVars
=============================================================================
