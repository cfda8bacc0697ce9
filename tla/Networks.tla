------------------------------ MODULE Networks ------------------------------
(***************************************************************************)
(* NetworkManager: the private networks of the users. What is created,     *)
(* connected, disconnected and deleted lives twice, in Docker and in the   *)
(* tables networks and container_networks; each operation goes to the two  *)
(* one after the other, without a transaction or a lock around them.       *)
(* RemoveContainer is here too, as far as networks are concerned.          *)
(*                                                                         *)
(* A network is named by the number of its creation in Docker, which       *)
(* stands for docker_net_id and for the id of the row that holds it.       *)
(***************************************************************************)
EXTENDS Naturals, FiniteSets

CONSTANTS Users,
          Containers,   \* containers that exist at the beginning
          Owner,        \* Owner[c]: containers.user_id
          Names,        \* names of networks
          NamesOf,      \* NamesOf[u]: the names that user u asks for
          Requests,     \* requests under way at one time
          None,
          Leaving,      \* users whose accounts are deleted
          MaxNets,      \* bound on networks that Docker creates
          LimitsOf,     \* LimitsOf[u]: max_networks of the plans user u may have
          MaxNetworks,  \* the largest of them
          MaxFailures,  \* bound on failing calls and crashes of the server
          Operations    \* operations that requests ask for

ASSUME NetworksAssumption ==
    /\ Owner \in [Containers -> Users]
    /\ NamesOf \in [Users -> SUBSET Names]
    /\ Leaving \subseteq Users
    /\ IsFiniteSet(Requests)
    /\ None \notin Users \cup Containers \cup Names
    /\ {MaxNets, MaxFailures} \subseteq Nat
    /\ MaxNetworks \in Nat \ {0}
    /\ LimitsOf \in [Users -> SUBSET (1..MaxNetworks)]
    /\ Operations \subseteq {"create", "connect", "disconnect", "delete", "remove"}

VARIABLES docker,     \* docker[n]: the network in Docker, with its labels
          machine,    \* machine[c]: the container in Docker
          endpoints,  \* <<c, n>>: container c is configured with network n
          networks,   \* networks that have a row
          containers, \* containers that have a row
          members,    \* rows of container_networks, as <<c, n>>
          accounts,   \* users that have a row
          limit,      \* limit[u]: max_networks of the user's plan, 0 without a row
          req,        \* req[r]: where the request is, and its locals
          excused,    \* history: networks left apart from their rows (see Excuse)
          loose,      \* history: connections left unlisted, as <<c, n>>
          faults, crashes

dockerVars == <<docker, machine, endpoints>>
tableVars == <<networks, containers, members, accounts, limit>>
historyVars == <<excused, loose>>
boundVars == <<faults, crashes>>
vars == <<docker, machine, endpoints, networks, containers, members, accounts,
          limit, req, excused, loose, faults, crashes>>

Nets == 1..MaxNets
Pairs == Containers \X Nets
Net == [state : {"unborn", "live", "gone"}, user : Users \cup {None},
        name : Names \cup {None}]
PCs == {"idle", "count", "create", "insert", "undo",
        "lookupConnect", "connect", "insertMember",
        "lookupDisconnect", "disconnect", "deleteMember",
        "inspect", "detach", "deleteNetwork",
        "collect", "deleteContainer", "leave"}
Request == [pc : PCs, user : Users \cup {None}, name : Names \cup {None},
            net : Nets \cup {0}, con : Containers \cup {None}, todo : SUBSET Pairs]

NetworksTypeOK ==
    /\ docker \in [Nets -> Net]
    /\ machine \in [Containers -> {"running", "stopped", "gone"}]
    /\ endpoints \subseteq Pairs
    /\ networks \subseteq Nets
    /\ containers \subseteq Containers
    /\ members \subseteq containers \X networks
    /\ accounts \subseteq Users
    /\ limit \in [Users -> 0..MaxNetworks]
    /\ req \in [Requests -> Request]
    /\ excused \subseteq Nets
    /\ loose \subseteq Pairs
    /\ faults \in Nat /\ crashes \in Nat
    /\ faults + crashes <= MaxFailures

NoRequest == [pc |-> "idle", user |-> None, name |-> None, net |-> 0,
              con |-> None, todo |-> {}]

Init ==
    /\ docker = [n \in Nets |-> [state |-> "unborn", user |-> None, name |-> None]]
    /\ machine \in [Containers -> {"running", "stopped"}]
    /\ endpoints = {} /\ members = {} /\ networks = {}
    /\ excused = {} /\ loose = {}
    /\ containers = Containers
    /\ accounts = Users
    /\ limit \in [Users -> 1..MaxNetworks]
    /\ \A u \in Users : limit[u] \in LimitsOf[u]
    /\ req = [r \in Requests |-> NoRequest]
    /\ faults = 0 /\ crashes = 0

-----------------------------------------------------------------------------
(***************************************************************************)
(* Docker, as this code uses it.                                           *)
(***************************************************************************)
Live(n) == docker[n].state = "live"

\* NetworkInspect lists the endpoints of running containers only, and only
\* these keep NetworkRemove from removing the network.
Active(n) == {e \in endpoints : e[2] = n /\ machine[e[1]] = "running"}

NameTaken(u, name) ==
    \E n \in Nets : Live(n) /\ docker[n].user = u /\ docker[n].name = name

Unborn == {n \in Nets : docker[n].state = "unborn"}

NetworkRemovable(n) == Live(n) /\ Active(n) = {}

\* A running container has at most one endpoint in a network; a container that
\* is stopped is given its configuration again.
Connectable(c, n) ==
    /\ Live(n)
    /\ machine[c] # "gone"
    /\ machine[c] = "running" => <<c, n>> \notin endpoints

Disconnectable(c, n) == Live(n) /\ <<c, n>> \in endpoints

-----------------------------------------------------------------------------
At(r, pc) == req[r].pc = pc
Goto(r, pc) == req' = [req EXCEPT ![r].pc = pc]
Return(r) == req' = [req EXCEPT ![r] = NoRequest]
Failure == faults + crashes < MaxFailures

\* excused holds the networks that the code knowingly leaves in one place only.
\* In Docker without a row: the call that should undo NetworkCreate fails, the
\* server crashes between NetworkCreate and the INSERT, or the rows of a deleted
\* account go. As a row alone: the DELETE after NetworkRemove does not happen.
Excuse(ns) == excused' = excused \cup ns
Apart == {"undo", "deleteNetwork"}

\* loose holds the connections whose row is knowingly missing: the INSERT after
\* NetworkConnect does not happen, or the DELETE of a disconnection takes away
\* the row of a connection made after it.
Pair(r) == <<req[r].con, req[r].net>>
Loosen(ps) == loose' = loose \cup ps

NetworksOf(u) == {n \in networks : docker[n].user = u}

\* Mutant: the last network of the plan is given twice.
HasNetworkRoomOffByOne(u) == Cardinality(NetworksOf(u)) <= limit[u]

HasNetworkRoom(u) == Cardinality(NetworksOf(u)) < limit[u]

-----------------------------------------------------------------------------
(***************************************************************************)
(* CreateNetwork.                                                          *)
(***************************************************************************)
BeginCreate(r, u, name) ==
    /\ At(r, "idle") /\ "create" \in Operations
    /\ req' = [req EXCEPT ![r] = [NoRequest EXCEPT !.pc = "count", !.user = u,
                                                   !.name = name]]
    /\ UNCHANGED <<dockerVars, tableVars, historyVars, boundVars>>

\* The plan's limit and the number of rows.
CountNetworks(r) ==
    /\ At(r, "count")
    /\ IF req[r].user \in accounts /\ HasNetworkRoom(req[r].user)
         THEN Goto(r, "create") ELSE Return(r)
    /\ UNCHANGED <<dockerVars, tableVars, historyVars, boundVars>>

\* The name in Docker is made of the user's id and the name.
NetworkCreate(r) ==
    /\ At(r, "create")
    /\ IF NameTaken(req[r].user, req[r].name)
         THEN Return(r) /\ UNCHANGED docker
         ELSE \E n \in Unborn :
                 /\ \A m \in Unborn : n <= m
                 /\ docker' = [docker EXCEPT ![n] =
                       [state |-> "live", user |-> req[r].user, name |-> req[r].name]]
                 /\ req' = [req EXCEPT ![r].pc = "insert", ![r].net = n]
    /\ UNCHANGED <<machine, endpoints, tableVars, historyVars, boundVars>>

\* Mutant: a failing INSERT leaves the network in Docker.
InsertNetworkOnly(r) ==
    /\ At(r, "insert")
    /\ networks' = IF req[r].user \in accounts THEN networks \cup {req[r].net}
                                               ELSE networks
    /\ Return(r)
    /\ UNCHANGED <<dockerVars, containers, members, accounts, limit, historyVars, boundVars>>

\* UNIQUE (user_id, name) or the foreign key on the user may refuse the row.
InsertNetwork(r) ==
    /\ At(r, "insert")
    /\ IF /\ req[r].user \in accounts
          /\ \A n \in NetworksOf(req[r].user) : docker[n].name # req[r].name
         THEN networks' = networks \cup {req[r].net} /\ Return(r)
         ELSE Goto(r, "undo") /\ UNCHANGED networks
    /\ UNCHANGED <<dockerVars, containers, members, accounts, limit, historyVars, boundVars>>

UndoCreate(r) ==
    /\ At(r, "undo")
    /\ docker' = IF NetworkRemovable(req[r].net)
                   THEN [docker EXCEPT ![req[r].net].state = "gone"] ELSE docker
    /\ Return(r)
    /\ UNCHANGED <<machine, endpoints, tableVars, historyVars, boundVars>>

-----------------------------------------------------------------------------
(***************************************************************************)
(* ConnectContainer and DisconnectContainer.                               *)
(***************************************************************************)
\* The network's lookup: a row of this user, otherwise the request is refused.
LookupNetwork(r, op, pc, u, n, c) ==
    /\ At(r, "idle") /\ op \in Operations
    /\ n \in NetworksOf(u)
    /\ req' = [req EXCEPT ![r] = [NoRequest EXCEPT !.pc = pc, !.user = u,
                                                   !.net = n, !.con = c]]
    /\ UNCHANGED <<dockerVars, tableVars, historyVars, boundVars>>

ConnectContainer(r, u, n, c) ==
    LookupNetwork(r, "connect", "lookupConnect", u, n, c)
DisconnectContainer(r, u, n, c) ==
    LookupNetwork(r, "disconnect", "lookupDisconnect", u, n, c)

\* Mutant: the container is looked up by its id alone.
OwnsAny(u, c) == c \in containers

Owns(u, c) == c \in containers /\ Owner[c] = u

LookupContainer(r) ==
    /\ req[r].pc \in {"lookupConnect", "lookupDisconnect"}
    /\ IF Owns(req[r].user, req[r].con)
         THEN Goto(r, IF At(r, "lookupConnect") THEN "connect" ELSE "disconnect")
         ELSE Return(r)
    /\ UNCHANGED <<dockerVars, tableVars, historyVars, boundVars>>

NetworkConnect(r) ==
    /\ At(r, "connect")
    /\ IF Connectable(req[r].con, req[r].net)
         THEN /\ endpoints' = endpoints \cup {<<req[r].con, req[r].net>>}
              /\ Goto(r, "insertMember")
         ELSE Return(r) /\ UNCHANGED endpoints
    /\ UNCHANGED <<docker, machine, tableVars, historyVars, boundVars>>

\* Mutant: the row is not written for a container that is stopped.
InsertRunningMember(r) ==
    /\ At(r, "insertMember")
    /\ members' = IF /\ req[r].con \in containers /\ req[r].net \in networks
                     /\ machine[req[r].con] = "running"
                    THEN members \cup {Pair(r)} ELSE members
    /\ loose' = loose \ members'
    /\ Return(r)
    /\ UNCHANGED <<dockerVars, networks, containers, accounts, limit, excused, boundVars>>

\* The foreign keys refuse the row if the container or the network has gone.
InsertMember(r) ==
    /\ At(r, "insertMember")
    /\ members' = IF req[r].con \in containers /\ req[r].net \in networks
                    THEN members \cup {Pair(r)} ELSE members
    /\ loose' = loose \ members'
    /\ Return(r)
    /\ UNCHANGED <<dockerVars, networks, containers, accounts, limit, excused, boundVars>>

NetworkDisconnect(r) ==
    /\ At(r, "disconnect")
    /\ IF Disconnectable(req[r].con, req[r].net)
         THEN /\ endpoints' = endpoints \ {<<req[r].con, req[r].net>>}
              /\ Goto(r, "deleteMember")
         ELSE Return(r) /\ UNCHANGED endpoints
    /\ UNCHANGED <<docker, machine, tableVars, historyVars, boundVars>>

DeleteMember(r) ==
    /\ At(r, "deleteMember")
    /\ members' = members \ {Pair(r)}
    /\ Loosen({Pair(r)} \cap endpoints)
    /\ Return(r)
    /\ UNCHANGED <<dockerVars, networks, containers, accounts, limit, excused, boundVars>>

-----------------------------------------------------------------------------
(***************************************************************************)
(* DeleteNetwork.                                                          *)
(***************************************************************************)
DeleteNetwork(r, u, n) == LookupNetwork(r, "delete", "inspect", u, n, None)

Inspect(r) ==
    /\ At(r, "inspect")
    /\ req' = [req EXCEPT ![r].pc = "detach", ![r].todo = Active(req[r].net)]
    /\ UNCHANGED <<dockerVars, tableVars, historyVars, boundVars>>

\* One turn of the loop over the endpoints that were listed; errors are dropped.
Detach(r) ==
    /\ At(r, "detach")
    /\ \E e \in req[r].todo :
          /\ req' = [req EXCEPT ![r].todo = @ \ {e}]
          /\ endpoints' = IF Live(e[2]) THEN endpoints \ {e} ELSE endpoints
    /\ UNCHANGED <<docker, machine, tableVars, historyVars, boundVars>>

NetworkRemove(r) ==
    /\ At(r, "detach") /\ req[r].todo = {}
    /\ IF NetworkRemovable(req[r].net)
         THEN /\ docker' = [docker EXCEPT ![req[r].net].state = "gone"]
              /\ Goto(r, "deleteNetwork")
         ELSE Return(r) /\ UNCHANGED docker
    /\ UNCHANGED <<machine, endpoints, tableVars, historyVars, boundVars>>

\* Mutant: no ON DELETE CASCADE: the members keep the row.
DeleteWithoutCascade(r) ==
    /\ At(r, "deleteNetwork")
    /\ networks' = IF \E m \in members : m[2] = req[r].net
                     THEN networks ELSE networks \ {req[r].net}
    /\ Return(r)
    /\ UNCHANGED <<dockerVars, containers, members, accounts, limit, historyVars, boundVars>>

\* Rows of container_networks go by cascade.
DeleteNetworkRow(r) ==
    /\ At(r, "deleteNetwork")
    /\ networks' = networks \ {req[r].net}
    /\ members' = {m \in members : m[2] # req[r].net}
    /\ Return(r)
    /\ UNCHANGED <<dockerVars, containers, accounts, limit, historyVars, boundVars>>

-----------------------------------------------------------------------------
(***************************************************************************)
(* RemoveContainer: the networks are read through the pool, outside the    *)
(* transaction that then deletes the row.                                  *)
(***************************************************************************)
RemoveContainer(r, c) ==
    /\ At(r, "idle") /\ "remove" \in Operations
    /\ c \in containers
    /\ req' = [req EXCEPT ![r] = [NoRequest EXCEPT !.pc = "collect", !.con = c]]
    /\ UNCHANGED <<dockerVars, tableVars, historyVars, boundVars>>

CollectNetworks(r) ==
    /\ At(r, "collect")
    /\ req' = [req EXCEPT ![r].pc = "deleteContainer",
                          ![r].todo = {m \in members : m[1] = req[r].con}]
    /\ UNCHANGED <<dockerVars, tableVars, historyVars, boundVars>>

\* DELETE without a row returns an error: somebody else removes the container.
DeleteContainerRow(r) ==
    /\ At(r, "deleteContainer")
    /\ IF req[r].con \in containers
         THEN /\ containers' = containers \ {req[r].con}
              /\ members' = {m \in members : m[1] # req[r].con}
              /\ Goto(r, "leave")
         ELSE Return(r) /\ UNCHANGED <<containers, members>>
    /\ UNCHANGED <<dockerVars, networks, accounts, limit, historyVars, boundVars>>

LeaveNetwork(r) ==
    /\ At(r, "leave")
    /\ \E e \in req[r].todo :
          /\ req' = [req EXCEPT ![r].todo = @ \ {e}]
          /\ endpoints' = IF Live(e[2]) THEN endpoints \ {e} ELSE endpoints
    /\ UNCHANGED <<docker, machine, tableVars, historyVars, boundVars>>

\* ContainerStop and ContainerRemove: Docker drops what endpoints are left.
ContainerRemove(r) ==
    /\ At(r, "leave") /\ req[r].todo = {}
    /\ machine' = [machine EXCEPT ![req[r].con] = "gone"]
    /\ endpoints' = {e \in endpoints : e[1] # req[r].con}
    /\ Return(r)
    /\ UNCHANGED <<docker, tableVars, historyVars, boundVars>>

-----------------------------------------------------------------------------
(***************************************************************************)
(* Failures: a call returns an error and has had no effect. Which error    *)
(* ends the request, and which one is dropped, is in AfterError: at        *)
(* "count" the lookup of the plan may fail, which ends the request, or the *)
(* SELECT COUNT, which counts as no network at all.                        *)
(***************************************************************************)
AfterError(r) ==
    CASE At(r, "insert") -> Goto(r, "undo")
      [] At(r, "inspect") -> Goto(r, "detach")
      [] At(r, "collect") -> Goto(r, "deleteContainer")
      [] At(r, "count") -> Goto(r, "create") \/ Return(r)
      [] req[r].pc \in {"detach", "leave"} /\ req[r].todo # {} ->
           \E e \in req[r].todo : req' = [req EXCEPT ![r].todo = @ \ {e}]
      [] OTHER -> Return(r)

CallFails(r) ==
    /\ ~At(r, "idle")
    /\ Failure /\ faults' = faults + 1
    /\ AfterError(r)
    /\ Excuse(IF req[r].pc \in Apart THEN {req[r].net} ELSE {})
    /\ Loosen(IF At(r, "insertMember") THEN {Pair(r)} ELSE {})
    /\ UNCHANGED <<dockerVars, tableVars, crashes>>

ServerCrash ==
    /\ Failure /\ crashes' = crashes + 1
    /\ Excuse({req[r].net : r \in {q \in Requests : req[q].pc \in Apart \cup {"insert"}}})
    /\ Loosen({Pair(r) : r \in {q \in Requests : At(q, "insertMember")}})
    /\ req' = [r \in Requests |-> NoRequest]
    /\ UNCHANGED <<dockerVars, tableVars, faults>>

\* The account's rows go by cascade; Docker is not told.
DeleteUserByID(u) ==
    /\ u \in accounts
    /\ accounts' = accounts \ {u}
    /\ networks' = networks \ NetworksOf(u)
    /\ containers' = {c \in containers : Owner[c] # u}
    /\ members' = {m \in members : Owner[m[1]] # u /\ docker[m[2]].user # u}
    /\ limit' = [limit EXCEPT ![u] = 0]
    /\ Excuse(NetworksOf(u))
    /\ UNCHANGED <<dockerVars, req, loose, boundVars>>

\* The administrator changes the plan; nothing looks at the networks there are.
UpdateUserPlan(u, l) ==
    /\ u \in accounts
    /\ limit' = [limit EXCEPT ![u] = l]
    /\ UNCHANGED <<dockerVars, networks, containers, members, accounts, req,
                   historyVars, boundVars>>

\* StopContainer and StartContainer of the owner, or the container itself. A
\* container is not started while a network it is configured with is missing.
ContainerStops(c) ==
    /\ machine[c] = "running"
    /\ machine' = [machine EXCEPT ![c] = "stopped"]
    /\ UNCHANGED <<docker, endpoints, tableVars, req, historyVars, boundVars>>

ContainerStarts(c) ==
    /\ machine[c] = "stopped"
    /\ \A e \in endpoints : e[1] = c => Live(e[2])
    /\ machine' = [machine EXCEPT ![c] = "running"]
    /\ UNCHANGED <<docker, endpoints, tableVars, req, historyVars, boundVars>>

-----------------------------------------------------------------------------
Next ==
    \/ \E r \in Requests :
          \/ \E u \in Users : \E name \in NamesOf[u] : BeginCreate(r, u, name)
          \/ CountNetworks(r) \/ NetworkCreate(r) \/ InsertNetwork(r) \/ UndoCreate(r)
          \/ \E u \in Users, n \in Nets, c \in Containers :
                ConnectContainer(r, u, n, c) \/ DisconnectContainer(r, u, n, c)
          \/ LookupContainer(r)
          \/ NetworkConnect(r) \/ InsertMember(r)
          \/ NetworkDisconnect(r) \/ DeleteMember(r)
          \/ \E u \in Users, n \in Nets : DeleteNetwork(r, u, n)
          \/ Inspect(r) \/ Detach(r) \/ NetworkRemove(r) \/ DeleteNetworkRow(r)
          \/ \E c \in Containers : RemoveContainer(r, c)
          \/ CollectNetworks(r) \/ DeleteContainerRow(r)
          \/ LeaveNetwork(r) \/ ContainerRemove(r)
          \/ CallFails(r)
    \/ ServerCrash
    \/ \E u \in Leaving : DeleteUserByID(u)
    \/ \E u \in Users : \E l \in LimitsOf[u] : UpdateUserPlan(u, l)
    \/ \E c \in Containers : ContainerStops(c) \/ ContainerStarts(c)

Spec == Init /\ [][Next]_vars

-----------------------------------------------------------------------------
(***************************************************************************)
(* Properties.                                                             *)
(***************************************************************************)
\* What GET /networks shows a user: the networks, with their containers.
ListNetworks(u) == [n \in NetworksOf(u) |-> {m[1] : m \in {k \in members : k[2] = n}}]

\* No container ever joins a network of somebody else, in Docker or in what
\* ListNetworks shows, whatever is removed between the lookups and their use.
Isolation ==
    /\ \A e \in endpoints : Owner[e[1]] = docker[e[2]].user
    /\ \A u \in Users : \A n \in DOMAIN ListNetworks(u) :
          \A c \in ListNetworks(u)[n] : Owner[c] = u

\* A network in Docker has a row, or a create that will give it one or remove
\* it, or is one of those that are knowingly left behind: no order of requests
\* with the same name loses one.
NoUnrecordedNetwork ==
    \A n \in Nets : Live(n) =>
       \/ n \in networks \cup excused
       \/ \E r \in Requests : req[r].pc \in {"insert", "undo"} /\ req[r].net = n

\* A row stands for a network that is in Docker, except while the DeleteNetwork
\* that has removed it is about to delete the row, or once that DELETE failed.
RowHasNetwork ==
    \A n \in networks : \/ Live(n) \/ n \in excused
                        \/ \E r \in Requests : At(r, "deleteNetwork") /\ req[r].net = n

Creating(u) == {r \in Requests : /\ req[r].pc \in {"create", "insert"}
                                 /\ req[r].user = u}

\* max_networks is checked before the network is created and not by the INSERT:
\* requests that passed the check together overshoot it, by no more than their
\* number less one, and by one more for each count that fails and is taken for 0.
\* A change to a smaller plan takes no network away, so the bound is that of the
\* largest plan, whatever plans the user has had.
NetworkOvershoot ==
    \A u \in Users :
       Cardinality(NetworksOf(u)) + Cardinality(Creating(u))
          <= MaxNetworks - 1 + Cardinality(Requests) + faults

\* A connection in Docker between a container and a network that both have rows
\* is listed in container_networks, or a Connect is about to list it, or it is
\* one of those whose row is knowingly missing; also while networks, containers
\* and accounts are deleted and containers stop and start. The converse fails
\* even for one request at a time: DeleteNetwork has disconnected some containers
\* when a container that starts makes NetworkRemove fail.
ConnectedIsListed ==
    \A e \in endpoints :
       e[1] \in containers /\ e[2] \in networks =>
          \/ e \in members \cup loose
          \/ \E r \in Requests : At(r, "insertMember") /\ Pair(r) = e
=============================================================================
