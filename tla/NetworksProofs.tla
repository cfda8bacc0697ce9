--------------------------- MODULE NetworksProofs ---------------------------
(***************************************************************************)
(* Proofs about Networks, for any number of users, containers, networks    *)
(* and requests and any number of failures: the types, the foreign keys of *)
(* container_networks among them, and the isolation of the users; that     *)
(* Docker and the tables hold the same networks and connections, but for   *)
(* those that the code knowingly leaves apart; the limit of the plan.      *)
(***************************************************************************)
EXTENDS Networks, FiniteSetTheorems, TLAPS

Born(n) == docker[n].state # "unborn"

WithNet == {"insert", "undo", "lookupConnect", "connect", "insertMember",
            "lookupDisconnect", "disconnect", "deleteMember",
            "inspect", "detach", "deleteNetwork"}
Connecting == {"lookupConnect", "connect", "insertMember"}
Checked == {"connect", "insertMember"}

\* What a request still knows of its lookups: the network was created, and for
\* a Connect it is the user's and so is, after the second lookup, the container.
\* Deletions do not matter: labels and ids outlive the rows.
Knows(q) ==
    /\ q.pc \in WithNet => q.net \in Nets /\ Born(q.net)
    /\ q.pc \in Connecting => q.con \in Containers /\ docker[q.net].user = q.user
    /\ q.pc \in Checked => Owner[q.con] = q.user

\* A network and a container of the same user.
Own(e) == Born(e[2]) /\ docker[e[2]].user = Owner[e[1]]

RowsInv == \A n \in networks : Born(n)
OwnInv == \A e \in endpoints \cup members : Own(e)
KnowsInv == \A r \in Requests : Knows(req[r])

IInv == NetworksTypeOK /\ RowsInv /\ OwnInv /\ KnowsInv

TablesOK == /\ networks \subseteq Nets /\ containers \subseteq Containers
            /\ members \subseteq containers \X networks /\ accounts \subseteq Users
            /\ limit \in [Users -> 0..MaxNetworks]
DockerOK == /\ docker \in [Nets -> Net]
            /\ machine \in [Containers -> {"running", "stopped", "gone"}]
            /\ endpoints \subseteq Pairs
ReqOK == req \in [Requests -> Request]
HistoryOK == excused \subseteq Nets /\ loose \subseteq Pairs
BoundsOK == faults \in Nat /\ crashes \in Nat /\ faults + crashes <= MaxFailures

\* The type invariant in parts.
LEMMA Parts ==
    NetworksTypeOK <=> TablesOK /\ DockerOK /\ ReqOK /\ HistoryOK /\ BoundsOK
BY DEF NetworksTypeOK, TablesOK, DockerOK, ReqOK, HistoryOK, BoundsOK

\* The idle request is well formed and knows nothing.
LEMMA Idle == NoRequest \in Request /\ Knows(NoRequest)
BY NetworksAssumption DEF NoRequest, Request, PCs, Knows, WithNet, Connecting, Checked

\* Docker never takes back that a network was created, nor changes its label.
Grows == \A n \in Nets : Born(n) => Born(n)' /\ docker'[n].user = docker[n].user

\* A step keeps the invariant if what it adds satisfies it.
LEMMA Frame ==
    ASSUME IInv, Grows, TablesOK', DockerOK', ReqOK', HistoryOK', BoundsOK',
           \A n \in networks' \ networks : Born(n)',
           \A e \in (endpoints' \cup members') \ (endpoints \cup members) : Own(e)',
           \A r \in Requests : req'[r] # req[r] => Knows(req[r])'
    PROVE  IInv'
<1>1. NetworksTypeOK'
  BY DEF NetworksTypeOK, TablesOK, DockerOK, ReqOK, HistoryOK, BoundsOK
<1>2. networks \subseteq Nets /\ \A e \in endpoints \cup members : e[2] \in Nets
  BY DEF IInv, NetworksTypeOK, Pairs
<1>3. RowsInv'
  BY <1>2 DEF IInv, RowsInv, Grows
<1>4. OwnInv'
  BY <1>2 DEF IInv, OwnInv, Grows, Own
<1>5. ASSUME NEW r \in Requests PROVE Knows(req[r])'
  <2>1. CASE req'[r] = req[r]
    <3>1. Knows(req[r])
      BY DEF IInv, KnowsInv
    <3>2. PICK q : q = req[r]
      OBVIOUS
    <3>3. Knows(q)
      BY <3>1, <3>2
    <3>4. q.pc \in WithNet => q.net \in Nets /\ Born(q.net)'
      BY <3>3 DEF Knows, Grows
    <3>5. q.pc \in Connecting => q.con \in Containers /\ docker'[q.net].user = q.user
      BY <3>3 DEF Knows, Grows, Connecting, WithNet
    <3>6. q.pc \in Checked => Owner[q.con] = q.user
      BY <3>3 DEF Knows
    <3>7. req'[r] = q
      BY <2>1, <3>2
    <3>8. QED
      BY <3>4, <3>5, <3>6, <3>7 DEF Knows, Born
  <2>2. QED
    BY <2>1
<1>6. QED
  BY <1>1, <1>3, <1>4, <1>5 DEF IInv, KnowsInv

\* A step of one request that leaves Docker's networks, the history and the
\* bounds alone.
LEMMA RequestStep ==
    ASSUME IInv, NEW r \in Requests, NEW q \in Request, Knows(q),
           req' = [req EXCEPT ![r] = q],
           UNCHANGED <<docker, historyVars, boundVars>>,
           TablesOK', DockerOK',
           \A n \in networks' \ networks : Born(n),
           \A e \in (endpoints' \cup members') \ (endpoints \cup members) : Own(e)
    PROVE  IInv'
<1>1. Grows
  BY DEF Grows, Born
<1>2. HistoryOK' /\ BoundsOK'
  BY DEF IInv, NetworksTypeOK, HistoryOK, BoundsOK, historyVars, boundVars
<1>3. ReqOK'
  BY DEF IInv, NetworksTypeOK, ReqOK
<1>4. ASSUME NEW s \in Requests, req'[s] # req[s] PROVE Knows(req[s])'
  <2>1. req'[s] = q
    BY <1>4 DEF IInv, NetworksTypeOK
  <2>2. QED
    BY <2>1 DEF Knows, Born
<1>5. /\ \A n \in networks' \ networks : Born(n)'
      /\ \A e \in (endpoints' \cup members') \ (endpoints \cup members) : Own(e)'
  BY DEF Born, Own
<1>6. QED
  BY <1>1, <1>2, <1>3, <1>4, <1>5, Frame

\* A step of one request that changes nothing else.
LEMMA QuietStep ==
    ASSUME IInv, NEW r \in Requests, NEW q \in Request, Knows(q),
           req' = [req EXCEPT ![r] = q],
           UNCHANGED <<dockerVars, tableVars, historyVars, boundVars>>
    PROVE  IInv'
<1>1. TablesOK' /\ DockerOK'
  BY DEF IInv, NetworksTypeOK, TablesOK, DockerOK, dockerVars, tableVars
<1>2. networks' = networks /\ endpoints' = endpoints /\ members' = members
  BY DEF dockerVars, tableVars
<1>3. UNCHANGED <<docker, historyVars, boundVars>>
  BY DEF dockerVars
<1>4. QED
  BY <1>1, <1>2, <1>3, RequestStep

\* The request that an action works on.
LEMMA TheRequest ==
    ASSUME IInv, NEW r \in Requests
    PROVE  /\ req \in [Requests -> Request] /\ req[r] \in Request /\ Knows(req[r])
           /\ networks \subseteq Nets /\ containers \subseteq Containers
           /\ members \subseteq Pairs /\ endpoints \subseteq Pairs
BY DEF IInv, NetworksTypeOK, KnowsInv, Pairs

\* Return: the request becomes idle.
LEMMA ReturnStep ==
    ASSUME NEW r, Return(r)
    PROVE  req' = [req EXCEPT ![r] = NoRequest]
BY DEF Return

\* Goto: the request keeps its locals.
LEMMA GotoStep ==
    ASSUME NEW r \in Requests, NEW pc \in PCs, IInv, Goto(r, pc),
           pc \in WithNet => req[r].pc \in WithNet,
           pc \in Connecting => req[r].pc \in Connecting,
           pc \in Checked => req[r].pc \in Checked \/ Owner[req[r].con] = req[r].user
    PROVE  \E q \in Request : Knows(q) /\ req' = [req EXCEPT ![r] = q]
<1> PICK q : q = [req[r] EXCEPT !.pc = pc]
  OBVIOUS
<1>1. req' = [req EXCEPT ![r] = q]
  BY TheRequest DEF Goto
<1>2. q \in Request
  BY TheRequest DEF Request
<1>3. q.pc = pc /\ q.net = req[r].net /\ q.con = req[r].con /\ q.user = req[r].user
  BY TheRequest DEF Request
<1>4. Knows(req[r])
  BY TheRequest
<1>5. Knows(q)
  BY <1>3, <1>4 DEF Knows
<1>6. QED
  BY <1>1, <1>2, <1>5

-----------------------------------------------------------------------------
\* The initial states.
LEMMA InitIInv == Init => IInv
<1> SUFFICES ASSUME Init PROVE IInv
  OBVIOUS
<1>1. NetworksTypeOK
  <2>1. TablesOK /\ DockerOK /\ HistoryOK
    BY DEF Init, TablesOK, DockerOK, HistoryOK, Net
  <2>2. ReqOK
    BY Idle DEF Init, ReqOK
  <2>3. BoundsOK
    BY NetworksAssumption DEF Init, BoundsOK
  <2>4. QED
    BY <2>1, <2>2, <2>3, Parts
<1>2. RowsInv /\ OwnInv
  BY DEF Init, RowsInv, OwnInv
<1>3. KnowsInv
  BY Idle DEF Init, KnowsInv
<1>4. QED
  BY <1>1, <1>2, <1>3 DEF IInv

-----------------------------------------------------------------------------
\* CreateNetwork.
LEMMA BeginCreateIInv ==
    ASSUME IInv, NEW r \in Requests, NEW u \in Users, NEW name \in NamesOf[u],
           BeginCreate(r, u, name)
    PROVE  IInv'
<1> PICK q : q = [NoRequest EXCEPT !.pc = "count", !.user = u, !.name = name]
  OBVIOUS
<1>1. q \in Request /\ q.pc = "count"
  BY Idle, NetworksAssumption DEF Request, NoRequest, PCs
<1>2. req' = [req EXCEPT ![r] = q]
      /\ UNCHANGED <<dockerVars, tableVars, historyVars, boundVars>>
  BY DEF BeginCreate
<1>3. Knows(q)
  BY <1>1 DEF Knows, WithNet, Connecting, Checked
<1>4. QED
  BY <1>1, <1>2, <1>3, QuietStep

\* The check of the plan's limit.
LEMMA CountNetworksIInv ==
    ASSUME IInv, NEW r \in Requests, CountNetworks(r)
    PROVE  IInv'
<1>1. UNCHANGED <<dockerVars, tableVars, historyVars, boundVars>>
  BY DEF CountNetworks
<1>2. CASE Goto(r, "create")
  <2>1. PICK q \in Request : Knows(q) /\ req' = [req EXCEPT ![r] = q]
    BY <1>2, GotoStep DEF PCs, WithNet, Connecting, Checked
  <2>2. QED
    BY <1>1, <2>1, QuietStep
<1>3. CASE Return(r)
  BY <1>1, <1>3, Idle, ReturnStep, QuietStep
<1>4. QED
  BY <1>2, <1>3 DEF CountNetworks

\* A network that Docker creates is one that nothing refers to yet.
LEMMA NetworkCreateIInv ==
    ASSUME IInv, NEW r \in Requests, NetworkCreate(r)
    PROVE  IInv'
<1>1. UNCHANGED <<machine, endpoints, tableVars, historyVars, boundVars>>
  BY DEF NetworkCreate
<1>2. CASE Return(r) /\ UNCHANGED docker
  BY <1>1, <1>2, Idle, ReturnStep, QuietStep DEF dockerVars
<1>3. ASSUME NEW n \in Unborn,
             docker' = [docker EXCEPT ![n] =
                [state |-> "live", user |-> req[r].user, name |-> req[r].name]],
             req' = [req EXCEPT ![r].pc = "insert", ![r].net = n]
      PROVE  IInv'
  <2>1. n \in Nets /\ docker[n].state = "unborn" /\ docker \in [Nets -> Net]
    BY DEF Unborn, IInv, NetworksTypeOK
  <2>2. req \in [Requests -> Request] /\ req[r] \in Request
    BY TheRequest
  <2>3. PICK d : d = [state |-> "live", user |-> req[r].user, name |-> req[r].name]
    OBVIOUS
  <2>4. d \in Net /\ d.state = "live"
    BY <2>2, <2>3 DEF Net, Request
  <2>5. docker' = [docker EXCEPT ![n] = d]
    BY <1>3, <2>3
  <2>6. docker' \in [Nets -> Net]
    BY <2>1, <2>4, <2>5
  <2>7. Grows
    BY <2>1, <2>4, <2>5 DEF Grows, Born
  <2>8. PICK q : q = [req[r] EXCEPT !.pc = "insert", !.net = n]
    OBVIOUS
  <2>9. q \in Request /\ q.pc = "insert" /\ q.net = n
    BY <2>1, <2>2, <2>8 DEF Request, PCs
  <2>10. req' = [req EXCEPT ![r] = q]
    BY <1>3, <2>2, <2>8
  <2>11. ReqOK'
    BY <2>2, <2>9, <2>10 DEF ReqOK
  <2>12. ASSUME NEW s \in Requests, req'[s] # req[s] PROVE Knows(req[s])'
    <3>1. req'[s] = q
      BY <2>2, <2>10, <2>12
    <3>2. docker'[n].state = "live"
      BY <2>1, <2>4, <2>5
    <3>3. QED
      BY <2>1, <2>9, <3>1, <3>2 DEF Knows, Born, Connecting, Checked
  <2>13. TablesOK' /\ HistoryOK' /\ BoundsOK'
    BY <1>1 DEF IInv, NetworksTypeOK, TablesOK, HistoryOK, BoundsOK, tableVars,
                historyVars, boundVars
  <2>14. DockerOK'
    BY <1>1, <2>6 DEF IInv, NetworksTypeOK, DockerOK
  <2>15. networks' = networks /\ endpoints' = endpoints /\ members' = members
    BY <1>1 DEF tableVars
  <2>16. QED
    BY <2>7, <2>11, <2>12, <2>13, <2>14, <2>15, Frame
<1>4. QED
  BY <1>2, <1>3 DEF NetworkCreate

\* A step of one request that removes a network from Docker, or does not.
LEMMA RemovalStep ==
    ASSUME IInv, NEW r \in Requests, NEW q \in Request, Knows(q), NEW n,
           req' = [req EXCEPT ![r] = q],
           docker' = docker \/ (Live(n) /\ docker' = [docker EXCEPT ![n].state = "gone"]),
           UNCHANGED <<machine, endpoints, tableVars, historyVars, boundVars>>
    PROVE  IInv'
<1>1. docker \in [Nets -> Net] /\ req \in [Requests -> Request]
  BY DEF IInv, NetworksTypeOK
<1>2. docker' \in [Nets -> Net]
  BY <1>1 DEF Net
<1>3. Grows
  BY <1>1 DEF Grows, Born, Net
<1>4. ReqOK'
  BY <1>1 DEF ReqOK
<1>5. ASSUME NEW s \in Requests, req'[s] # req[s] PROVE Knows(req[s])'
  <2>1. req'[s] = q
    BY <1>1, <1>5
  <2>2. /\ q.pc \in WithNet => q.net \in Nets /\ Born(q.net)'
        /\ q.pc \in Connecting => q.con \in Containers /\ docker'[q.net].user = q.user
        /\ q.pc \in Checked => Owner[q.con] = q.user
    BY <1>3 DEF Knows, Grows, WithNet, Connecting, Checked
  <2>3. QED
    BY <2>1, <2>2 DEF Knows, Born
<1>6. TablesOK' /\ HistoryOK' /\ BoundsOK'
  BY DEF IInv, NetworksTypeOK, TablesOK, HistoryOK, BoundsOK, tableVars,
         historyVars, boundVars
<1>7. DockerOK'
  BY <1>2 DEF IInv, NetworksTypeOK, DockerOK
<1>8. networks' = networks /\ endpoints' = endpoints /\ members' = members
  BY DEF tableVars
<1>9. QED
  BY <1>3, <1>4, <1>5, <1>6, <1>7, <1>8, Frame

\* The network whose INSERT was refused is removed.
LEMMA UndoCreateIInv ==
    ASSUME IInv, NEW r \in Requests, UndoCreate(r)
    PROVE  IInv'
<1>1. req' = [req EXCEPT ![r] = NoRequest]
  BY DEF UndoCreate, Return
<1>2. PICK n : n = req[r].net
  OBVIOUS
<1>3. docker' = docker \/ (Live(n) /\ docker' = [docker EXCEPT ![n].state = "gone"])
  BY <1>2 DEF UndoCreate, NetworkRemovable
<1>4. UNCHANGED <<machine, endpoints, tableVars, historyVars, boundVars>>
  BY DEF UndoCreate
<1>5. QED
  BY <1>1, <1>3, <1>4, Idle, RemovalStep

\* DeleteNetwork removes the network from Docker.
LEMMA NetworkRemoveIInv ==
    ASSUME IInv, NEW r \in Requests, NetworkRemove(r)
    PROVE  IInv'
<1>1. UNCHANGED <<machine, endpoints, tableVars, historyVars, boundVars>>
  BY DEF NetworkRemove
<1>2. PICK n : n = req[r].net
  OBVIOUS
<1>3. docker' = docker \/ (Live(n) /\ docker' = [docker EXCEPT ![n].state = "gone"])
  BY <1>2 DEF NetworkRemove, NetworkRemovable
<1>4. CASE Goto(r, "deleteNetwork")
  <2>1. req[r].pc = "detach"
    BY DEF NetworkRemove, At
  <2>2. PICK q \in Request : Knows(q) /\ req' = [req EXCEPT ![r] = q]
    BY <1>4, <2>1, GotoStep DEF PCs, WithNet, Connecting, Checked
  <2>3. QED
    BY <1>1, <1>3, <2>2, RemovalStep
<1>5. CASE Return(r)
  BY <1>1, <1>3, <1>5, Idle, ReturnStep, RemovalStep
<1>6. QED
  BY <1>4, <1>5 DEF NetworkRemove

\* The row of a network is that of one that was created.
LEMMA InsertNetworkIInv ==
    ASSUME IInv, NEW r \in Requests, InsertNetwork(r)
    PROVE  IInv'
<1>1. /\ UNCHANGED <<docker, historyVars, boundVars>>
      /\ UNCHANGED <<machine, endpoints, containers, members, accounts, limit>>
  BY DEF InsertNetwork, dockerVars
<1>2. req[r].pc = "insert" /\ req[r].net \in Nets /\ Born(req[r].net)
  BY TheRequest DEF InsertNetwork, At, Knows, WithNet
<1>3. DockerOK'
  BY <1>1 DEF IInv, NetworksTypeOK, DockerOK
<1>4. CASE networks' = networks \cup {req[r].net} /\ Return(r)
  <2>1. TablesOK'
    BY <1>1, <1>2, <1>4 DEF IInv, NetworksTypeOK, TablesOK
  <2>2. \A n \in networks' \ networks : Born(n)
    BY <1>2, <1>4
  <2>3. QED
    BY <1>1, <1>3, <1>4, <2>1, <2>2, Idle, ReturnStep, RequestStep
<1>5. CASE Goto(r, "undo") /\ UNCHANGED networks
  <2>1. PICK q \in Request : Knows(q) /\ req' = [req EXCEPT ![r] = q]
    BY <1>2, <1>5, GotoStep DEF PCs, WithNet, Connecting, Checked
  <2>2. TablesOK'
    BY <1>1, <1>5 DEF IInv, NetworksTypeOK, TablesOK
  <2>3. QED
    BY <1>1, <1>3, <1>5, <2>1, <2>2, RequestStep
<1>6. QED
  BY <1>4, <1>5 DEF InsertNetwork

-----------------------------------------------------------------------------
\* The lookup of a network finds a row of the user: the label says the same.
LEMMA LookupNetworkIInv ==
    ASSUME IInv, NEW r \in Requests, NEW op, NEW u \in Users, NEW n \in Nets,
           NEW c \in Containers \cup {None},
           NEW pc \in {"lookupConnect", "lookupDisconnect", "inspect"},
           pc = "lookupConnect" => c \in Containers,
           LookupNetwork(r, op, pc, u, n, c)
    PROVE  IInv'
<1> PICK q : q = [NoRequest EXCEPT !.pc = pc, !.user = u, !.net = n, !.con = c]
  OBVIOUS
<1>1. q \in Request /\ q.pc = pc /\ q.net = n /\ q.con = c /\ q.user = u
  BY Idle DEF Request, NoRequest, PCs
<1>2. req' = [req EXCEPT ![r] = q]
      /\ UNCHANGED <<dockerVars, tableVars, historyVars, boundVars>>
  BY DEF LookupNetwork
<1>3. n \in networks /\ docker[n].user = u /\ Born(n)
  BY DEF LookupNetwork, NetworksOf, IInv, RowsInv
<1>4. Knows(q)
  BY <1>1, <1>3 DEF Knows, WithNet, Connecting, Checked
<1>5. QED
  BY <1>1, <1>2, <1>4, QuietStep

\* After the second lookup of a Connect the container is the user's.
LEMMA LookupContainerIInv ==
    ASSUME IInv, NEW r \in Requests, LookupContainer(r)
    PROVE  IInv'
<1>1. UNCHANGED <<dockerVars, tableVars, historyVars, boundVars>>
  BY DEF LookupContainer
<1>2. CASE Return(r)
  BY <1>1, <1>2, Idle, ReturnStep, QuietStep
<1>3. CASE ~Return(r)
  <2>1. Owner[req[r].con] = req[r].user
    BY <1>3 DEF LookupContainer, Owns
  <2>2. CASE req[r].pc = "lookupConnect"
    <3>1. Goto(r, "connect")
      BY <1>3, <2>2 DEF LookupContainer, At
    <3>2. PICK q \in Request : Knows(q) /\ req' = [req EXCEPT ![r] = q]
      BY <2>1, <2>2, <3>1, GotoStep DEF PCs, WithNet, Connecting, Checked
    <3>3. QED
      BY <1>1, <3>2, QuietStep
  <2>3. CASE req[r].pc = "lookupDisconnect"
    <3>1. Goto(r, "disconnect")
      BY <1>3, <2>3 DEF LookupContainer, At
    <3>2. PICK q \in Request : Knows(q) /\ req' = [req EXCEPT ![r] = q]
      BY <2>3, <3>1, GotoStep DEF PCs, WithNet, Connecting, Checked
    <3>3. QED
      BY <1>1, <3>2, QuietStep
  <2>4. QED
    BY <2>2, <2>3 DEF LookupContainer
<1>4. QED
  BY <1>2, <1>3

\* The connection that a Connect has checked joins what belongs to one user.
LEMMA CheckedIsOwn ==
    ASSUME IInv, NEW r \in Requests, req[r].pc \in Checked
    PROVE  Pair(r) \in Pairs /\ Own(Pair(r))
<1>1. /\ req[r].net \in Nets /\ Born(req[r].net)
      /\ req[r].con \in Containers /\ docker[req[r].net].user = req[r].user
      /\ Owner[req[r].con] = req[r].user
  BY TheRequest DEF Knows, WithNet, Connecting, Checked
<1>2. QED
  BY <1>1 DEF Own, Pair, Pairs

\* A step of one request that changes endpoints and machines only.
LEMMA EndpointStep ==
    ASSUME IInv, NEW r \in Requests, NEW q \in Request, Knows(q),
           req' = [req EXCEPT ![r] = q],
           UNCHANGED <<docker, tableVars, historyVars, boundVars>>,
           machine' \in [Containers -> {"running", "stopped", "gone"}],
           endpoints' \subseteq Pairs,
           \A e \in endpoints' \ endpoints : Own(e)
    PROVE  IInv'
<1>1. TablesOK'
  BY DEF IInv, NetworksTypeOK, TablesOK, tableVars
<1>2. DockerOK'
  BY DEF IInv, NetworksTypeOK, DockerOK
<1>3. networks' = networks /\ members' = members
  BY DEF tableVars
<1>4. QED
  BY <1>1, <1>2, <1>3, RequestStep

\* NetworkConnect joins what was checked, although rows may have gone since.
LEMMA NetworkConnectIInv ==
    ASSUME IInv, NEW r \in Requests, NetworkConnect(r)
    PROVE  IInv'
<1>1. UNCHANGED <<docker, machine, tableVars, historyVars, boundVars>>
  BY DEF NetworkConnect
<1>2. machine \in [Containers -> {"running", "stopped", "gone"}] /\ endpoints \subseteq Pairs
  BY DEF IInv, NetworksTypeOK
<1>3. req[r].pc = "connect" /\ Pair(r) \in Pairs /\ Own(Pair(r))
  BY CheckedIsOwn DEF NetworkConnect, At, Checked
<1>4. CASE endpoints' = endpoints \cup {Pair(r)} /\ Goto(r, "insertMember")
  <2>1. PICK q \in Request : Knows(q) /\ req' = [req EXCEPT ![r] = q]
    BY <1>3, <1>4, GotoStep DEF PCs, WithNet, Connecting, Checked
  <2>2. QED
    BY <1>1, <1>2, <1>3, <1>4, <2>1, EndpointStep
<1>5. CASE Return(r) /\ UNCHANGED endpoints
  BY <1>1, <1>2, <1>5, Idle, ReturnStep, EndpointStep
<1>6. QED
  BY <1>4, <1>5 DEF NetworkConnect, Pair

\* NetworkDisconnect only takes away.
LEMMA NetworkDisconnectIInv ==
    ASSUME IInv, NEW r \in Requests, NetworkDisconnect(r)
    PROVE  IInv'
<1>1. /\ UNCHANGED <<docker, machine, tableVars, historyVars, boundVars>>
      /\ endpoints' \subseteq endpoints
  BY DEF NetworkDisconnect
<1>2. machine \in [Containers -> {"running", "stopped", "gone"}] /\ endpoints \subseteq Pairs
  BY DEF IInv, NetworksTypeOK
<1>3. CASE Goto(r, "deleteMember")
  <2>1. req[r].pc = "disconnect"
    BY DEF NetworkDisconnect, At
  <2>2. PICK q \in Request : Knows(q) /\ req' = [req EXCEPT ![r] = q]
    BY <1>3, <2>1, GotoStep DEF PCs, WithNet, Connecting, Checked
  <2>3. QED
    BY <1>1, <1>2, <2>2, EndpointStep
<1>4. CASE Return(r)
  BY <1>1, <1>2, <1>4, Idle, ReturnStep, EndpointStep
<1>5. QED
  BY <1>3, <1>4 DEF NetworkDisconnect

\* One turn of a loop: the request keeps everything but its list.
LEMMA LoopStep ==
    ASSUME IInv, NEW r \in Requests, NEW e,
           req' = [req EXCEPT ![r].todo = @ \ {e}]
    PROVE  \E q \in Request : Knows(q) /\ req' = [req EXCEPT ![r] = q]
<1>1. PICK q : q = [req[r] EXCEPT !.todo = @ \ {e}]
  OBVIOUS
<1>2. req \in [Requests -> Request] /\ req[r] \in Request /\ Knows(req[r])
  BY TheRequest
<1>3. req' = [req EXCEPT ![r] = q]
  BY <1>1, <1>2
<1>4. /\ q \in Request
      /\ q.pc = req[r].pc /\ q.net = req[r].net /\ q.con = req[r].con
      /\ q.user = req[r].user
  BY <1>1, <1>2 DEF Request
<1>5. Knows(q)
  BY <1>2, <1>4 DEF Knows
<1>6. QED
  BY <1>3, <1>4, <1>5

\* The loops of DeleteNetwork and RemoveContainer only take away.
LEMMA LoopIInv ==
    ASSUME IInv, NEW r \in Requests, Detach(r) \/ LeaveNetwork(r)
    PROVE  IInv'
<1>1. /\ UNCHANGED <<docker, machine, tableVars, historyVars, boundVars>>
      /\ endpoints' \subseteq endpoints
  BY DEF Detach, LeaveNetwork
<1>2. machine \in [Containers -> {"running", "stopped", "gone"}] /\ endpoints \subseteq Pairs
  BY DEF IInv, NetworksTypeOK
<1>3. PICK e : req' = [req EXCEPT ![r].todo = @ \ {e}]
  BY DEF Detach, LeaveNetwork
<1>4. PICK q \in Request : Knows(q) /\ req' = [req EXCEPT ![r] = q]
  BY <1>3, LoopStep
<1>5. QED
  BY <1>1, <1>2, <1>4, EndpointStep

\* Docker drops the endpoints of a container that it removes.
LEMMA ContainerRemoveIInv ==
    ASSUME IInv, NEW r \in Requests, ContainerRemove(r)
    PROVE  IInv'
<1>1. UNCHANGED <<docker, tableVars, historyVars, boundVars>>
  BY DEF ContainerRemove
<1>2. machine' \in [Containers -> {"running", "stopped", "gone"}]
  BY DEF ContainerRemove, IInv, NetworksTypeOK
<1>3. endpoints' \subseteq endpoints /\ endpoints \subseteq Pairs
  BY DEF ContainerRemove, IInv, NetworksTypeOK
<1>4. req' = [req EXCEPT ![r] = NoRequest]
  BY DEF ContainerRemove, Return
<1>5. QED
  BY <1>1, <1>2, <1>3, <1>4, Idle, EndpointStep

-----------------------------------------------------------------------------
\* A step of one request that adds no row of a network, and leaves Docker and
\* the bounds alone.
LEMMA TableStep ==
    ASSUME IInv, NEW r \in Requests, NEW q \in Request, Knows(q),
           req' = [req EXCEPT ![r] = q],
           UNCHANGED <<dockerVars, boundVars>>, TablesOK', HistoryOK',
           networks' \subseteq networks, \A m \in members' \ members : Own(m)
    PROVE  IInv'
<1>1. docker' = docker /\ endpoints' = endpoints
  BY DEF dockerVars
<1>2. Grows
  BY <1>1 DEF Grows, Born
<1>3. DockerOK' /\ BoundsOK'
  BY DEF IInv, NetworksTypeOK, DockerOK, BoundsOK, dockerVars, boundVars
<1>4. ReqOK'
  BY DEF IInv, NetworksTypeOK, ReqOK
<1>5. ASSUME NEW s \in Requests, req'[s] # req[s] PROVE Knows(req[s])'
  <2>1. req'[s] = q
    BY <1>5 DEF IInv, NetworksTypeOK
  <2>2. QED
    BY <1>1, <2>1 DEF Knows, Born
<1>6. \A e \in (endpoints' \cup members') \ (endpoints \cup members) : Own(e)'
  BY <1>1 DEF Born, Own
<1>7. QED
  BY <1>2, <1>3, <1>4, <1>5, <1>6, Frame

\* The foreign keys hold, and the new member was checked.
LEMMA InsertMemberIInv ==
    ASSUME IInv, NEW r \in Requests, InsertMember(r)
    PROVE  IInv'
<1>1. /\ UNCHANGED <<dockerVars, boundVars>>
      /\ UNCHANGED <<networks, containers, accounts, limit, excused>>
      /\ req' = [req EXCEPT ![r] = NoRequest]
  BY DEF InsertMember, Return
<1>2. Own(Pair(r))
  BY CheckedIsOwn DEF InsertMember, At, Checked
<1>3. /\ members' = members \/ members' = members \cup {Pair(r)}
      /\ members \subseteq containers \X networks
      /\ members' \subseteq containers \X networks
  BY DEF InsertMember, Pair, IInv, NetworksTypeOK
<1>4. TablesOK'
  BY <1>1, <1>3 DEF IInv, NetworksTypeOK, TablesOK
<1>5. HistoryOK'
  BY <1>1 DEF InsertMember, IInv, NetworksTypeOK, HistoryOK
<1>6. QED
  BY <1>1, <1>2, <1>3, <1>4, <1>5, Idle, TableStep

\* The DELETE of DisconnectContainer.
LEMMA DeleteMemberIInv ==
    ASSUME IInv, NEW r \in Requests, DeleteMember(r)
    PROVE  IInv'
<1>1. /\ UNCHANGED <<dockerVars, boundVars>>
      /\ UNCHANGED <<networks, containers, accounts, limit, excused>>
      /\ req' = [req EXCEPT ![r] = NoRequest]
      /\ members' \subseteq members
  BY DEF DeleteMember, Return
<1>2. TablesOK'
  BY <1>1 DEF IInv, NetworksTypeOK, TablesOK
<1>3. HistoryOK'
  BY <1>1 DEF DeleteMember, Loosen, IInv, NetworksTypeOK, HistoryOK
<1>4. QED
  BY <1>1, <1>2, <1>3, Idle, TableStep

\* The members of a network go with its row.
LEMMA DeleteNetworkRowIInv ==
    ASSUME IInv, NEW r \in Requests, DeleteNetworkRow(r)
    PROVE  IInv'
<1>1. /\ UNCHANGED <<dockerVars, boundVars>>
      /\ UNCHANGED <<containers, accounts, limit, historyVars>>
      /\ req' = [req EXCEPT ![r] = NoRequest]
      /\ networks' = networks \ {req[r].net}
      /\ members' = {m \in members : m[2] # req[r].net}
  BY DEF DeleteNetworkRow, Return
<1>2. members' \subseteq containers \X networks'
  BY <1>1 DEF IInv, NetworksTypeOK
<1>3. TablesOK'
  BY <1>1, <1>2 DEF IInv, NetworksTypeOK, TablesOK
<1>4. HistoryOK'
  BY <1>1 DEF IInv, NetworksTypeOK, HistoryOK, historyVars
<1>5. QED
  BY <1>1, <1>3, <1>4, Idle, TableStep

\* DeleteNetwork lists the endpoints.
LEMMA InspectIInv ==
    ASSUME IInv, NEW r \in Requests, Inspect(r)
    PROVE  IInv'
<1>1. PICK q : q = [req[r] EXCEPT !.pc = "detach", !.todo = Active(req[r].net)]
  OBVIOUS
<1>2. req \in [Requests -> Request] /\ req[r] \in Request /\ Knows(req[r])
  BY TheRequest
<1>3. Active(req[r].net) \subseteq Pairs
  BY TheRequest DEF Active
<1>4. /\ q \in Request
      /\ q.pc = "detach" /\ q.net = req[r].net
  BY <1>1, <1>2, <1>3 DEF Request, PCs
<1>5. req' = [req EXCEPT ![r] = q]
      /\ UNCHANGED <<dockerVars, tableVars, historyVars, boundVars>>
  BY <1>1, <1>2 DEF Inspect
<1>6. Knows(q)
  BY <1>2, <1>4 DEF Knows, Inspect, At, WithNet, Connecting, Checked
<1>7. QED
  BY <1>4, <1>5, <1>6, QuietStep

-----------------------------------------------------------------------------
\* RemoveContainer.
LEMMA RemoveContainerIInv ==
    ASSUME IInv, NEW r \in Requests, NEW c \in Containers, RemoveContainer(r, c)
    PROVE  IInv'
<1> PICK q : q = [NoRequest EXCEPT !.pc = "collect", !.con = c]
  OBVIOUS
<1>1. q \in Request /\ q.pc = "collect"
  BY Idle DEF Request, NoRequest, PCs
<1>2. req' = [req EXCEPT ![r] = q]
      /\ UNCHANGED <<dockerVars, tableVars, historyVars, boundVars>>
  BY DEF RemoveContainer
<1>3. Knows(q)
  BY <1>1 DEF Knows, WithNet, Connecting, Checked
<1>4. QED
  BY <1>1, <1>2, <1>3, QuietStep

\* RemoveContainer lists the networks.
LEMMA CollectNetworksIInv ==
    ASSUME IInv, NEW r \in Requests, CollectNetworks(r)
    PROVE  IInv'
<1>1. PICK t : t = {m \in members : m[1] = req[r].con}
  OBVIOUS
<1>2. PICK q : q = [req[r] EXCEPT !.pc = "deleteContainer", !.todo = t]
  OBVIOUS
<1>3. req \in [Requests -> Request] /\ req[r] \in Request
  BY TheRequest
<1>4. t \subseteq Pairs
  BY <1>1, TheRequest
<1>5. q \in Request /\ q.pc = "deleteContainer"
  BY <1>2, <1>3, <1>4 DEF Request, PCs
<1>6. req' = [req EXCEPT ![r] = q]
      /\ UNCHANGED <<dockerVars, tableVars, historyVars, boundVars>>
  BY <1>1, <1>2, <1>3 DEF CollectNetworks
<1>7. Knows(q)
  BY <1>5 DEF Knows, WithNet, Connecting, Checked
<1>8. QED
  BY <1>5, <1>6, <1>7, QuietStep

\* The members of a container go with its row.
LEMMA DeleteContainerRowIInv ==
    ASSUME IInv, NEW r \in Requests, DeleteContainerRow(r)
    PROVE  IInv'
<1>1. UNCHANGED <<dockerVars, networks, accounts, limit, historyVars, boundVars>>
  BY DEF DeleteContainerRow
<1>2. HistoryOK' /\ UNCHANGED <<dockerVars, boundVars>>
  BY <1>1 DEF IInv, NetworksTypeOK, HistoryOK, historyVars
<1>3. CASE /\ containers' = containers \ {req[r].con}
           /\ members' = {m \in members : m[1] # req[r].con}
           /\ Goto(r, "leave")
  <2>1. members' \subseteq containers' \X networks
    BY <1>3 DEF IInv, NetworksTypeOK
  <2>2. TablesOK'
    BY <1>1, <1>3, <2>1 DEF IInv, NetworksTypeOK, TablesOK
  <2>3. PICK q \in Request : Knows(q) /\ req' = [req EXCEPT ![r] = q]
    BY <1>3, GotoStep DEF PCs, WithNet, Connecting, Checked
  <2>4. QED
    BY <1>1, <1>2, <1>3, <2>2, <2>3, TableStep
<1>4. CASE Return(r) /\ UNCHANGED <<containers, members>>
  <2>1. TablesOK'
    BY <1>1, <1>4 DEF IInv, NetworksTypeOK, TablesOK
  <2>2. QED
    BY <1>1, <1>2, <1>4, <2>1, Idle, ReturnStep, TableStep
<1>5. QED
  BY <1>3, <1>4 DEF DeleteContainerRow

-----------------------------------------------------------------------------
\* What a request knows after a call of its has failed.
LEMMA AfterErrorStep ==
    ASSUME IInv, NEW r \in Requests, AfterError(r)
    PROVE  \E q \in Request : Knows(q) /\ req' = [req EXCEPT ![r] = q]
<1>1. \/ Return(r)
      \/ At(r, "insert") /\ Goto(r, "undo")
      \/ At(r, "inspect") /\ Goto(r, "detach")
      \/ Goto(r, "deleteContainer")
      \/ Goto(r, "create")
      \/ \E e \in req[r].todo : req' = [req EXCEPT ![r].todo = @ \ {e}]
  BY DEF AfterError
<1>2. CASE Return(r)
  BY <1>2, Idle, ReturnStep
<1>3. CASE At(r, "insert") /\ Goto(r, "undo")
  BY <1>3, GotoStep DEF At, PCs, WithNet, Connecting, Checked
<1>4. CASE At(r, "inspect") /\ Goto(r, "detach")
  BY <1>4, GotoStep DEF At, PCs, WithNet, Connecting, Checked
<1>5. CASE Goto(r, "deleteContainer")
  BY <1>5, GotoStep DEF PCs, WithNet, Connecting, Checked
<1>6. CASE Goto(r, "create")
  BY <1>6, GotoStep DEF PCs, WithNet, Connecting, Checked
<1>7. CASE \E e \in req[r].todo : req' = [req EXCEPT ![r].todo = @ \ {e}]
  BY <1>7, LoopStep
<1>8. QED
  BY <1>1, <1>2, <1>3, <1>4, <1>5, <1>6, <1>7

\* A failing call.
LEMMA CallFailsIInv ==
    ASSUME IInv, NEW r \in Requests, CallFails(r)
    PROVE  IInv'
<1>1. UNCHANGED <<dockerVars, tableVars, crashes>>
  BY DEF CallFails
<1>2. docker' = docker /\ endpoints' = endpoints /\ networks' = networks
      /\ members' = members
  BY <1>1 DEF dockerVars, tableVars
<1>3. TablesOK' /\ DockerOK'
  BY <1>1 DEF IInv, NetworksTypeOK, TablesOK, DockerOK, dockerVars, tableVars
<1>4. BoundsOK'
  BY <1>1, NetworksAssumption DEF CallFails, Failure, IInv, NetworksTypeOK, BoundsOK
<1>5. HistoryOK'
  <2>1. req[r].pc \in Apart => req[r].net \in Nets
    BY TheRequest DEF Knows, WithNet, Apart
  <2>2. At(r, "insertMember") => Pair(r) \in Pairs
    BY CheckedIsOwn DEF At, Checked
  <2>3. excused' \subseteq Nets
    BY <2>1 DEF CallFails, Excuse, IInv, NetworksTypeOK
  <2>4. loose' \subseteq Pairs
    BY <2>2 DEF CallFails, Loosen, IInv, NetworksTypeOK
  <2>5. QED
    BY <2>3, <2>4 DEF HistoryOK
<1>6. PICK q \in Request : Knows(q) /\ req' = [req EXCEPT ![r] = q]
  BY AfterErrorStep DEF CallFails
<1>7. ReqOK'
  BY <1>6 DEF IInv, NetworksTypeOK, ReqOK
<1>8. ASSUME NEW s \in Requests, req'[s] # req[s] PROVE Knows(req[s])'
  <2>1. req'[s] = q
    BY <1>6, <1>8 DEF IInv, NetworksTypeOK
  <2>2. QED
    BY <1>2, <1>6, <2>1 DEF Knows, Born
<1>9. Grows
  BY <1>2 DEF Grows, Born
<1>10. QED
  BY <1>2, <1>3, <1>4, <1>5, <1>7, <1>8, <1>9, Frame

\* A crash loses the requests and nothing else.
LEMMA ServerCrashIInv ==
    ASSUME IInv, ServerCrash
    PROVE  IInv'
<1>1. UNCHANGED <<dockerVars, tableVars, faults>>
  BY DEF ServerCrash
<1>2. docker' = docker /\ endpoints' = endpoints /\ networks' = networks
      /\ members' = members
  BY <1>1 DEF dockerVars, tableVars
<1>3. TablesOK' /\ DockerOK'
  BY <1>1 DEF IInv, NetworksTypeOK, TablesOK, DockerOK, dockerVars, tableVars
<1>4. BoundsOK'
  BY <1>1, NetworksAssumption DEF ServerCrash, Failure, IInv, NetworksTypeOK, BoundsOK
<1>5. HistoryOK'
  <2>1. ASSUME NEW r \in Requests, req[r].pc \in Apart \cup {"insert"}
        PROVE  req[r].net \in Nets
    BY <2>1, TheRequest DEF Knows, WithNet, Apart
  <2>2. ASSUME NEW r \in Requests, At(r, "insertMember") PROVE Pair(r) \in Pairs
    BY <2>2, CheckedIsOwn DEF At, Checked
  <2>3. excused' \subseteq Nets
    BY <2>1 DEF ServerCrash, Excuse, IInv, NetworksTypeOK
  <2>4. loose' \subseteq Pairs
    BY <2>2 DEF ServerCrash, Loosen, IInv, NetworksTypeOK
  <2>5. QED
    BY <2>3, <2>4 DEF HistoryOK
<1>6. ReqOK'
  BY Idle DEF ServerCrash, ReqOK
<1>7. ASSUME NEW s \in Requests PROVE Knows(req[s])'
  <2>1. req'[s] = NoRequest /\ NoRequest.pc = "idle"
    BY DEF ServerCrash, NoRequest
  <2>2. QED
    BY <2>1 DEF Knows, WithNet, Connecting, Checked
<1>8. Grows
  BY <1>2 DEF Grows, Born
<1>9. QED
  BY <1>2, <1>3, <1>4, <1>5, <1>6, <1>7, <1>8, Frame

\* The plan is another; all else stays.
LEMMA PlanIInv ==
    ASSUME IInv, NEW u \in Users, NEW l \in LimitsOf[u], UpdateUserPlan(u, l)
    PROVE  IInv'
<1>1. /\ UNCHANGED <<docker, machine, endpoints, networks, containers, members, accounts,
                     req, excused, loose, faults, crashes>>
      /\ limit' = [limit EXCEPT ![u] = l]
  BY DEF UpdateUserPlan, dockerVars, historyVars, boundVars
<1>2. l \in 1..MaxNetworks
  BY NetworksAssumption
<1>3. NetworksTypeOK'
  BY <1>1, <1>2 DEF IInv, NetworksTypeOK
<1>4. RowsInv' /\ OwnInv' /\ KnowsInv'
  BY <1>1 DEF IInv, RowsInv, OwnInv, KnowsInv, Born, Own, Knows
<1>5. QED
  BY <1>3, <1>4 DEF IInv

\* The rows of an account go by cascade, and members with either side.
LEMMA DeleteUserIInv ==
    ASSUME IInv, NEW u \in Users, DeleteUserByID(u)
    PROVE  IInv'
<1>1. /\ UNCHANGED <<dockerVars, req, loose, boundVars>>
      /\ networks' \subseteq networks /\ members' \subseteq members
  BY DEF DeleteUserByID
<1>2. docker' = docker /\ endpoints' = endpoints
  BY <1>1 DEF dockerVars
<1>3. DockerOK' /\ ReqOK' /\ BoundsOK'
  BY <1>1 DEF IInv, NetworksTypeOK, DockerOK, ReqOK, BoundsOK, dockerVars, boundVars
<1>4. NetworksOf(u) \subseteq networks
  BY DEF NetworksOf
<1>5. HistoryOK'
  BY <1>1, <1>4 DEF DeleteUserByID, Excuse, IInv, NetworksTypeOK, HistoryOK
<1>6. members' \subseteq containers' \X networks'
  <2>1. ASSUME NEW m \in members' PROVE m[1] \in containers' /\ m[2] \in networks'
    BY DEF DeleteUserByID, NetworksOf, IInv, NetworksTypeOK
  <2>2. QED
    BY <1>1, <2>1 DEF IInv, NetworksTypeOK
<1>7. TablesOK'
  <2>1. limit' \in [Users -> 0..MaxNetworks]
    <3>1. 0 \in 0..MaxNetworks
      BY NetworksAssumption
    <3>2. QED
      BY <3>1 DEF DeleteUserByID, IInv, NetworksTypeOK
  <2>2. QED
    BY <1>6, <2>1 DEF DeleteUserByID, IInv, NetworksTypeOK, TablesOK
<1>8. Grows
  BY <1>2 DEF Grows, Born
<1>9. QED
  BY <1>1, <1>2, <1>3, <1>5, <1>7, <1>8, Frame

\* Containers that stop and start.
LEMMA MachineIInv ==
    ASSUME IInv, NEW c \in Containers, ContainerStops(c) \/ ContainerStarts(c)
    PROVE  IInv'
<1>1. UNCHANGED <<docker, endpoints, tableVars, req, historyVars, boundVars>>
  BY DEF ContainerStops, ContainerStarts
<1>2. DockerOK'
  BY DEF ContainerStops, ContainerStarts, IInv, NetworksTypeOK, DockerOK
<1>3. TablesOK' /\ ReqOK' /\ HistoryOK' /\ BoundsOK'
  BY <1>1 DEF IInv, NetworksTypeOK, TablesOK, ReqOK, HistoryOK, BoundsOK,
              tableVars, historyVars, boundVars
<1>4. networks' = networks /\ members' = members
  BY <1>1 DEF tableVars
<1>5. Grows
  BY <1>1 DEF Grows, Born
<1>6. QED
  BY <1>1, <1>2, <1>3, <1>4, <1>5, Frame

-----------------------------------------------------------------------------
\* Every step keeps the invariant.
LEMMA NextIInv == IInv /\ [Next]_vars => IInv'
<1> SUFFICES ASSUME IInv, [Next]_vars PROVE IInv'
  OBVIOUS
<1>1. CASE UNCHANGED vars
  <2>1. NetworksTypeOK'
    BY <1>1 DEF IInv, NetworksTypeOK, vars
  <2>2. RowsInv' /\ OwnInv' /\ KnowsInv'
    BY <1>1 DEF IInv, RowsInv, OwnInv, KnowsInv, Knows, Own, Born, vars
  <2>3. QED
    BY <2>1, <2>2 DEF IInv
<1>2. ASSUME NEW r \in Requests, NEW u \in Users, NEW name \in NamesOf[u],
             BeginCreate(r, u, name)
      PROVE  IInv'
  BY <1>2, BeginCreateIInv
<1>3. ASSUME NEW r \in Requests,
             \/ CountNetworks(r) \/ NetworkCreate(r) \/ InsertNetwork(r) \/ UndoCreate(r)
      PROVE  IInv'
  BY <1>3, CountNetworksIInv, NetworkCreateIInv, InsertNetworkIInv, UndoCreateIInv
<1>4. ASSUME NEW r \in Requests, NEW u \in Users, NEW n \in Nets, NEW c \in Containers,
             ConnectContainer(r, u, n, c)
      PROVE  IInv'
  BY <1>4, LookupNetworkIInv DEF ConnectContainer
<1>5. ASSUME NEW r \in Requests, NEW u \in Users, NEW n \in Nets, NEW c \in Containers,
             DisconnectContainer(r, u, n, c)
      PROVE  IInv'
  BY <1>5, LookupNetworkIInv DEF DisconnectContainer
<1>6. ASSUME NEW r \in Requests, NEW u \in Users, NEW n \in Nets, DeleteNetwork(r, u, n)
      PROVE  IInv'
  BY <1>6, LookupNetworkIInv DEF DeleteNetwork
<1>7. ASSUME NEW r \in Requests,
             \/ LookupContainer(r) \/ NetworkConnect(r) \/ InsertMember(r)
             \/ NetworkDisconnect(r) \/ DeleteMember(r)
      PROVE  IInv'
  BY <1>7, LookupContainerIInv, NetworkConnectIInv, InsertMemberIInv,
     NetworkDisconnectIInv, DeleteMemberIInv
<1>8. ASSUME NEW r \in Requests,
             Inspect(r) \/ Detach(r) \/ NetworkRemove(r) \/ DeleteNetworkRow(r)
      PROVE  IInv'
  BY <1>8, InspectIInv, LoopIInv, NetworkRemoveIInv, DeleteNetworkRowIInv
<1>9. ASSUME NEW r \in Requests, NEW c \in Containers, RemoveContainer(r, c)
      PROVE  IInv'
  BY <1>9, RemoveContainerIInv
<1>10. ASSUME NEW r \in Requests,
              \/ CollectNetworks(r) \/ DeleteContainerRow(r)
              \/ LeaveNetwork(r) \/ ContainerRemove(r)
       PROVE  IInv'
  BY <1>10, CollectNetworksIInv, DeleteContainerRowIInv, LoopIInv, ContainerRemoveIInv
<1>11. ASSUME NEW r \in Requests, CallFails(r)
       PROVE  IInv'
  BY <1>11, CallFailsIInv
<1>12. ASSUME ServerCrash
       PROVE  IInv'
  BY <1>12, ServerCrashIInv
<1>13. ASSUME NEW u \in Leaving, DeleteUserByID(u)
       PROVE  IInv'
  BY <1>13, NetworksAssumption, DeleteUserIInv
<1>14. ASSUME NEW c \in Containers, ContainerStops(c) \/ ContainerStarts(c)
       PROVE  IInv'
  BY <1>14, MachineIInv
<1>15. ASSUME NEW u \in Users, NEW l \in LimitsOf[u], UpdateUserPlan(u, l)
       PROVE  IInv'
  BY <1>15, PlanIInv
<1>16. QED
  BY <1>1, <1>2, <1>3, <1>4, <1>5, <1>6, <1>7, <1>8, <1>9, <1>10, <1>11, <1>12,
     <1>13, <1>14, <1>15 DEF Next

\* The inductive invariant of NetworkManager holds in every reachable state.
THEOREM NetworksInvariant == Spec => []IInv
BY InitIInv, NextIInv, PTL DEF Spec

\* Types are right in every reachable state: in particular a row of
\* container_networks always has its container and its network, whatever
\* InsertMember, DeleteNetworkRow and the cascades do at the same time.
THEOREM NetworksTypeCorrect == Spec => []NetworksTypeOK
<1>1. IInv => NetworksTypeOK
  BY DEF IInv
<1>2. QED
  BY <1>1, NetworksInvariant, PTL

\* No container joins a network of another user, in Docker or in what
\* ListNetworks shows, for any number of users, requests and failures.
THEOREM NetworkIsolation == Spec => []Isolation
<1>1. IInv => Isolation
  <2> SUFFICES ASSUME IInv PROVE Isolation
    OBVIOUS
  <2>1. \A e \in endpoints \cup members : docker[e[2]].user = Owner[e[1]]
    BY DEF IInv, OwnInv, Own
  <2>2. ASSUME NEW u \in Users, NEW n \in NetworksOf(u), NEW m \in members, m[2] = n
        PROVE  Owner[m[1]] = u
    BY <2>1, <2>2 DEF NetworksOf
  <2>3. ASSUME NEW u \in Users, NEW n \in DOMAIN ListNetworks(u),
               NEW c \in ListNetworks(u)[n]
        PROVE  Owner[c] = u
    <3>1. n \in NetworksOf(u)
      BY <2>3 DEF ListNetworks
    <3>2. c \in {m[1] : m \in {k \in members : k[2] = n}}
      BY <2>3, <3>1 DEF ListNetworks
    <3>3. PICK m \in members : m[2] = n /\ c = m[1]
      BY <3>2
    <3>4. QED
      BY <2>2, <3>1, <3>3
  <2>4. QED
    BY <2>1, <2>3 DEF Isolation
<1>2. QED
  BY <1>1, NetworksInvariant, PTL

-----------------------------------------------------------------------------
(***************************************************************************)
(* Docker and the tables hold the same networks. IInv holds before and     *)
(* after every step by NetworksInvariant; what is proved here rests on it. *)
(***************************************************************************)
Making == {"insert", "undo"}

\* A network that is being created is in Docker with the label of the user that
\* asks for it, without a row and without an endpoint, and nobody else knows it:
\* the INSERT adds a row to the count and the undo finds nothing in its way.
Fresh(q) == /\ Live(q.net) /\ docker[q.net].user = q.user
            /\ q.net \notin networks
            /\ \A e \in endpoints : e[2] # q.net
MakingInv == \A r \in Requests : req[r].pc \in Making => Fresh(req[r])
AloneInv == \A r, s \in Requests :
    r # s /\ req[r].pc \in Making /\ req[s].pc \in WithNet => req[s].net # req[r].net

\* DeleteNetwork deletes the row of a network that has gone from Docker.
GoneInv == \A r \in Requests :
    req[r].pc = "deleteNetwork" => docker[req[r].net].state = "gone"

MirrorInv == MakingInv /\ AloneInv /\ GoneInv /\ NoUnrecordedNetwork /\ RowHasNetwork

\* A step of request r from p to q that neither creates, records nor removes a
\* network: it keeps its network or looks up one that has a row.
Keeps(p, q) ==
    /\ q.pc \in Making => p.pc \in Making /\ q.net = p.net /\ q.user = p.user
    /\ q.pc \in WithNet => q.net \in networks \/ (p.pc \in WithNet /\ q.net = p.net)
    /\ q.pc # "deleteNetwork"

\* A network that is given up is excused.
GivesUp(p, q) ==
    /\ p.pc \in Making => q.pc \in Making \/ p.net \in excused'
    /\ p.pc = "deleteNetwork" => p.net \in excused'

Others(r) == \A s \in Requests \ {r} : req'[s] = req[s]

Ordinary(r) ==
    /\ docker' = docker /\ networks' = networks
    /\ excused \subseteq excused'
    /\ \A e \in endpoints' \ endpoints : e[2] = req[r].net /\ req[r].pc \in Connecting
    /\ Others(r)
    /\ Keeps(req[r], req'[r]) /\ GivesUp(req[r], req'[r])

LEMMA OrdinaryMirror ==
    ASSUME IInv, IInv', MirrorInv, NEW r \in Requests, Ordinary(r)
    PROVE  MirrorInv'
<1>1. docker' = docker /\ networks' = networks /\ excused \subseteq excused'
  BY DEF Ordinary
<1>2. \A s \in Requests \ {r} : req'[s] = req[s]
  BY DEF Ordinary, Others
<1>3. Keeps(req[r], req'[r]) /\ GivesUp(req[r], req'[r])
  BY DEF Ordinary
<1>4. MakingInv /\ AloneInv /\ GoneInv
  BY DEF MirrorInv
<1>5. ASSUME NEW s \in Requests, req'[s].pc \in Making
      PROVE  req[s].pc \in Making /\ req'[s].net = req[s].net /\ req'[s].user = req[s].user
  BY <1>2, <1>3, <1>5 DEF Keeps
<1>6. MakingInv'
  <2> SUFFICES ASSUME NEW s \in Requests, req'[s].pc \in Making PROVE Fresh(req[s])'
    BY DEF MakingInv
  <2>1. /\ req[s].pc \in Making /\ req'[s].net = req[s].net
        /\ req'[s].user = req[s].user /\ Fresh(req[s])
    BY <1>4, <1>5 DEF MakingInv
  <2>2. ASSUME NEW e \in endpoints' PROVE e[2] # req[s].net
    <3>1. CASE e \in endpoints
      BY <2>1, <3>1 DEF Fresh
    <3>2. CASE e \notin endpoints
      <4>1. e[2] = req[r].net /\ req[r].pc \in Connecting
        BY <3>2 DEF Ordinary
      <4>2. s # r
        BY <2>1, <4>1 DEF Making, Connecting
      <4>3. QED
        BY <1>4, <2>1, <4>1, <4>2 DEF AloneInv, Connecting, WithNet
    <3>3. QED
      BY <3>1, <3>2
  <2>3. QED
    BY <1>1, <2>1, <2>2 DEF Fresh, Live
<1>7. AloneInv'
  <2> SUFFICES ASSUME NEW s \in Requests, NEW t \in Requests, s # t,
                      req'[s].pc \in Making, req'[t].pc \in WithNet
               PROVE  req'[t].net # req'[s].net
    BY DEF AloneInv
  <2>1. req[s].pc \in Making /\ req'[s].net = req[s].net /\ Fresh(req[s])
    BY <1>4, <1>5 DEF MakingInv
  <2>2. \/ req'[t].net \in networks
        \/ req[t].pc \in WithNet /\ req'[t].net = req[t].net
    BY <1>2, <1>3 DEF Keeps
  <2>3. QED
    BY <1>4, <2>1, <2>2 DEF AloneInv, Fresh
<1>8. GoneInv'
  BY <1>1, <1>2, <1>3, <1>4 DEF GoneInv, Keeps
<1>9. NoUnrecordedNetwork'
  <2> SUFFICES ASSUME NEW n \in Nets, Live(n)',
                      n \notin networks, n \notin excused'
               PROVE  \E s \in Requests : req'[s].pc \in Making /\ req'[s].net = n
    BY <1>1 DEF NoUnrecordedNetwork, Making
  <2>1. PICK s \in Requests : req[s].pc \in Making /\ req[s].net = n
    BY <1>1 DEF MirrorInv, NoUnrecordedNetwork, Making, Live
  <2>2. req'[s].pc \in Making
    BY <1>2, <1>3, <2>1 DEF GivesUp
  <2>3. QED
    BY <1>5, <2>1, <2>2
<1>10. RowHasNetwork'
  <2> SUFFICES ASSUME NEW n \in networks, ~Live(n), n \notin excused'
               PROVE  \E s \in Requests : req'[s].pc = "deleteNetwork" /\ req'[s].net = n
    BY <1>1 DEF RowHasNetwork, At, Live
  <2>1. PICK s \in Requests : req[s].pc = "deleteNetwork" /\ req[s].net = n
    BY <1>1 DEF MirrorInv, RowHasNetwork, At
  <2>2. QED
    BY <1>2, <1>3, <2>1 DEF GivesUp
<1>11. QED
  BY <1>6, <1>7, <1>8, <1>9, <1>10 DEF MirrorInv

\* The counts of the plan's check do not grow: no row is added and no request
\* passes the check.
Counted == {"create", "insert"}
SameQuota(r) ==
    /\ \A n \in networks' : n \in networks /\ docker'[n].user = docker[n].user
    /\ faults' \in Nat /\ faults <= faults'
    /\ Others(r)
    /\ req'[r].pc \in Counted => req[r].pc \in Counted /\ req'[r].user = req[r].user

\* What is listed stays listed, and a Connect that gives up is loose.
SameList(r) ==
    /\ containers' \subseteq containers /\ networks' \subseteq networks
    /\ endpoints' \subseteq endpoints
    /\ members \subseteq members' /\ loose \subseteq loose'
    /\ Others(r)
    /\ req[r].pc = "insertMember" => Pair(r) \in loose'

\* What Return, Goto and one turn of a loop leave alone.
LEMMA ReturnFields ==
    ASSUME IInv, NEW r \in Requests, Return(r)
    PROVE  Others(r) /\ req'[r].pc = "idle"
BY TheRequest DEF Return, Others, NoRequest

LEMMA GotoFields ==
    ASSUME IInv, NEW r \in Requests, NEW pc, Goto(r, pc)
    PROVE  /\ Others(r) /\ req'[r].pc = pc
           /\ req'[r].net = req[r].net /\ req'[r].user = req[r].user
           /\ req'[r].con = req[r].con
<1>1. req \in [Requests -> Request] /\ req[r] \in Request
  BY TheRequest
<1>2. PICK q : q = [req[r] EXCEPT !.pc = pc]
  OBVIOUS
<1>3. req' = [req EXCEPT ![r] = q]
  BY <1>1, <1>2 DEF Goto
<1>4. /\ q.pc = pc /\ q.net = req[r].net /\ q.user = req[r].user
      /\ q.con = req[r].con
  BY <1>1, <1>2 DEF Request
<1>5. QED
  BY <1>1, <1>3, <1>4 DEF Others

LEMMA LoopFields ==
    ASSUME IInv, NEW r \in Requests, NEW e, req' = [req EXCEPT ![r].todo = @ \ {e}]
    PROVE  /\ Others(r) /\ req'[r].pc = req[r].pc
           /\ req'[r].net = req[r].net /\ req'[r].user = req[r].user
<1>1. req \in [Requests -> Request] /\ req[r] \in Request
  BY TheRequest
<1>2. PICK q : q = [req[r] EXCEPT !.todo = @ \ {e}]
  OBVIOUS
<1>3. req' = [req EXCEPT ![r] = q]
  BY <1>1, <1>2
<1>4. q.pc = req[r].pc /\ q.net = req[r].net /\ q.user = req[r].user
  BY <1>1, <1>2 DEF Request
<1>5. QED
  BY <1>1, <1>3, <1>4 DEF Others

\* A step of one request alone that leaves a place where nothing hangs on it.
LEMMA QuietIsOrdinary ==
    ASSUME IInv, NEW r \in Requests, Others(r), Keeps(req[r], req'[r]),
           UNCHANGED <<dockerVars, tableVars, historyVars, boundVars>>,
           req[r].pc \in Making => req'[r].pc \in Making,
           req[r].pc \notin {"deleteNetwork", "insertMember"}
    PROVE  /\ Ordinary(r) /\ SameList(r)
           /\ (req'[r].pc \in Counted =>
                 req[r].pc \in Counted /\ req'[r].user = req[r].user) => SameQuota(r)
<1>1. /\ docker' = docker /\ endpoints' = endpoints /\ networks' = networks
      /\ containers' = containers /\ members' = members
      /\ excused' = excused /\ loose' = loose /\ faults' = faults
  BY DEF dockerVars, tableVars, historyVars, boundVars
<1>2. faults \in Nat
  BY DEF IInv, NetworksTypeOK
<1>3. Ordinary(r)
  BY <1>1 DEF Ordinary, GivesUp
<1>4. SameList(r)
  BY <1>1 DEF SameList
<1>5. QED
  BY <1>1, <1>2, <1>3, <1>4 DEF SameQuota

\* The first step of a request.
LEMMA BeginCreateOrdinary ==
    ASSUME IInv, NEW r \in Requests, NEW u, NEW name, BeginCreate(r, u, name)
    PROVE  Ordinary(r) /\ SameList(r) /\ SameQuota(r)
<1>1. /\ UNCHANGED <<dockerVars, tableVars, historyVars, boundVars>>
      /\ req[r].pc = "idle"
  BY DEF BeginCreate, At
<1>2. Others(r) /\ req'[r].pc = "count"
  BY TheRequest DEF BeginCreate, Others, NoRequest
<1>3. Keeps(req[r], req'[r])
  BY <1>2 DEF Keeps, Making, WithNet
<1>4. QED
  BY <1>1, <1>2, <1>3, QuietIsOrdinary DEF Making, Counted

LEMMA LookupNetworkOrdinary ==
    ASSUME IInv, NEW r \in Requests, NEW u, NEW n, NEW c, NEW op,
           NEW pc \in {"lookupConnect", "lookupDisconnect", "inspect"},
           LookupNetwork(r, op, pc, u, n, c)
    PROVE  Ordinary(r) /\ SameList(r) /\ SameQuota(r)
<1>1. /\ UNCHANGED <<dockerVars, tableVars, historyVars, boundVars>>
      /\ req[r].pc = "idle" /\ n \in networks
  BY DEF LookupNetwork, At, NetworksOf
<1>2. Others(r) /\ req'[r].pc = pc /\ req'[r].net = n
  BY TheRequest DEF LookupNetwork, Others, NoRequest
<1>3. Keeps(req[r], req'[r])
  BY <1>1, <1>2 DEF Keeps, Making, WithNet
<1>4. QED
  BY <1>1, <1>2, <1>3, QuietIsOrdinary DEF Making, Counted

LEMMA RemoveContainerOrdinary ==
    ASSUME IInv, NEW r \in Requests, NEW c, RemoveContainer(r, c)
    PROVE  Ordinary(r) /\ SameList(r) /\ SameQuota(r)
<1>1. /\ UNCHANGED <<dockerVars, tableVars, historyVars, boundVars>>
      /\ req[r].pc = "idle"
  BY DEF RemoveContainer, At
<1>2. Others(r) /\ req'[r].pc = "collect"
  BY TheRequest DEF RemoveContainer, Others, NoRequest
<1>3. Keeps(req[r], req'[r])
  BY <1>2 DEF Keeps, Making, WithNet
<1>4. QED
  BY <1>1, <1>2, <1>3, QuietIsOrdinary DEF Making, Counted

\* The check of the limit: the only step that may pass a request on.
LEMMA CountOrdinary ==
    ASSUME IInv, NEW r \in Requests, CountNetworks(r)
    PROVE  Ordinary(r) /\ SameList(r) /\ (Return(r) => SameQuota(r))
<1>1. /\ UNCHANGED <<dockerVars, tableVars, historyVars, boundVars>>
      /\ req[r].pc = "count" /\ (Goto(r, "create") \/ Return(r))
  BY DEF CountNetworks, At
<1>2. Others(r) /\ req'[r].pc \in {"create", "idle"}
  BY <1>1, GotoFields, ReturnFields
<1>3. Keeps(req[r], req'[r])
  BY <1>2 DEF Keeps, Making, WithNet
<1>4. Return(r) => req'[r].pc = "idle"
  BY ReturnFields
<1>5. QED
  BY <1>1, <1>2, <1>3, <1>4, QuietIsOrdinary DEF Making, Counted

\* A request that ends with nothing but its place to lose, or whose INSERT is
\* refused.
LEMMA EndOrdinary ==
    ASSUME IInv, NEW r \in Requests,
           UNCHANGED <<dockerVars, tableVars, historyVars, boundVars>>,
           \/ Return(r) /\ req[r].pc \notin Making \cup {"deleteNetwork", "insertMember"}
           \/ Goto(r, "undo") /\ req[r].pc = "insert"
    PROVE  Ordinary(r) /\ SameList(r) /\ SameQuota(r)
<1>1. CASE Return(r) /\ req[r].pc \notin Making \cup {"deleteNetwork", "insertMember"}
  <2>1. Others(r) /\ req'[r].pc = "idle"
    BY <1>1, ReturnFields
  <2>2. Keeps(req[r], req'[r])
    BY <2>1 DEF Keeps, Making, WithNet
  <2>3. QED
    BY <1>1, <2>1, <2>2, QuietIsOrdinary DEF Making, Counted
<1>2. CASE Goto(r, "undo") /\ req[r].pc = "insert"
  <2>1. /\ Others(r) /\ req'[r].pc = "undo" /\ req'[r].net = req[r].net
        /\ req'[r].user = req[r].user
    BY <1>2, GotoFields
  <2>2. Keeps(req[r], req'[r])
    BY <1>2, <2>1 DEF Keeps, Making, WithNet
  <2>3. QED
    BY <1>2, <2>1, <2>2, QuietIsOrdinary DEF Making, Counted
<1>3. QED
  BY <1>1, <1>2

\* Lookups and lists.
LEMMA LookupOrdinary ==
    ASSUME IInv, NEW r \in Requests,
           LookupContainer(r) \/ Inspect(r) \/ CollectNetworks(r)
    PROVE  Ordinary(r) /\ SameList(r) /\ SameQuota(r)
<1>1. UNCHANGED <<dockerVars, tableVars, historyVars, boundVars>>
  BY DEF LookupContainer, Inspect, CollectNetworks
<1>2. req \in [Requests -> Request] /\ req[r] \in Request
  BY TheRequest
<1>3. CASE LookupContainer(r)
  <2>1. req[r].pc \in {"lookupConnect", "lookupDisconnect"}
    BY <1>3 DEF LookupContainer
  <2>2. CASE Return(r)
    BY <1>1, <2>1, <2>2, EndOrdinary DEF Making
  <2>3. CASE ~Return(r)
    <3>1. /\ Others(r) /\ req'[r].pc \in {"connect", "disconnect"}
          /\ req'[r].net = req[r].net
      BY <1>3, <2>3, GotoFields DEF LookupContainer
    <3>2. Keeps(req[r], req'[r])
      BY <2>1, <3>1 DEF Keeps, Making, WithNet
    <3>3. QED
      BY <1>1, <2>1, <3>1, <3>2, QuietIsOrdinary DEF Making, Counted
  <2>4. QED
    BY <2>2, <2>3
<1>4. CASE Inspect(r)
  <2>1. req[r].pc = "inspect"
    BY <1>4 DEF Inspect, At
  <2>2. /\ Others(r) /\ req'[r].pc = "detach" /\ req'[r].net = req[r].net
    BY <1>2, <1>4 DEF Inspect, Others, Request
  <2>3. Keeps(req[r], req'[r])
    BY <2>1, <2>2 DEF Keeps, Making, WithNet
  <2>4. QED
    BY <1>1, <2>1, <2>2, <2>3, QuietIsOrdinary DEF Making, Counted
<1>5. CASE CollectNetworks(r)
  <2>1. req[r].pc = "collect"
    BY <1>5 DEF CollectNetworks, At
  <2>2. /\ Others(r) /\ req'[r].pc = "deleteContainer"
    BY <1>2, <1>5 DEF CollectNetworks, Others, Request
  <2>3. Keeps(req[r], req'[r])
    BY <2>1, <2>2 DEF Keeps, Making, WithNet
  <2>4. QED
    BY <1>1, <2>1, <2>2, <2>3, QuietIsOrdinary DEF Making, Counted
<1>6. QED
  BY <1>3, <1>4, <1>5

\* Connections, rows of members and of containers.
LEMMA ConnectOrdinary ==
    ASSUME IInv, NEW r \in Requests, NetworkConnect(r) \/ NetworkDisconnect(r)
    PROVE  /\ Ordinary(r) /\ SameQuota(r)
           /\ NetworkDisconnect(r) => SameList(r)
<1>1. /\ docker' = docker /\ networks' = networks /\ containers' = containers
      /\ members' = members /\ excused' = excused /\ loose' = loose
      /\ faults' = faults /\ faults \in Nat
  BY DEF NetworkConnect, NetworkDisconnect, tableVars, historyVars, boundVars, IInv,
         NetworksTypeOK
<1>2. /\ req[r].pc \in {"connect", "disconnect"}
      /\ NetworkDisconnect(r) => endpoints' \subseteq endpoints
  BY DEF NetworkConnect, NetworkDisconnect, At
<1>3. \A e \in endpoints' \ endpoints : e[2] = req[r].net /\ req[r].pc \in Connecting
  BY DEF NetworkConnect, NetworkDisconnect, At, Connecting
<1>4. Return(r) \/ Goto(r, "insertMember") \/ Goto(r, "deleteMember")
  BY DEF NetworkConnect, NetworkDisconnect
<1>5. /\ Others(r) /\ req'[r].pc \in {"idle", "insertMember", "deleteMember"}
      /\ req'[r].pc # "idle" => req'[r].net = req[r].net
  BY <1>4, GotoFields, ReturnFields
<1>6. Keeps(req[r], req'[r]) /\ GivesUp(req[r], req'[r])
  BY <1>2, <1>5 DEF Keeps, GivesUp, Making, WithNet
<1>7. QED
  BY <1>1, <1>2, <1>3, <1>5, <1>6 DEF Ordinary, SameQuota, SameList, Counted

LEMMA MemberOrdinary ==
    ASSUME IInv, NEW r \in Requests, InsertMember(r) \/ DeleteMember(r)
    PROVE  Ordinary(r) /\ SameQuota(r)
<1>1. /\ docker' = docker /\ networks' = networks /\ endpoints' = endpoints
      /\ excused' = excused /\ faults' = faults /\ faults \in Nat
  BY DEF InsertMember, DeleteMember, dockerVars, boundVars, IInv, NetworksTypeOK
<1>2. req[r].pc \in {"insertMember", "deleteMember"} /\ Return(r)
  BY DEF InsertMember, DeleteMember, At
<1>3. Others(r) /\ req'[r].pc = "idle"
  BY <1>2, ReturnFields
<1>4. Keeps(req[r], req'[r]) /\ GivesUp(req[r], req'[r])
  BY <1>2, <1>3 DEF Keeps, GivesUp, Making, WithNet
<1>5. QED
  BY <1>1, <1>3, <1>4 DEF Ordinary, SameQuota, Counted

LEMMA DeleteContainerOrdinary ==
    ASSUME IInv, NEW r \in Requests, DeleteContainerRow(r)
    PROVE  Ordinary(r) /\ SameQuota(r)
<1>1. /\ docker' = docker /\ networks' = networks /\ endpoints' = endpoints
      /\ excused' = excused /\ faults' = faults /\ faults \in Nat
  BY DEF DeleteContainerRow, dockerVars, historyVars, boundVars, IInv, NetworksTypeOK
<1>2. req[r].pc = "deleteContainer" /\ (Return(r) \/ Goto(r, "leave"))
  BY DEF DeleteContainerRow, At
<1>3. Others(r) /\ req'[r].pc \in {"idle", "leave"}
  BY <1>2, GotoFields, ReturnFields
<1>4. Keeps(req[r], req'[r]) /\ GivesUp(req[r], req'[r])
  BY <1>2, <1>3 DEF Keeps, GivesUp, Making, WithNet
<1>5. QED
  BY <1>1, <1>3, <1>4 DEF Ordinary, SameQuota, Counted

\* The loops over endpoints, and the end of RemoveContainer.
LEMMA LoopOrdinary ==
    ASSUME IInv, NEW r \in Requests, Detach(r) \/ LeaveNetwork(r) \/ ContainerRemove(r)
    PROVE  Ordinary(r) /\ SameQuota(r) /\ SameList(r)
<1>1. /\ docker' = docker /\ networks' = networks /\ containers' = containers
      /\ members' = members /\ excused' = excused /\ loose' = loose
      /\ faults' = faults
  BY DEF Detach, LeaveNetwork, ContainerRemove, tableVars, historyVars, boundVars
<1>2. endpoints' \subseteq endpoints /\ req[r].pc \in {"detach", "leave"}
  BY DEF Detach, LeaveNetwork, ContainerRemove, At
<1>3. /\ Others(r) /\ req'[r].pc \in {req[r].pc, "idle"}
      /\ req'[r].pc # "idle" => req'[r].net = req[r].net
  <2>1. CASE Detach(r) \/ LeaveNetwork(r)
    <3>1. PICK e : req' = [req EXCEPT ![r].todo = @ \ {e}]
      BY <2>1 DEF Detach, LeaveNetwork
    <3>2. QED
      BY <3>1, LoopFields
  <2>2. CASE ContainerRemove(r)
    BY <2>2, ReturnFields DEF ContainerRemove
  <2>3. QED
    BY <2>1, <2>2
<1>4. Keeps(req[r], req'[r]) /\ GivesUp(req[r], req'[r])
  BY <1>2, <1>3 DEF Keeps, GivesUp, Making, WithNet
<1>5. faults \in Nat
  BY DEF IInv, NetworksTypeOK
<1>6. QED
  BY <1>1, <1>2, <1>3, <1>4, <1>5 DEF Ordinary, SameQuota, SameList, Counted

\* A call that fails: AfterError by the place of the request.
LEMMA AfterErrorFields ==
    ASSUME IInv, NEW r \in Requests, AfterError(r)
    PROVE  /\ Others(r)
           /\ \/ req'[r].pc = "idle" /\ req[r].pc # "insert"
              \/ req[r].pc = "count" /\ req'[r].pc = "create"
              \/ req'[r].pc = "deleteContainer" /\ req[r].pc = "collect"
              \/ /\ req'[r].net = req[r].net /\ req'[r].user = req[r].user
                 /\ \/ req[r].pc = "insert" /\ req'[r].pc = "undo"
                    \/ req[r].pc = "inspect" /\ req'[r].pc = "detach"
                    \/ req[r].pc \in {"detach", "leave"} /\ req'[r].pc = req[r].pc
<1>1. \/ Return(r) /\ req[r].pc # "insert"
      \/ req[r].pc = "insert" /\ Goto(r, "undo")
      \/ req[r].pc = "inspect" /\ Goto(r, "detach")
      \/ req[r].pc = "collect" /\ Goto(r, "deleteContainer")
      \/ req[r].pc = "count" /\ Goto(r, "create")
      \/ /\ req[r].pc \in {"detach", "leave"}
         /\ \E e \in req[r].todo : req' = [req EXCEPT ![r].todo = @ \ {e}]
  BY DEF AfterError, At
<1>2. CASE Return(r) /\ req[r].pc # "insert"
  BY <1>2, ReturnFields
<1>3. CASE req[r].pc = "insert" /\ Goto(r, "undo")
  BY <1>3, GotoFields
<1>4. CASE req[r].pc = "inspect" /\ Goto(r, "detach")
  BY <1>4, GotoFields
<1>5. CASE req[r].pc = "collect" /\ Goto(r, "deleteContainer")
  BY <1>5, GotoFields
<1>6. CASE req[r].pc = "count" /\ Goto(r, "create")
  BY <1>6, GotoFields
<1>7. CASE /\ req[r].pc \in {"detach", "leave"}
           /\ \E e \in req[r].todo : req' = [req EXCEPT ![r].todo = @ \ {e}]
  BY <1>7, LoopFields
<1>8. QED
  BY <1>1, <1>2, <1>3, <1>4, <1>5, <1>6, <1>7

LEMMA CallFailsOrdinary ==
    ASSUME IInv, NEW r \in Requests, CallFails(r)
    PROVE  /\ Ordinary(r) /\ SameList(r)
           /\ req[r].pc # "count" => SameQuota(r)
<1>1. /\ docker' = docker /\ networks' = networks /\ containers' = containers
      /\ members' = members /\ endpoints' = endpoints
  BY DEF CallFails, dockerVars, tableVars
<1>2. /\ excused \subseteq excused' /\ loose \subseteq loose'
      /\ req[r].pc \in Apart => req[r].net \in excused'
      /\ req[r].pc = "insertMember" => Pair(r) \in loose'
  BY DEF CallFails, Excuse, Loosen, At
<1>3. faults' \in Nat /\ faults <= faults'
  BY DEF CallFails, IInv, NetworksTypeOK
<1>4. /\ Others(r)
      /\ \/ req'[r].pc = "idle" /\ req[r].pc # "insert"
         \/ req[r].pc = "count" /\ req'[r].pc = "create"
         \/ req'[r].pc = "deleteContainer" /\ req[r].pc = "collect"
         \/ /\ req'[r].net = req[r].net /\ req'[r].user = req[r].user
            /\ \/ req[r].pc = "insert" /\ req'[r].pc = "undo"
               \/ req[r].pc = "inspect" /\ req'[r].pc = "detach"
               \/ req[r].pc \in {"detach", "leave"} /\ req'[r].pc = req[r].pc
  BY AfterErrorFields DEF CallFails
<1>5. Keeps(req[r], req'[r])
  BY <1>4 DEF Keeps, Making, WithNet
<1>6. GivesUp(req[r], req'[r])
  BY <1>2, <1>4 DEF GivesUp, Making, Apart
<1>7. Ordinary(r)
  BY <1>1, <1>2, <1>4, <1>5, <1>6 DEF Ordinary
<1>8. SameList(r)
  BY <1>1, <1>2, <1>4 DEF SameList
<1>9. req[r].pc # "count" => SameQuota(r)
  BY <1>1, <1>3, <1>4 DEF SameQuota, Counted
<1>10. QED
  BY <1>7, <1>8, <1>9

-----------------------------------------------------------------------------
\* A network that Docker creates has no row, no endpoint and no other request.
LEMMA NetworkCreateMirror ==
    ASSUME IInv, IInv', MirrorInv, NEW r \in Requests, NetworkCreate(r)
    PROVE  MirrorInv'
<1>1. CASE Return(r) /\ UNCHANGED docker
  <2>1. /\ req[r].pc = "create"
        /\ UNCHANGED <<dockerVars, tableVars, historyVars, boundVars>>
    BY <1>1 DEF NetworkCreate, At, dockerVars
  <2>2. QED
    BY <1>1, <2>1, EndOrdinary, OrdinaryMirror DEF Making
<1>2. ASSUME NEW n \in Unborn,
             docker' = [docker EXCEPT ![n] =
                [state |-> "live", user |-> req[r].user, name |-> req[r].name]],
             req' = [req EXCEPT ![r].pc = "insert", ![r].net = n]
      PROVE  MirrorInv'
  <2>1. n \in Nets /\ docker[n].state = "unborn" /\ docker \in [Nets -> Net]
    BY DEF Unborn, IInv, NetworksTypeOK
  <2>2. /\ networks' = networks /\ endpoints' = endpoints /\ excused' = excused
        /\ req[r].pc = "create"
    BY DEF NetworkCreate, tableVars, historyVars, At
  <2>3. /\ docker'[n].state = "live" /\ docker'[n].user = req[r].user
        /\ \A m \in Nets \ {n} : docker'[m] = docker[m]
    BY <1>2, <2>1
  <2>4. /\ Others(r) /\ req'[r].pc = "insert" /\ req'[r].net = n
        /\ req'[r].user = req[r].user
    BY <1>2, TheRequest DEF Others, Request
  <2>5. /\ n \notin networks /\ \A e \in endpoints : e[2] # n
        /\ \A s \in Requests : req[s].pc \in WithNet => req[s].net # n /\ req[s].net \in Nets
    BY <2>1 DEF IInv, RowsInv, OwnInv, Own, KnowsInv, Knows, Born
  <2>6. \A s \in Requests \ {r} : req'[s] = req[s]
    BY <2>4 DEF Others
  <2>7. MakingInv /\ AloneInv /\ GoneInv
    BY DEF MirrorInv
  <2>8. MakingInv'
    <3> SUFFICES ASSUME NEW s \in Requests, req'[s].pc \in Making PROVE Fresh(req[s])'
      BY DEF MakingInv
    <3>1. CASE s = r
      BY <2>2, <2>3, <2>4, <2>5, <3>1 DEF Fresh, Live
    <3>2. CASE s # r
      <4>1. req'[s] = req[s] /\ Fresh(req[s]) /\ req[s].net \in Nets \ {n}
        BY <2>5, <2>6, <2>7, <3>2 DEF MakingInv, Making, WithNet
      <4>2. QED
        BY <2>2, <2>3, <4>1 DEF Fresh, Live
    <3>3. QED
      BY <3>1, <3>2
  <2>9. AloneInv'
    BY <2>4, <2>5, <2>6, <2>7 DEF AloneInv, Making, WithNet
  <2>10. GoneInv'
    BY <2>3, <2>4, <2>5, <2>6, <2>7 DEF GoneInv, WithNet
  <2>11. NoUnrecordedNetwork'
    <3> SUFFICES ASSUME NEW m \in Nets, Live(m)', m \notin networks \cup excused
                 PROVE  \E s \in Requests : req'[s].pc \in Making /\ req'[s].net = m
      BY <2>2 DEF NoUnrecordedNetwork, Making
    <3>1. CASE m = n
      BY <2>4, <3>1 DEF Making
    <3>2. CASE m # n
      <4>1. PICK s \in Requests : req[s].pc \in Making /\ req[s].net = m
        BY <2>3, <3>2 DEF MirrorInv, NoUnrecordedNetwork, Making, Live
      <4>2. s # r
        BY <2>2, <4>1 DEF Making
      <4>3. QED
        BY <2>6, <4>1, <4>2
    <3>3. QED
      BY <3>1, <3>2
  <2>12. RowHasNetwork'
    <3> SUFFICES ASSUME NEW m \in networks, ~Live(m)', m \notin excused
                 PROVE  \E s \in Requests : req'[s].pc = "deleteNetwork" /\ req'[s].net = m
      BY <2>2 DEF RowHasNetwork, At
    <3>1. m \in Nets \ {n}
      BY <2>5 DEF IInv, NetworksTypeOK
    <3>2. PICK s \in Requests : req[s].pc = "deleteNetwork" /\ req[s].net = m
      BY <2>3, <3>1 DEF MirrorInv, RowHasNetwork, At, Live
    <3>3. s # r
      BY <2>2, <3>2
    <3>4. QED
      BY <2>6, <3>2, <3>3
  <2>13. QED
    BY <2>8, <2>9, <2>10, <2>11, <2>12 DEF MirrorInv
<1>3. QED
  BY <1>1, <1>2 DEF NetworkCreate

\* The INSERT records a network that is in Docker.
LEMMA InsertNetworkMirror ==
    ASSUME IInv, IInv', MirrorInv, NEW r \in Requests, InsertNetwork(r)
    PROVE  MirrorInv'
<1>1. /\ req[r].pc = "insert" /\ docker' = docker /\ endpoints' = endpoints
      /\ excused' = excused
  BY DEF InsertNetwork, At, dockerVars, historyVars
<1>2. CASE Goto(r, "undo") /\ UNCHANGED networks
  <2>1. UNCHANGED <<dockerVars, tableVars, historyVars, boundVars>>
    BY <1>2 DEF InsertNetwork, tableVars
  <2>2. QED
    BY <1>1, <1>2, <2>1, EndOrdinary, OrdinaryMirror
<1>3. CASE networks' = networks \cup {req[r].net} /\ Return(r)
  <2>1. Others(r) /\ req'[r].pc = "idle"
    BY <1>3, ReturnFields
  <2>2. \A s \in Requests \ {r} : req'[s] = req[s]
    BY <2>1 DEF Others
  <2>3. Live(req[r].net)
    BY <1>1 DEF MirrorInv, MakingInv, Making, Fresh
  <2>4. ASSUME NEW s \in Requests, req'[s].pc \in WithNet
        PROVE  s # r /\ req'[s] = req[s]
    BY <2>1, <2>2, <2>4 DEF WithNet
  <2>5. MakingInv'
    <3> SUFFICES ASSUME NEW s \in Requests, req'[s].pc \in Making PROVE Fresh(req[s])'
      BY DEF MakingInv
    <3>1. s # r /\ req'[s] = req[s] /\ req[s].pc \in Making
      BY <2>4 DEF Making, WithNet
    <3>2. Fresh(req[s]) /\ req[s].net # req[r].net
      BY <1>1, <3>1 DEF MirrorInv, MakingInv, AloneInv, Making, WithNet
    <3>3. QED
      BY <1>1, <1>3, <3>1, <3>2 DEF Fresh, Live
  <2>6. AloneInv' /\ GoneInv'
    BY <1>1, <2>4 DEF MirrorInv, AloneInv, GoneInv, Making, WithNet
  <2>7. NoUnrecordedNetwork'
    <3> SUFFICES ASSUME NEW m \in Nets, Live(m), m \notin networks' \cup excused
                 PROVE  \E s \in Requests : req'[s].pc \in Making /\ req'[s].net = m
      BY <1>1 DEF NoUnrecordedNetwork, Making, Live
    <3>1. PICK s \in Requests : req[s].pc \in Making /\ req[s].net = m
      BY <1>3 DEF MirrorInv, NoUnrecordedNetwork, Making
    <3>2. s # r
      BY <1>3, <3>1
    <3>3. QED
      BY <2>2, <3>1, <3>2
  <2>8. RowHasNetwork'
    <3> SUFFICES ASSUME NEW m \in networks', ~Live(m), m \notin excused
                 PROVE  \E s \in Requests : req'[s].pc = "deleteNetwork" /\ req'[s].net = m
      BY <1>1 DEF RowHasNetwork, At, Live
    <3>1. PICK s \in Requests : req[s].pc = "deleteNetwork" /\ req[s].net = m
      BY <1>3, <2>3 DEF MirrorInv, RowHasNetwork, At
    <3>2. QED
      BY <1>1, <2>2, <3>1
  <2>9. QED
    BY <2>5, <2>6, <2>7, <2>8 DEF MirrorInv
<1>4. QED
  BY <1>2, <1>3 DEF InsertNetwork

\* The undo always finds its network removable.
LEMMA UndoCreateMirror ==
    ASSUME IInv, IInv', MirrorInv, NEW r \in Requests, UndoCreate(r)
    PROVE  MirrorInv'
<1>1. PICK n : n = req[r].net
  OBVIOUS
<1>2. /\ req[r].pc = "undo" /\ networks' = networks /\ endpoints' = endpoints
      /\ excused' = excused
  BY DEF UndoCreate, At, tableVars, historyVars
<1>3. Fresh(req[r]) /\ n \in Nets
  BY <1>1, <1>2, TheRequest DEF MirrorInv, MakingInv, Making, Knows, WithNet
<1>4. NetworkRemovable(n)
  BY <1>1, <1>3 DEF Fresh, NetworkRemovable, Active
<1>5. /\ docker'[n].state = "gone"
      /\ \A m \in Nets \ {n} : docker'[m] = docker[m]
  BY <1>1, <1>3, <1>4 DEF UndoCreate, IInv, NetworksTypeOK, Net
<1>6. Others(r) /\ req'[r].pc = "idle"
  BY ReturnFields DEF UndoCreate
<1>7. \A s \in Requests \ {r} : req'[s] = req[s]
  BY <1>6 DEF Others
<1>8. ASSUME NEW s \in Requests, req'[s].pc \in WithNet
      PROVE  req'[s] = req[s] /\ req[s].net \in Nets \ {n}
  <2>1. s # r
    BY <1>6, <1>8 DEF WithNet
  <2>2. req'[s] = req[s]
    BY <1>7, <2>1
  <2>3. req[s].net # n
    BY <1>1, <1>2, <1>8, <2>1, <2>2 DEF MirrorInv, AloneInv, Making
  <2>4. QED
    BY <1>8, <2>2, <2>3, TheRequest DEF Knows
<1>9. MakingInv'
  <2> SUFFICES ASSUME NEW s \in Requests, req'[s].pc \in Making PROVE Fresh(req[s])'
    BY DEF MakingInv
  <2>1. req'[s] = req[s] /\ req[s].net \in Nets \ {n} /\ req[s].pc \in Making
    BY <1>8 DEF Making, WithNet
  <2>2. Fresh(req[s])
    BY <2>1 DEF MirrorInv, MakingInv
  <2>3. QED
    BY <1>2, <1>5, <2>1, <2>2 DEF Fresh, Live
<1>10. AloneInv' /\ GoneInv'
  BY <1>5, <1>8 DEF MirrorInv, AloneInv, GoneInv, Making, WithNet
<1>11. NoUnrecordedNetwork'
  <2> SUFFICES ASSUME NEW m \in Nets, Live(m)', m \notin networks \cup excused
               PROVE  \E s \in Requests : req'[s].pc \in Making /\ req'[s].net = m
    BY <1>2 DEF NoUnrecordedNetwork, Making
  <2>1. m # n /\ Live(m)
    BY <1>5 DEF Live
  <2>2. PICK s \in Requests : req[s].pc \in Making /\ req[s].net = m
    BY <2>1 DEF MirrorInv, NoUnrecordedNetwork, Making
  <2>3. QED
    BY <1>1, <1>7, <2>1, <2>2
<1>12. RowHasNetwork'
  <2> SUFFICES ASSUME NEW m \in networks, ~Live(m)', m \notin excused
               PROVE  \E s \in Requests : req'[s].pc = "deleteNetwork" /\ req'[s].net = m
    BY <1>2 DEF RowHasNetwork, At
  <2>1. m \in Nets \ {n}
    BY <1>1, <1>3 DEF Fresh, IInv, NetworksTypeOK
  <2>2. ~Live(m)
    BY <1>5, <2>1 DEF Live
  <2>3. PICK s \in Requests : req[s].pc = "deleteNetwork" /\ req[s].net = m
    BY <2>2 DEF MirrorInv, RowHasNetwork, At
  <2>4. QED
    BY <1>2, <1>7, <2>3
<1>13. QED
  BY <1>9, <1>10, <1>11, <1>12 DEF MirrorInv

\* A network leaves Docker with its DeleteNetwork on the way to the row.
LEMMA NetworkRemoveMirror ==
    ASSUME IInv, IInv', MirrorInv, NEW r \in Requests, NetworkRemove(r)
    PROVE  MirrorInv'
<1>1. PICK n : n = req[r].net
  OBVIOUS
<1>2. /\ req[r].pc = "detach" /\ networks' = networks /\ endpoints' = endpoints
      /\ excused' = excused /\ n \in Nets
  BY <1>1, TheRequest DEF NetworkRemove, At, tableVars, historyVars, Knows, WithNet
<1>3. CASE Return(r) /\ UNCHANGED docker
  <2>1. UNCHANGED <<dockerVars, tableVars, historyVars, boundVars>>
    BY <1>3 DEF NetworkRemove, dockerVars
  <2>2. QED
    BY <1>2, <1>3, <2>1, EndOrdinary, OrdinaryMirror DEF Making
<1>4. CASE /\ docker' = [docker EXCEPT ![n].state = "gone"]
           /\ Goto(r, "deleteNetwork")
  <2>1. /\ docker'[n].state = "gone"
        /\ \A m \in Nets \ {n} : docker'[m] = docker[m]
    BY <1>2, <1>4 DEF IInv, NetworksTypeOK, Net
  <2>2. Others(r) /\ req'[r].pc = "deleteNetwork" /\ req'[r].net = n
    BY <1>1, <1>4, GotoFields
  <2>3. \A s \in Requests \ {r} : req'[s] = req[s]
    BY <2>2 DEF Others
  <2>4. MakingInv'
    <3> SUFFICES ASSUME NEW s \in Requests, req'[s].pc \in Making PROVE Fresh(req[s])'
      BY DEF MakingInv
    <3>1. s # r /\ req'[s] = req[s] /\ req[s].pc \in Making
      BY <2>2, <2>3 DEF Making
    <3>2. Fresh(req[s]) /\ req[s].net # n /\ req[s].net \in Nets
      BY <1>1, <1>2, <3>1, TheRequest
      DEF MirrorInv, MakingInv, AloneInv, Making, WithNet, Knows
    <3>3. QED
      BY <1>2, <2>1, <3>1, <3>2 DEF Fresh, Live
  <2>5. AloneInv'
    BY <1>1, <1>2, <2>2, <2>3 DEF MirrorInv, AloneInv, Making, WithNet
  <2>6. GoneInv'
    <3> SUFFICES ASSUME NEW s \in Requests, req'[s].pc = "deleteNetwork"
                 PROVE  docker'[req'[s].net].state = "gone"
      BY DEF GoneInv
    <3>1. CASE s = r
      BY <2>1, <2>2, <3>1
    <3>2. CASE s # r
      <4>1. req'[s] = req[s] /\ req[s].net \in Nets
        BY <2>3, <3>2, TheRequest DEF Knows, WithNet
      <4>2. QED
        BY <2>1, <4>1 DEF MirrorInv, GoneInv
    <3>3. QED
      BY <3>1, <3>2
  <2>7. NoUnrecordedNetwork'
    <3> SUFFICES ASSUME NEW m \in Nets, Live(m)', m \notin networks \cup excused
                 PROVE  \E s \in Requests : req'[s].pc \in Making /\ req'[s].net = m
      BY <1>2 DEF NoUnrecordedNetwork, Making
    <3>1. m # n /\ Live(m)
      BY <2>1 DEF Live
    <3>2. PICK s \in Requests : req[s].pc \in Making /\ req[s].net = m
      BY <3>1 DEF MirrorInv, NoUnrecordedNetwork, Making
    <3>3. QED
      BY <1>1, <2>3, <3>1, <3>2
  <2>8. RowHasNetwork'
    <3> SUFFICES ASSUME NEW m \in networks, ~Live(m)', m \notin excused
                 PROVE  \E s \in Requests : req'[s].pc = "deleteNetwork" /\ req'[s].net = m
      BY <1>2 DEF RowHasNetwork, At
    <3>1. CASE m = n
      BY <2>2, <3>1
    <3>2. CASE m # n
      <4>1. ~Live(m)
        BY <2>1, <3>2 DEF Live, IInv, NetworksTypeOK
      <4>2. PICK s \in Requests : req[s].pc = "deleteNetwork" /\ req[s].net = m
        BY <4>1 DEF MirrorInv, RowHasNetwork, At
      <4>3. QED
        BY <1>2, <2>3, <4>2
    <3>3. QED
      BY <3>1, <3>2
  <2>9. QED
    BY <2>4, <2>5, <2>6, <2>7, <2>8 DEF MirrorInv
<1>5. QED
  BY <1>1, <1>3, <1>4 DEF NetworkRemove

\* The row that is deleted is that of a network that has gone.
LEMMA DeleteNetworkRowMirror ==
    ASSUME IInv, IInv', MirrorInv, NEW r \in Requests, DeleteNetworkRow(r)
    PROVE  MirrorInv'
<1>1. PICK n : n = req[r].net
  OBVIOUS
<1>2. /\ req[r].pc = "deleteNetwork" /\ docker' = docker /\ endpoints' = endpoints
      /\ excused' = excused /\ networks' = networks \ {n}
  BY <1>1 DEF DeleteNetworkRow, At, dockerVars, historyVars
<1>3. docker[n].state = "gone"
  BY <1>1, <1>2 DEF MirrorInv, GoneInv
<1>4. Others(r) /\ req'[r].pc = "idle"
  BY ReturnFields DEF DeleteNetworkRow
<1>5. \A s \in Requests \ {r} : req'[s] = req[s]
  BY <1>4 DEF Others
<1>6. ASSUME NEW s \in Requests, req'[s].pc \in WithNet PROVE req'[s] = req[s]
  BY <1>4, <1>5, <1>6 DEF WithNet
<1>7. MakingInv'
  <2> SUFFICES ASSUME NEW s \in Requests, req'[s].pc \in Making PROVE Fresh(req[s])'
    BY DEF MakingInv
  <2>1. req'[s] = req[s] /\ Fresh(req[s])
    BY <1>6 DEF MirrorInv, MakingInv, Making, WithNet
  <2>2. QED
    BY <1>2, <2>1 DEF Fresh, Live
<1>8. AloneInv' /\ GoneInv'
  BY <1>2, <1>6 DEF MirrorInv, AloneInv, GoneInv, Making, WithNet
<1>9. NoUnrecordedNetwork'
  <2> SUFFICES ASSUME NEW m \in Nets, Live(m), m \notin networks' \cup excused
               PROVE  \E s \in Requests : req'[s].pc \in Making /\ req'[s].net = m
    BY <1>2 DEF NoUnrecordedNetwork, Making, Live
  <2>1. m # n
    BY <1>3 DEF Live
  <2>2. PICK s \in Requests : req[s].pc \in Making /\ req[s].net = m
    BY <1>2, <2>1 DEF MirrorInv, NoUnrecordedNetwork, Making
  <2>3. QED
    BY <1>1, <1>5, <2>1, <2>2
<1>10. RowHasNetwork'
  <2> SUFFICES ASSUME NEW m \in networks', ~Live(m), m \notin excused
               PROVE  \E s \in Requests : req'[s].pc = "deleteNetwork" /\ req'[s].net = m
    BY <1>2 DEF RowHasNetwork, At, Live
  <2>1. PICK s \in Requests : req[s].pc = "deleteNetwork" /\ req[s].net = m
    BY <1>2 DEF MirrorInv, RowHasNetwork, At
  <2>2. QED
    BY <1>1, <1>2, <1>5, <2>1
<1>11. QED
  BY <1>7, <1>8, <1>9, <1>10 DEF MirrorInv

\* A crash excuses every network that a request held in one place only.
LEMMA ServerCrashMirror ==
    ASSUME IInv, IInv', MirrorInv, ServerCrash
    PROVE  MirrorInv'
<1>1. docker' = docker /\ networks' = networks
  BY DEF ServerCrash, dockerVars, tableVars
<1>2. \A r \in Requests : req'[r].pc = "idle"
  BY DEF ServerCrash, NoRequest
<1>3. /\ excused \subseteq excused'
      /\ \A r \in Requests : req[r].pc \in Making \cup {"deleteNetwork"} =>
            req[r].net \in excused'
  BY DEF ServerCrash, Excuse, Apart, Making
<1>4. MakingInv' /\ AloneInv' /\ GoneInv'
  BY <1>2 DEF MakingInv, AloneInv, GoneInv, Making
<1>5. NoUnrecordedNetwork'
  BY <1>1, <1>3 DEF MirrorInv, NoUnrecordedNetwork, Live, Making
<1>6. RowHasNetwork'
  BY <1>1, <1>3 DEF MirrorInv, RowHasNetwork, Live, At
<1>7. QED
  BY <1>4, <1>5, <1>6 DEF MirrorInv

\* The networks of a deleted account are excused.
LEMMA DeleteUserMirror ==
    ASSUME IInv, IInv', MirrorInv, NEW u \in Users, DeleteUserByID(u)
    PROVE  MirrorInv'
<1>1. /\ docker' = docker /\ req' = req /\ endpoints' = endpoints
      /\ networks' \subseteq networks /\ excused \subseteq excused'
      /\ networks \subseteq networks' \cup excused'
  BY DEF DeleteUserByID, dockerVars, Excuse, NetworksOf
<1>2. MakingInv' /\ AloneInv' /\ GoneInv'
  BY <1>1 DEF MirrorInv, MakingInv, AloneInv, GoneInv, Fresh, Live
<1>3. NoUnrecordedNetwork'
  BY <1>1 DEF MirrorInv, NoUnrecordedNetwork, Live
<1>4. RowHasNetwork'
  BY <1>1 DEF MirrorInv, RowHasNetwork, Live, At
<1>5. QED
  BY <1>2, <1>3, <1>4 DEF MirrorInv

\* Every step keeps it.
LEMMA NextMirror == IInv /\ IInv' /\ MirrorInv /\ [Next]_vars => MirrorInv'
<1> SUFFICES ASSUME IInv, IInv', MirrorInv, [Next]_vars PROVE MirrorInv'
  OBVIOUS
<1>1. ASSUME UNCHANGED <<docker, networks, endpoints, req, excused>> PROVE MirrorInv'
  BY <1>1 DEF MirrorInv, MakingInv, AloneInv, GoneInv, Fresh, Live, At,
              NoUnrecordedNetwork, RowHasNetwork
<1>2. CASE UNCHANGED vars
  BY <1>1, <1>2 DEF vars
<1>3. ASSUME NEW r \in Requests, NEW u \in Users, NEW name \in NamesOf[u],
             BeginCreate(r, u, name)
      PROVE  MirrorInv'
  BY <1>3, BeginCreateOrdinary, OrdinaryMirror
<1>4. ASSUME NEW r \in Requests,
             \/ CountNetworks(r) \/ NetworkCreate(r) \/ InsertNetwork(r) \/ UndoCreate(r)
      PROVE  MirrorInv'
  BY <1>4, CountOrdinary, OrdinaryMirror, NetworkCreateMirror, InsertNetworkMirror,
     UndoCreateMirror
<1>5. ASSUME NEW r \in Requests, NEW u \in Users, NEW n \in Nets, NEW c \in Containers,
             \/ ConnectContainer(r, u, n, c) \/ DisconnectContainer(r, u, n, c)
      PROVE  MirrorInv'
  BY <1>5, LookupNetworkOrdinary, OrdinaryMirror DEF ConnectContainer, DisconnectContainer
<1>6. ASSUME NEW r \in Requests, NEW u \in Users, NEW n \in Nets, DeleteNetwork(r, u, n)
      PROVE  MirrorInv'
  BY <1>6, LookupNetworkOrdinary, OrdinaryMirror DEF DeleteNetwork
<1>7. ASSUME NEW r \in Requests,
             \/ LookupContainer(r) \/ NetworkConnect(r) \/ InsertMember(r)
             \/ NetworkDisconnect(r) \/ DeleteMember(r)
      PROVE  MirrorInv'
  BY <1>7, LookupOrdinary, ConnectOrdinary, MemberOrdinary, OrdinaryMirror
<1>8. ASSUME NEW r \in Requests,
             Inspect(r) \/ Detach(r) \/ NetworkRemove(r) \/ DeleteNetworkRow(r)
      PROVE  MirrorInv'
  BY <1>8, LookupOrdinary, LoopOrdinary, OrdinaryMirror, NetworkRemoveMirror,
     DeleteNetworkRowMirror
<1>9. ASSUME NEW r \in Requests, NEW c \in Containers, RemoveContainer(r, c)
      PROVE  MirrorInv'
  BY <1>9, RemoveContainerOrdinary, OrdinaryMirror
<1>10. ASSUME NEW r \in Requests,
              \/ CollectNetworks(r) \/ DeleteContainerRow(r)
              \/ LeaveNetwork(r) \/ ContainerRemove(r)
       PROVE  MirrorInv'
  BY <1>10, LookupOrdinary, DeleteContainerOrdinary, LoopOrdinary, OrdinaryMirror
<1>11. ASSUME NEW r \in Requests, CallFails(r)
       PROVE  MirrorInv'
  BY <1>11, CallFailsOrdinary, OrdinaryMirror
<1>12. ASSUME ServerCrash
       PROVE  MirrorInv'
  BY <1>12, ServerCrashMirror
<1>13. ASSUME NEW u \in Leaving, DeleteUserByID(u)
       PROVE  MirrorInv'
  BY <1>13, NetworksAssumption, DeleteUserMirror
<1>14. ASSUME NEW c \in Containers, ContainerStops(c) \/ ContainerStarts(c)
       PROVE  MirrorInv'
  BY <1>1, <1>14 DEF ContainerStops, ContainerStarts, tableVars, historyVars
<1>15. ASSUME NEW u \in Users, NEW l \in LimitsOf[u], UpdateUserPlan(u, l)
       PROVE  MirrorInv'
  BY <1>1, <1>15 DEF UpdateUserPlan, dockerVars, historyVars
<1>16. QED
  BY <1>2, <1>3, <1>4, <1>5, <1>6, <1>7, <1>8, <1>9, <1>10, <1>11, <1>12,
     <1>13, <1>14, <1>15 DEF Next

\* The initial states: no request and no network.
LEMMA InitMirror == Init => MirrorInv
<1> SUFFICES ASSUME Init PROVE MirrorInv
  OBVIOUS
<1>1. \A r \in Requests : req[r].pc = "idle"
  BY DEF Init, NoRequest
<1>2. networks = {} /\ \A n \in Nets : ~Live(n)
  BY DEF Init, Live
<1>3. QED
  BY <1>1, <1>2 DEF MirrorInv, MakingInv, AloneInv, GoneInv, Making,
                    NoUnrecordedNetwork, RowHasNetwork

\* What is in Docker, in the tables and in the requests fits together.
THEOREM NetworksMirrored == Spec => []MirrorInv
BY NetworksInvariant, InitMirror, NextMirror, PTL DEF Spec

\* No network is lost: one that is in Docker has a row, or a create that will
\* record or remove it, or was left behind by a failing undo, a crash or the
\* deletion of the account, for any number of requests with any names.
THEOREM NetworksAreRecorded == Spec => []NoUnrecordedNetwork
<1>1. MirrorInv => NoUnrecordedNetwork
  BY DEF MirrorInv
<1>2. QED
  BY <1>1, NetworksMirrored, PTL

\* A row stands for a network in Docker, except from NetworkRemove to the DELETE
\* of its row, or after that DELETE failed.
THEOREM RowsHaveNetworks == Spec => []RowHasNetwork
<1>1. MirrorInv => RowHasNetwork
  BY DEF MirrorInv
<1>2. QED
  BY <1>1, NetworksMirrored, PTL

-----------------------------------------------------------------------------
(***************************************************************************)
(* Connections are listed.                                                 *)
(***************************************************************************)
Listed(e) ==
    \/ e \in members \cup loose
    \/ \E r \in Requests : req[r].pc = "insertMember" /\ Pair(r) = e

LEMMA ListedDef ==
    ConnectedIsListed <=>
      \A e \in endpoints : e[1] \in containers /\ e[2] \in networks => Listed(e)
BY DEF ConnectedIsListed, Listed, At

\* A step that lists less only where a row goes, and connects nothing.
LEMMA SameListed ==
    ASSUME ConnectedIsListed, NEW r \in Requests, SameList(r)
    PROVE  ConnectedIsListed'
<1>1. /\ containers' \subseteq containers /\ networks' \subseteq networks
      /\ endpoints' \subseteq endpoints
      /\ members \subseteq members' /\ loose \subseteq loose'
      /\ req[r].pc = "insertMember" => Pair(r) \in loose'
      /\ \A s \in Requests \ {r} : req'[s] = req[s]
  BY DEF SameList, Others
<1>2. ASSUME NEW e \in endpoints', e[1] \in containers', e[2] \in networks'
      PROVE  Listed(e)'
  <2>1. Listed(e)
    BY <1>1, <1>2, ListedDef
  <2>2. CASE e \in members \cup loose
    BY <1>1, <2>2 DEF Listed
  <2>3. ASSUME NEW s \in Requests, req[s].pc = "insertMember", Pair(s) = e
        PROVE  Listed(e)'
    BY <1>1, <2>3 DEF Listed, Pair
  <2>4. QED
    BY <2>1, <2>2, <2>3 DEF Listed
<1>3. QED
  BY <1>2 DEF ConnectedIsListed, Listed, At

\* A step after which every connection between rows was listed before and is
\* listed still: the tables shrink, and no Connect is cut short.
LEMMA RowsGoListed ==
    ASSUME ConnectedIsListed, endpoints' = endpoints, loose' = loose,
           containers' \subseteq containers, networks' \subseteq networks,
           \A m \in members : m[1] \in containers' /\ m[2] \in networks' => m \in members',
           \A s \in Requests : req[s].pc = "insertMember" => req'[s] = req[s]
    PROVE  ConnectedIsListed'
<1>1. ASSUME NEW e \in endpoints, e[1] \in containers', e[2] \in networks'
      PROVE  Listed(e)'
  <2>1. Listed(e)
    BY <1>1, ListedDef
  <2>2. CASE e \in members \cup loose
    BY <1>1, <2>2 DEF Listed
  <2>3. ASSUME NEW s \in Requests, req[s].pc = "insertMember", Pair(s) = e
        PROVE  Listed(e)'
    BY <2>3 DEF Listed, Pair
  <2>4. QED
    BY <2>1, <2>2, <2>3 DEF Listed
<1>2. QED
  BY <1>1 DEF ConnectedIsListed, Listed, At

\* CreateNetwork: a network that gets its row has no connection yet.
LEMMA CreateListed ==
    ASSUME IInv, MirrorInv, ConnectedIsListed, NEW r \in Requests,
           NetworkCreate(r) \/ InsertNetwork(r) \/ UndoCreate(r)
    PROVE  ConnectedIsListed'
<1>1. /\ endpoints' = endpoints /\ containers' = containers /\ members' = members
      /\ loose' = loose /\ req[r].pc \in {"create", "insert", "undo"}
  BY DEF NetworkCreate, InsertNetwork, UndoCreate, tableVars, historyVars, dockerVars, At
<1>2. networks' = networks \/ (req[r].pc = "insert" /\ networks' = networks \cup {req[r].net})
  BY DEF NetworkCreate, InsertNetwork, UndoCreate, tableVars, At
<1>3. \A e \in endpoints : e[2] \in networks' => e[2] \in networks
  BY <1>2 DEF MirrorInv, MakingInv, Making, Fresh
<1>4. \A s \in Requests \ {r} : req'[s] = req[s]
  <2>1. CASE InsertNetwork(r) \/ UndoCreate(r)
    BY <2>1, GotoFields, ReturnFields DEF InsertNetwork, UndoCreate, Others
  <2>2. CASE NetworkCreate(r)
    <3>1. CASE Return(r)
      BY <3>1, ReturnFields DEF Others
    <3>2. CASE ~Return(r)
      <4>1. PICK n : req' = [req EXCEPT ![r].pc = "insert", ![r].net = n]
        BY <2>2, <3>2 DEF NetworkCreate
      <4>2. QED
        BY <4>1, TheRequest
    <3>3. QED
      BY <3>1, <3>2
  <2>3. QED
    BY <2>1, <2>2
<1>5. ASSUME NEW e \in endpoints, e[1] \in containers, e[2] \in networks'
      PROVE  Listed(e)'
  <2>1. Listed(e)
    BY <1>3, <1>5, ListedDef
  <2>2. CASE e \in members \cup loose
    BY <1>1, <2>2 DEF Listed
  <2>3. ASSUME NEW s \in Requests, req[s].pc = "insertMember", Pair(s) = e
        PROVE  Listed(e)'
    BY <1>1, <1>4, <2>3 DEF Listed, Pair
  <2>4. QED
    BY <2>1, <2>2, <2>3 DEF Listed
<1>6. QED
  BY <1>1, <1>5 DEF ConnectedIsListed, Listed, At

\* NetworkConnect leaves the connection with the Connect that will list it.
LEMMA ConnectListed ==
    ASSUME IInv, ConnectedIsListed, NEW r \in Requests, NetworkConnect(r)
    PROVE  ConnectedIsListed'
<1>1. /\ networks' = networks /\ containers' = containers /\ members' = members
      /\ loose' = loose /\ req[r].pc = "connect"
  BY DEF NetworkConnect, tableVars, historyVars, At
<1>2. /\ Others(r)
      /\ \/ endpoints' = endpoints
         \/ /\ endpoints' = endpoints \cup {Pair(r)}
            /\ req'[r].pc = "insertMember" /\ Pair(r)' = Pair(r)
  BY GotoFields, ReturnFields DEF NetworkConnect, Pair
<1>3. ASSUME NEW e \in endpoints', e[1] \in containers, e[2] \in networks
      PROVE  Listed(e)'
  <2>1. CASE e = Pair(r) /\ req'[r].pc = "insertMember" /\ Pair(r)' = Pair(r)
    BY <2>1 DEF Listed
  <2>2. CASE e \in endpoints
    <3>1. Listed(e)
      BY <1>3, <2>2, ListedDef
    <3>2. CASE e \in members \cup loose
      BY <1>1, <3>2 DEF Listed
    <3>3. ASSUME NEW s \in Requests, req[s].pc = "insertMember", Pair(s) = e
          PROVE  Listed(e)'
      <4>1. req'[s] = req[s]
        BY <1>1, <1>2, <3>3 DEF Others
      <4>2. QED
        BY <3>3, <4>1 DEF Listed, Pair
    <3>4. QED
      BY <3>1, <3>2, <3>3 DEF Listed
  <2>3. QED
    BY <1>2, <2>1, <2>2
<1>4. QED
  BY <1>1, <1>3 DEF ConnectedIsListed, Listed, At

\* The INSERT lists the connection, unless a row it refers to has gone; the
\* DELETE of a Disconnect makes loose what was connected again in between.
LEMMA MemberListed ==
    ASSUME IInv, ConnectedIsListed, NEW r \in Requests, InsertMember(r) \/ DeleteMember(r)
    PROVE  ConnectedIsListed'
<1>1. /\ networks' = networks /\ containers' = containers /\ endpoints' = endpoints
      /\ Others(r)
  BY ReturnFields DEF InsertMember, DeleteMember, dockerVars
<1>2. ASSUME NEW e \in endpoints, e[1] \in containers, e[2] \in networks
      PROVE  Listed(e)'
  <2>1. Listed(e)
    BY <1>2, ListedDef
  <2>2. CASE e \in members \cup loose
    <3>1. CASE InsertMember(r)
      BY <2>2, <3>1 DEF InsertMember, Listed
    <3>2. CASE DeleteMember(r)
      BY <2>2, <3>2 DEF DeleteMember, Loosen, Listed
    <3>3. QED
      BY <3>1, <3>2
  <2>3. ASSUME NEW s \in Requests, req[s].pc = "insertMember", Pair(s) = e
        PROVE  Listed(e)'
    <3>1. CASE s = r
      <4>1. InsertMember(r)
        BY <2>3, <3>1 DEF DeleteMember, At
      <4>2. req[r].con \in containers /\ req[r].net \in networks
        BY <1>2, <2>3, <3>1 DEF Pair
      <4>3. e \in members'
        BY <2>3, <3>1, <4>1, <4>2 DEF InsertMember
      <4>4. QED
        BY <4>3 DEF Listed
    <3>2. CASE s # r
      BY <1>1, <2>3, <3>2 DEF Listed, Pair, Others
    <3>3. QED
      BY <3>1, <3>2
  <2>4. QED
    BY <2>1, <2>2, <2>3 DEF Listed
<1>3. QED
  BY <1>1, <1>2 DEF ConnectedIsListed, Listed, At

\* Members go with the row of their network, of their container, of either's user.
LEMMA RowsListed ==
    ASSUME IInv, ConnectedIsListed, NEW r \in Requests,
           DeleteNetworkRow(r) \/ DeleteContainerRow(r)
    PROVE  ConnectedIsListed'
<1>1. CASE DeleteNetworkRow(r)
  <2>1. /\ endpoints' = endpoints /\ loose' = loose /\ containers' = containers
        /\ networks' = networks \ {req[r].net}
        /\ members' = {m \in members : m[2] # req[r].net}
        /\ req[r].pc = "deleteNetwork" /\ Others(r)
    BY <1>1, ReturnFields DEF DeleteNetworkRow, At, dockerVars, historyVars
  <2>2. \A s \in Requests : req[s].pc = "insertMember" => req'[s] = req[s]
    BY <2>1 DEF Others
  <2>3. QED
    BY <2>1, <2>2, RowsGoListed
<1>2. CASE DeleteContainerRow(r)
  <2>1. /\ endpoints' = endpoints /\ loose' = loose /\ networks' = networks
        /\ containers' \subseteq containers
        /\ \A m \in members : m[1] \in containers' => m \in members'
        /\ req[r].pc = "deleteContainer" /\ (Return(r) \/ Goto(r, "leave"))
    BY <1>2 DEF DeleteContainerRow, At, dockerVars, historyVars
  <2>2. \A s \in Requests : req[s].pc = "insertMember" => req'[s] = req[s]
    BY <2>1, ReturnFields, GotoFields DEF Others
  <2>3. QED
    BY <2>1, <2>2, RowsGoListed
<1>3. QED
  BY <1>1, <1>2

LEMMA DeleteUserListed ==
    ASSUME ConnectedIsListed, NEW u \in Users, DeleteUserByID(u)
    PROVE  ConnectedIsListed'
<1>1. /\ endpoints' = endpoints /\ loose' = loose /\ req' = req
      /\ containers' \subseteq containers /\ networks' \subseteq networks
  BY DEF DeleteUserByID, dockerVars
<1>2. ASSUME NEW m \in members, m[1] \in containers', m[2] \in networks'
      PROVE  m \in members'
  BY <1>2 DEF DeleteUserByID, NetworksOf
<1>3. QED
  BY <1>1, <1>2, RowsGoListed

\* A crash makes loose what the Connects it cuts short had connected.
LEMMA CrashListed ==
    ASSUME ConnectedIsListed, ServerCrash
    PROVE  ConnectedIsListed'
<1>1. /\ endpoints' = endpoints /\ containers' = containers /\ networks' = networks
      /\ members' = members
  BY DEF ServerCrash, dockerVars, tableVars
<1>2. /\ loose \subseteq loose'
      /\ \A r \in Requests : req[r].pc = "insertMember" => Pair(r) \in loose'
  BY DEF ServerCrash, Loosen, At
<1>3. QED
  BY <1>1, <1>2 DEF ConnectedIsListed, At

\* NetworkRemove changes no connection and no row.
LEMMA RemoveListed ==
    ASSUME IInv, ConnectedIsListed, NEW r \in Requests, NetworkRemove(r)
    PROVE  ConnectedIsListed'
<1>1. /\ UNCHANGED <<endpoints, networks, containers, members, loose>>
      /\ req[r].pc = "detach" /\ (Return(r) \/ Goto(r, "deleteNetwork"))
  BY DEF NetworkRemove, At, tableVars, historyVars
<1>2. \A s \in Requests : req[s].pc = "insertMember" => req'[s] = req[s]
  BY <1>1, ReturnFields, GotoFields DEF Others
<1>3. QED
  BY <1>1, <1>2, RowsGoListed

LEMMA NextListed ==
    IInv /\ MirrorInv /\ ConnectedIsListed /\ [Next]_vars => ConnectedIsListed'
<1> SUFFICES ASSUME IInv, MirrorInv, ConnectedIsListed, [Next]_vars
             PROVE  ConnectedIsListed'
  OBVIOUS
<1>1. ASSUME UNCHANGED <<endpoints, networks, containers, members, loose, req>>
      PROVE  ConnectedIsListed'
  BY <1>1 DEF ConnectedIsListed, At, Pair
<1>2. CASE UNCHANGED vars
  BY <1>1, <1>2 DEF vars
<1>3. ASSUME NEW r \in Requests, NEW u \in Users, NEW name \in NamesOf[u],
             BeginCreate(r, u, name)
      PROVE  ConnectedIsListed'
  BY <1>3, BeginCreateOrdinary, SameListed
<1>4. ASSUME NEW r \in Requests,
             \/ CountNetworks(r) \/ NetworkCreate(r) \/ InsertNetwork(r) \/ UndoCreate(r)
      PROVE  ConnectedIsListed'
  BY <1>4, CountOrdinary, SameListed, CreateListed
<1>5. ASSUME NEW r \in Requests, NEW u \in Users, NEW n \in Nets, NEW c \in Containers,
             \/ ConnectContainer(r, u, n, c) \/ DisconnectContainer(r, u, n, c)
      PROVE  ConnectedIsListed'
  BY <1>5, LookupNetworkOrdinary, SameListed DEF ConnectContainer, DisconnectContainer
<1>6. ASSUME NEW r \in Requests, NEW u \in Users, NEW n \in Nets, DeleteNetwork(r, u, n)
      PROVE  ConnectedIsListed'
  BY <1>6, LookupNetworkOrdinary, SameListed DEF DeleteNetwork
<1>7. ASSUME NEW r \in Requests,
             \/ LookupContainer(r) \/ NetworkConnect(r) \/ InsertMember(r)
             \/ NetworkDisconnect(r) \/ DeleteMember(r)
      PROVE  ConnectedIsListed'
  BY <1>7, LookupOrdinary, ConnectOrdinary, SameListed, ConnectListed, MemberListed
<1>8. ASSUME NEW r \in Requests,
             Inspect(r) \/ Detach(r) \/ NetworkRemove(r) \/ DeleteNetworkRow(r)
      PROVE  ConnectedIsListed'
  BY <1>8, LookupOrdinary, LoopOrdinary, SameListed, RemoveListed, RowsListed
<1>9. ASSUME NEW r \in Requests, NEW c \in Containers, RemoveContainer(r, c)
      PROVE  ConnectedIsListed'
  BY <1>9, RemoveContainerOrdinary, SameListed
<1>10. ASSUME NEW r \in Requests,
              \/ CollectNetworks(r) \/ DeleteContainerRow(r)
              \/ LeaveNetwork(r) \/ ContainerRemove(r)
       PROVE  ConnectedIsListed'
  BY <1>10, LookupOrdinary, LoopOrdinary, SameListed, RowsListed
<1>11. ASSUME NEW r \in Requests, CallFails(r)
       PROVE  ConnectedIsListed'
  BY <1>11, CallFailsOrdinary, SameListed
<1>12. ASSUME ServerCrash
       PROVE  ConnectedIsListed'
  BY <1>12, CrashListed
<1>13. ASSUME NEW u \in Leaving, DeleteUserByID(u)
       PROVE  ConnectedIsListed'
  BY <1>13, NetworksAssumption, DeleteUserListed
<1>14. ASSUME NEW c \in Containers, ContainerStops(c) \/ ContainerStarts(c)
       PROVE  ConnectedIsListed'
  BY <1>1, <1>14 DEF ContainerStops, ContainerStarts, tableVars, historyVars
<1>15. ASSUME NEW u \in Users, NEW l \in LimitsOf[u], UpdateUserPlan(u, l)
       PROVE  ConnectedIsListed'
  BY <1>1, <1>15 DEF UpdateUserPlan, dockerVars, historyVars
<1>16. QED
  BY <1>2, <1>3, <1>4, <1>5, <1>6, <1>7, <1>8, <1>9, <1>10, <1>11, <1>12,
     <1>13, <1>14, <1>15 DEF Next

\* A connection between a container and a network that have rows is listed, or
\* about to be, or one of those whose row is knowingly missing, whatever
\* operations, failures and deletions overlap.
THEOREM ConnectionsAreListed == Spec => []ConnectedIsListed
<1>1. Init => ConnectedIsListed
  BY DEF Init, ConnectedIsListed
<1>2. QED
  BY <1>1, NetworksInvariant, NetworksMirrored, NextListed, PTL DEF Spec

-----------------------------------------------------------------------------
(***************************************************************************)
(* The limit of the plan.                                                  *)
(***************************************************************************)
Bound(u) ==
    Cardinality(NetworksOf(u)) + Cardinality(Creating(u))
       <= MaxNetworks - 1 + Cardinality(Requests) + faults

LEMMA OneMore ==
    ASSUME NEW A, IsFiniteSet(A), NEW x, NEW B \in SUBSET (A \cup {x})
    PROVE  /\ Cardinality(B) <= Cardinality(A) + 1
           /\ Cardinality(A) \in Nat /\ Cardinality(B) \in Nat
<1>1. /\ IsFiniteSet(A \cup {x})
      /\ \/ Cardinality(A \cup {x}) = Cardinality(A)
         \/ Cardinality(A \cup {x}) = Cardinality(A) + 1
  BY FS_AddElement
<1>2. Cardinality(A) \in Nat
  BY FS_CardinalityType
<1>3. IsFiniteSet(B) /\ Cardinality(B) <= Cardinality(A \cup {x})
  BY <1>1, FS_Subset
<1>4. Cardinality(B) \in Nat
  BY <1>3, FS_CardinalityType
<1>5. QED
  BY <1>1, <1>2, <1>3, <1>4

LEMMA OneLess ==
    ASSUME NEW A, IsFiniteSet(A), NEW x \in A, NEW B \in SUBSET (A \ {x})
    PROVE  /\ Cardinality(B) + 1 <= Cardinality(A)
           /\ Cardinality(A) \in Nat /\ Cardinality(B) \in Nat
<1>1. IsFiniteSet(A \ {x}) /\ Cardinality(A \ {x}) = Cardinality(A) - 1
  BY FS_RemoveElement
<1>2. IsFiniteSet(B) /\ Cardinality(B) <= Cardinality(A \ {x})
  BY <1>1, FS_Subset
<1>3. Cardinality(A) \in Nat /\ Cardinality(B) \in Nat
  BY <1>2, FS_CardinalityType
<1>4. QED
  BY <1>1, <1>2, <1>3

\* What is counted is finite.
LEMMA Counts ==
    ASSUME NEW u, IInv
    PROVE  /\ IsFiniteSet(NetworksOf(u)) /\ IsFiniteSet(Creating(u))
           /\ Cardinality(NetworksOf(u)) \in Nat /\ Cardinality(Creating(u)) \in Nat
           /\ Cardinality(Creating(u)) <= Cardinality(Requests)
           /\ Cardinality(Requests) \in Nat /\ MaxNetworks \in Nat \ {0}
           /\ faults \in Nat
<1>1. IsFiniteSet(Requests) /\ MaxNetworks \in Nat \ {0} /\ MaxNets \in Nat
  BY NetworksAssumption
<1>2. IsFiniteSet(Nets)
  BY <1>1, FS_Interval DEF Nets
<1>3. NetworksOf(u) \in SUBSET Nets /\ Creating(u) \in SUBSET Requests /\ faults \in Nat
  BY DEF IInv, NetworksTypeOK, NetworksOf, Creating
<1>4. IsFiniteSet(NetworksOf(u))
  BY <1>2, <1>3, FS_Subset
<1>5. IsFiniteSet(Creating(u)) /\ Cardinality(Creating(u)) <= Cardinality(Requests)
  BY <1>1, <1>3, FS_Subset
<1>6. /\ Cardinality(NetworksOf(u)) \in Nat /\ Cardinality(Creating(u)) \in Nat
      /\ Cardinality(Requests) \in Nat
  BY <1>1, <1>4, <1>5, FS_CardinalityType
<1>7. QED
  BY <1>1, <1>3, <1>4, <1>5, <1>6

\* The bound is kept for a user whose counted sets do not grow.
LEMMA SameBound ==
    ASSUME NEW u, IInv, IInv', Bound(u), faults <= faults',
           NetworksOf(u)' \subseteq NetworksOf(u), Creating(u)' \subseteq Creating(u)
    PROVE  Bound(u)'
<1>1. PICK A : A = NetworksOf(u)'
  OBVIOUS
<1>2. PICK B : B = Creating(u)'
  OBVIOUS
<1>3. /\ IsFiniteSet(NetworksOf(u)) /\ IsFiniteSet(Creating(u))
      /\ Cardinality(NetworksOf(u)) \in Nat /\ Cardinality(Creating(u)) \in Nat
      /\ Cardinality(Requests) \in Nat /\ MaxNetworks \in Nat \ {0} /\ faults \in Nat
  BY Counts
<1>4. Cardinality(A) <= Cardinality(NetworksOf(u)) /\ IsFiniteSet(A)
  BY <1>1, <1>3, FS_Subset
<1>5. Cardinality(B) <= Cardinality(Creating(u)) /\ IsFiniteSet(B)
  BY <1>2, <1>3, FS_Subset
<1>6. Cardinality(A) \in Nat /\ Cardinality(B) \in Nat
  BY <1>4, <1>5, FS_CardinalityType
<1>7. faults' \in Nat
  BY DEF IInv, NetworksTypeOK
<1>8. Cardinality(A) + Cardinality(B) <= MaxNetworks - 1 + Cardinality(Requests) + faults'
  BY <1>3, <1>4, <1>5, <1>6, <1>7 DEF Bound
<1>9. QED
  BY <1>1, <1>2, <1>8 DEF Bound

LEMMA QuotaStep ==
    ASSUME IInv, IInv', NetworkOvershoot, NEW r \in Requests, SameQuota(r)
    PROVE  NetworkOvershoot'
<1> SUFFICES ASSUME NEW u \in Users PROVE Bound(u)'
  BY DEF NetworkOvershoot, Bound
<1>1. NetworksOf(u)' \subseteq NetworksOf(u)
  BY DEF SameQuota, NetworksOf
<1>2. Creating(u)' \subseteq Creating(u)
  BY DEF SameQuota, Creating, Others, Counted
<1>3. Bound(u) /\ faults <= faults'
  BY DEF NetworkOvershoot, Bound, SameQuota
<1>4. QED
  BY <1>1, <1>2, <1>3, SameBound

\* A request that passes the check: it and all others at most are counted.
LEMMA PassBound ==
    ASSUME IInv, IInv', NetworkOvershoot, NEW r \in Requests, CountNetworks(r), Goto(r, "create")
    PROVE  NetworkOvershoot'
<1> SUFFICES ASSUME NEW u \in Users PROVE Bound(u)'
  BY DEF NetworkOvershoot, Bound
<1>1. docker' = docker /\ networks' = networks /\ faults' = faults /\ req[r].pc = "count"
  BY DEF CountNetworks, dockerVars, tableVars, boundVars, At
<1>2. Others(r) /\ req'[r].pc = "create" /\ req'[r].user = req[r].user
  BY GotoFields
<1>3. NetworksOf(u)' = NetworksOf(u)
  BY <1>1 DEF NetworksOf
<1>4. faults \in Nat
  BY DEF IInv, NetworksTypeOK
<1>5. CASE u = req[r].user
  <2>1. HasNetworkRoom(u)
    <3>1. req'[r].pc # "idle"
      BY <1>2
    <3>2. ~Return(r)
      BY <3>1, ReturnFields
    <3>3. QED
      BY <1>5, <3>2 DEF CountNetworks
  <2>2. PICK A : A = NetworksOf(u)
    OBVIOUS
  <2>3. PICK B : B = Creating(u)'
    OBVIOUS
  <2>4. Cardinality(A) < MaxNetworks /\ Cardinality(A) \in Nat
    <3>1. Cardinality(A) < limit[u] /\ limit[u] \in 0..MaxNetworks
      BY <2>1, <2>2 DEF HasNetworkRoom, IInv, NetworksTypeOK
    <3>2. Cardinality(A) \in Nat /\ MaxNetworks \in Nat
      BY <2>2, Counts
    <3>3. QED
      BY <3>1, <3>2
  <2>5. IsFiniteSet(Requests) /\ B \in SUBSET Requests
    BY <2>3, NetworksAssumption DEF Creating
  <2>6. IsFiniteSet(B) /\ Cardinality(B) <= Cardinality(Requests)
    BY <2>5, FS_Subset
  <2>7. Cardinality(B) \in Nat /\ Cardinality(Requests) \in Nat /\ MaxNetworks \in Nat
    BY <2>5, <2>6, FS_CardinalityType, NetworksAssumption
  <2>8. Cardinality(A) + Cardinality(B) <= MaxNetworks - 1 + Cardinality(Requests) + faults
    BY <1>4, <2>4, <2>6, <2>7
  <2>9. QED
    BY <1>1, <1>3, <2>2, <2>3, <2>8 DEF Bound
<1>6. CASE u # req[r].user
  <2>1. Creating(u)' \subseteq Creating(u)
    BY <1>2, <1>6 DEF Creating, Others
  <2>2. Bound(u) /\ faults <= faults'
    BY <1>1, <1>4 DEF NetworkOvershoot, Bound
  <2>3. QED
    BY <1>3, <2>1, <2>2, SameBound
<1>7. QED
  BY <1>5, <1>6

\* A count that fails passes one more request, and is one more fault.
LEMMA FailBound ==
    ASSUME IInv, IInv', NetworkOvershoot, NEW r \in Requests, CallFails(r), req[r].pc = "count"
    PROVE  NetworkOvershoot'
<1> SUFFICES ASSUME NEW u \in Users PROVE Bound(u)'
  BY DEF NetworkOvershoot, Bound
<1>1. docker' = docker /\ networks' = networks /\ faults' = faults + 1
  BY DEF CallFails, dockerVars, tableVars
<1>2. Others(r)
  BY AfterErrorFields DEF CallFails
<1>3. PICK A : A = NetworksOf(u)
  OBVIOUS
<1>4. PICK B : B = Creating(u)'
  OBVIOUS
<1>5. NetworksOf(u)' = A
  BY <1>1, <1>3 DEF NetworksOf
<1>6. B \in SUBSET (Creating(u) \cup {r})
  BY <1>2, <1>4 DEF Creating, Others
<1>7. /\ IsFiniteSet(Creating(u)) /\ Cardinality(A) \in Nat
      /\ Cardinality(Requests) \in Nat /\ MaxNetworks \in Nat \ {0} /\ faults \in Nat
  BY <1>3, Counts
<1>8. /\ Cardinality(B) <= Cardinality(Creating(u)) + 1
      /\ Cardinality(Creating(u)) \in Nat /\ Cardinality(B) \in Nat
  BY <1>6, <1>7, OneMore
<1>9. Cardinality(A) + Cardinality(Creating(u))
        <= MaxNetworks - 1 + Cardinality(Requests) + faults
  BY <1>3 DEF NetworkOvershoot
<1>10. Cardinality(A) + Cardinality(B)
         <= MaxNetworks - 1 + Cardinality(Requests) + (faults + 1)
  BY <1>7, <1>8, <1>9
<1>11. QED
  BY <1>1, <1>4, <1>5, <1>10 DEF Bound

\* The INSERT turns a request that was counted into a row that is.
LEMMA InsertBound ==
    ASSUME IInv, IInv', MirrorInv, NetworkOvershoot, NEW r \in Requests, InsertNetwork(r)
    PROVE  NetworkOvershoot'
<1>1. /\ docker' = docker /\ faults' = faults /\ faults \in Nat
      /\ req[r].pc = "insert"
  BY DEF InsertNetwork, dockerVars, boundVars, At, IInv, NetworksTypeOK
<1>2. CASE Goto(r, "undo") /\ UNCHANGED networks
  <2>1. UNCHANGED <<dockerVars, tableVars, historyVars, boundVars>>
    BY <1>2 DEF InsertNetwork, tableVars
  <2>2. QED
    BY <1>1, <1>2, <2>1, EndOrdinary, QuotaStep
<1>3. CASE networks' = networks \cup {req[r].net} /\ Return(r)
  <2> SUFFICES ASSUME NEW u \in Users PROVE Bound(u)'
    BY DEF NetworkOvershoot, Bound
  <2>1. Others(r) /\ req'[r].pc = "idle"
    BY <1>3, ReturnFields
  <2>2. Creating(u)' = Creating(u) \ {r}
    BY <2>1 DEF Creating, Others
  <2>3. docker[req[r].net].user = req[r].user
    BY <1>1 DEF MirrorInv, MakingInv, Making, Fresh
  <2>4. CASE u # req[r].user
    <3>1. NetworksOf(u)' \subseteq NetworksOf(u)
      BY <1>1, <1>3, <2>3, <2>4 DEF NetworksOf
    <3>2. Bound(u) /\ faults <= faults'
      BY <1>1 DEF NetworkOvershoot, Bound
    <3>3. Creating(u)' \subseteq Creating(u)
      BY <2>2
    <3>4. QED
      BY <3>1, <3>2, <3>3, SameBound
  <2>5. CASE u = req[r].user
    <3>1. PICK A : A = NetworksOf(u)'
      OBVIOUS
    <3>2. PICK B : B = Creating(u)'
      OBVIOUS
    <3>3. A \in SUBSET (NetworksOf(u) \cup {req[r].net})
      BY <1>1, <1>3, <3>1 DEF NetworksOf
    <3>4. r \in Creating(u) /\ B \in SUBSET (Creating(u) \ {r})
      BY <1>1, <2>2, <2>5, <3>2 DEF Creating
    <3>5. /\ IsFiniteSet(NetworksOf(u)) /\ IsFiniteSet(Creating(u))
          /\ Cardinality(Requests) \in Nat /\ MaxNetworks \in Nat \ {0}
      BY Counts
    <3>6. /\ Cardinality(A) <= Cardinality(NetworksOf(u)) + 1
          /\ Cardinality(NetworksOf(u)) \in Nat /\ Cardinality(A) \in Nat
      BY <3>3, <3>5, OneMore
    <3>7. /\ Cardinality(B) + 1 <= Cardinality(Creating(u))
          /\ Cardinality(Creating(u)) \in Nat /\ Cardinality(B) \in Nat
      BY <3>4, <3>5, OneLess
    <3>8. Cardinality(NetworksOf(u)) + Cardinality(Creating(u))
            <= MaxNetworks - 1 + Cardinality(Requests) + faults
      BY DEF NetworkOvershoot
    <3>9. Cardinality(A) + Cardinality(B) <= MaxNetworks - 1 + Cardinality(Requests) + faults
      BY <1>1, <3>5, <3>6, <3>7, <3>8
    <3>10. QED
      BY <1>1, <3>1, <3>2, <3>9 DEF Bound
  <2>6. QED
    BY <2>4, <2>5
<1>4. QED
  BY <1>2, <1>3 DEF InsertNetwork

\* Steps that change Docker's networks, or rows: labels stay.
LEMMA DockerQuota ==
    ASSUME IInv, IInv', NEW r \in Requests,
           \/ NetworkCreate(r) \/ UndoCreate(r) \/ NetworkRemove(r) \/ DeleteNetworkRow(r)
    PROVE  SameQuota(r)
<1>1. /\ networks' \subseteq networks /\ faults' = faults /\ faults \in Nat
      /\ networks \subseteq Nets /\ docker \in [Nets -> Net]
  BY DEF NetworkCreate, UndoCreate, NetworkRemove, DeleteNetworkRow, tableVars,
         boundVars, IInv, NetworksTypeOK
<1>2. \A n \in networks : docker'[n].user = docker[n].user
  <2>1. CASE DeleteNetworkRow(r)
    BY <2>1 DEF DeleteNetworkRow, dockerVars
  <2>2. CASE UndoCreate(r) \/ NetworkRemove(r)
    <3>1. PICK m : docker' = docker \/ docker' = [docker EXCEPT ![m].state = "gone"]
      BY <2>2 DEF UndoCreate, NetworkRemove
    <3>2. QED
      BY <1>1, <3>1 DEF Net
  <2>3. CASE NetworkCreate(r)
    <3>1. CASE docker' = docker
      BY <3>1
    <3>2. CASE docker' # docker
      <4>1. PICK m \in Unborn : docker' = [docker EXCEPT ![m] =
              [state |-> "live", user |-> req[r].user, name |-> req[r].name]]
        BY <2>3, <3>2 DEF NetworkCreate
      <4>2. m \notin networks
        BY DEF Unborn, IInv, RowsInv, Born
      <4>3. QED
        BY <1>1, <4>1, <4>2
    <3>3. QED
      BY <3>1, <3>2
  <2>4. QED
    BY <2>1, <2>2, <2>3
<1>3. /\ Others(r)
      /\ req'[r].pc \in Counted => req[r].pc \in Counted /\ req'[r].user = req[r].user
  <2>1. CASE Return(r)
    BY <2>1, ReturnFields DEF Counted
  <2>2. CASE Goto(r, "deleteNetwork")
    BY <2>2, GotoFields DEF Counted
  <2>3. ASSUME NEW n, req' = [req EXCEPT ![r].pc = "insert", ![r].net = n],
               req[r].pc = "create"
        PROVE  /\ Others(r)
               /\ req'[r].pc \in Counted =>
                    req[r].pc \in Counted /\ req'[r].user = req[r].user
    BY <2>3, TheRequest DEF Others, Counted, Request
  <2>4. QED
    BY <2>1, <2>2, <2>3 DEF NetworkCreate, UndoCreate, NetworkRemove, DeleteNetworkRow, At
<1>4. QED
  BY <1>1, <1>2, <1>3 DEF SameQuota

LEMMA NextQuota ==
    IInv /\ IInv' /\ MirrorInv /\ NetworkOvershoot /\ [Next]_vars => NetworkOvershoot'
<1> SUFFICES ASSUME IInv, IInv', MirrorInv, NetworkOvershoot, [Next]_vars
             PROVE  NetworkOvershoot'
  OBVIOUS
<1>1. ASSUME \A n \in networks' : n \in networks /\ docker'[n].user = docker[n].user,
             \A r \in Requests : \/ req'[r] = req[r]
                                 \/ req'[r].pc = "idle",
             faults' = faults
      PROVE  NetworkOvershoot'
  <2> SUFFICES ASSUME NEW u \in Users PROVE Bound(u)'
    BY DEF NetworkOvershoot, Bound
  <2>1. NetworksOf(u)' \subseteq NetworksOf(u)
    BY <1>1 DEF NetworksOf
  <2>2. Creating(u)' \subseteq Creating(u)
    BY <1>1 DEF Creating
  <2>3. Bound(u) /\ faults <= faults'
    BY <1>1 DEF NetworkOvershoot, Bound, IInv, NetworksTypeOK
  <2>4. QED
    BY <2>1, <2>2, <2>3, SameBound
<1>2. CASE UNCHANGED vars
  BY <1>1, <1>2 DEF vars
<1>3. ASSUME NEW r \in Requests, NEW u \in Users, NEW name \in NamesOf[u],
             BeginCreate(r, u, name)
      PROVE  NetworkOvershoot'
  BY <1>3, BeginCreateOrdinary, QuotaStep
<1>4. ASSUME NEW r \in Requests,
             \/ CountNetworks(r) \/ NetworkCreate(r) \/ InsertNetwork(r) \/ UndoCreate(r)
      PROVE  NetworkOvershoot'
  <2>1. CASE CountNetworks(r)
    <3>1. Goto(r, "create") \/ Return(r)
      BY <2>1 DEF CountNetworks
    <3>2. QED
      BY <2>1, <3>1, PassBound, CountOrdinary, QuotaStep
  <2>2. QED
    BY <1>4, <2>1, DockerQuota, QuotaStep, InsertBound
<1>5. ASSUME NEW r \in Requests, NEW u \in Users, NEW n \in Nets, NEW c \in Containers,
             \/ ConnectContainer(r, u, n, c) \/ DisconnectContainer(r, u, n, c)
      PROVE  NetworkOvershoot'
  BY <1>5, LookupNetworkOrdinary, QuotaStep DEF ConnectContainer, DisconnectContainer
<1>6. ASSUME NEW r \in Requests, NEW u \in Users, NEW n \in Nets, DeleteNetwork(r, u, n)
      PROVE  NetworkOvershoot'
  BY <1>6, LookupNetworkOrdinary, QuotaStep DEF DeleteNetwork
<1>7. ASSUME NEW r \in Requests,
             \/ LookupContainer(r) \/ NetworkConnect(r) \/ InsertMember(r)
             \/ NetworkDisconnect(r) \/ DeleteMember(r)
      PROVE  NetworkOvershoot'
  BY <1>7, LookupOrdinary, ConnectOrdinary, MemberOrdinary, QuotaStep
<1>8. ASSUME NEW r \in Requests,
             Inspect(r) \/ Detach(r) \/ NetworkRemove(r) \/ DeleteNetworkRow(r)
      PROVE  NetworkOvershoot'
  BY <1>8, LookupOrdinary, LoopOrdinary, DockerQuota, QuotaStep
<1>9. ASSUME NEW r \in Requests, NEW c \in Containers, RemoveContainer(r, c)
      PROVE  NetworkOvershoot'
  BY <1>9, RemoveContainerOrdinary, QuotaStep
<1>10. ASSUME NEW r \in Requests,
              \/ CollectNetworks(r) \/ DeleteContainerRow(r)
              \/ LeaveNetwork(r) \/ ContainerRemove(r)
       PROVE  NetworkOvershoot'
  BY <1>10, LookupOrdinary, DeleteContainerOrdinary, LoopOrdinary, QuotaStep
<1>11. ASSUME NEW r \in Requests, CallFails(r)
       PROVE  NetworkOvershoot'
  BY <1>11, FailBound, CallFailsOrdinary, QuotaStep
<1>12. ASSUME ServerCrash
       PROVE  NetworkOvershoot'
  BY <1>1, <1>12 DEF ServerCrash, dockerVars, tableVars, NoRequest
<1>13. ASSUME NEW u \in Leaving, DeleteUserByID(u)
       PROVE  NetworkOvershoot'
  BY <1>1, <1>13 DEF DeleteUserByID, dockerVars, boundVars
<1>14. ASSUME NEW c \in Containers, ContainerStops(c) \/ ContainerStarts(c)
       PROVE  NetworkOvershoot'
  BY <1>1, <1>14 DEF ContainerStops, ContainerStarts, tableVars, boundVars
<1>15. ASSUME NEW u \in Users, NEW l \in LimitsOf[u], UpdateUserPlan(u, l)
       PROVE  NetworkOvershoot'
  BY <1>1, <1>15 DEF UpdateUserPlan, dockerVars, boundVars
<1>16. QED
  BY <1>2, <1>3, <1>4, <1>5, <1>6, <1>7, <1>8, <1>9, <1>10, <1>11, <1>12,
     <1>13, <1>14, <1>15 DEF Next

\* However administrators change the plans, the networks of a user exceed the
\* max_networks of the largest plan by no more than the requests that pass the
\* check of CreateNetwork together, less one, and the counts that fail: for any
\* plans and any number of requests.
THEOREM NetworksBounded == Spec => []NetworkOvershoot
<1>1. Init => NetworkOvershoot
  <2> SUFFICES ASSUME Init, NEW u \in Users PROVE Bound(u)
    BY DEF NetworkOvershoot, Bound
  <2>1. NetworksOf(u) = {} /\ Creating(u) = {} /\ faults = 0
    BY DEF Init, NetworksOf, Creating, NoRequest
  <2>2. Cardinality({}) = 0
    BY FS_EmptySet
  <2>3. Cardinality(Requests) \in Nat /\ MaxNetworks \in Nat \ {0}
    BY NetworksAssumption, FS_CardinalityType
  <2>4. Cardinality(NetworksOf(u)) = 0 /\ Cardinality(Creating(u)) = 0
    BY <2>1, <2>2
  <2>5. QED
    BY <2>1, <2>3, <2>4 DEF Bound
<1>2. QED
  BY <1>1, NetworksInvariant, NetworksMirrored, NextQuota, PTL DEF Spec
=============================================================================
