----------------------- MODULE AppServerClientProofs -----------------------
(***************************************************************************)
(* For any number of goroutines, App Servers and calls: types are correct, *)
(* no running server is lost, a client observes one working directory      *)
(* between two closings, and an observation rests on its own answer.       *)
(***************************************************************************)
EXTENDS AppServerClient, TLAPS

Places == {"idle", "lock", "check", "use", "await", "close", "closing", "drain"}
Operations == {"none", "observe", "close", "initialize", "initialized"}
Initializing == {"initialize", "initialized"}

(* The parts of the state the arguments below are about.                    *)
Shape ==
    /\ transport \in 0..MaxOpens /\ opens \in 0..MaxOpens /\ closes \in Nat
    /\ initialized \in BOOLEAN
    /\ pc \in [Callers -> Places] /\ op \in [Callers -> Operations]
    /\ cwd \in [Callers -> Cwds \union {NoCwd}]
    /\ used \in [Callers -> 0..MaxOpens] /\ epoch \in [Callers -> Nat]
    /\ DOMAIN result = Callers
    /\ process \in [Servers -> {"none", "running", "gone"}]
    /\ closing \in [Servers -> {"no", "closing", "closed"}]

(* Which call a caller can be in where it is.                               *)
PlaceInv == \A c \in Callers :
    /\ pc[c] = "idle" <=> op[c] = "none"
    /\ pc[c] = "close" => op[c] = "close" /\ used[c] \in Servers
    /\ pc[c] \in {"check", "use"} => op[c] = "observe"
    /\ pc[c] \in {"await", "drain"} => op[c] # "close"
    /\ op[c] \in Initializing => pc[c] \in {"await", "closing", "drain"}

(* Whoever initializes the client holds its mutex and talks to its server.  *)
MutexInv == \A c \in Callers : op[c] \in Initializing =>
    /\ mu = c /\ ~initialized /\ used[c] = transport
    /\ op[c] = "initialized" => userAgent = transport

(* The callers the client has been initialized for.                         *)
Past(c) == op[c] = "observe" /\ pc[c] \notin {"idle", "lock"}

AgentInv == /\ initialized => userAgent = transport
            /\ \A c \in Callers :
                  Past(c) /\ epoch[c] = closes /\ pc[c] \in {"await", "closing", "drain"}
                    => used[c] = transport

(* What is, or is about to be, observed since the last closing is for the   *)
(* directory the client is initialized for; what belongs to one closing is  *)
(* for one directory.                                                       *)
EpochInv ==
    /\ \A x \in observed : /\ x[1] \in Nat /\ x[1] <= closes
                           /\ x[1] = closes => initialized /\ initializedCWD = x[2]
    /\ \A c \in Callers : Past(c) => /\ epoch[c] <= closes
                                     /\ epoch[c] = closes => initialized /\ initializedCWD = cwd[c]
DirectoryInv ==
    /\ BindsCwd
    /\ \A x \in observed, c \in Callers : Past(c) /\ x[1] = epoch[c] => x[2] = cwd[c]
    /\ \A c, d \in Callers : Past(c) /\ Past(d) /\ epoch[c] = epoch[d] => cwd[c] = cwd[d]

(* Servers are started in order.                                            *)
ServerInv == /\ transport <= opens
             /\ \A t \in Servers : t > opens => process[t] = "none"
             /\ NoServerIsLost

ClientInv == Shape /\ PlaceInv /\ MutexInv /\ AgentInv /\ EpochInv /\ DirectoryInv /\ ServerInv

LEMMA Bounds == MaxOpens \in Nat /\ "free" \notin Callers
  BY CountsAssumption, CallersAssumption

LEMMA Initially == Init => ClientInv
<1>. SUFFICES ASSUME Init PROVE ClientInv
  OBVIOUS
<1>1. Shape
  <2>1. transport \in 0..MaxOpens /\ opens \in 0..MaxOpens /\ closes \in Nat
    BY Bounds DEF Init
  <2>6. initialized \in BOOLEAN
    BY DEF Init
  <2>2. pc \in [Callers -> Places] /\ op \in [Callers -> Operations] /\ DOMAIN result = Callers
    BY DEF Init, Places, Operations
  <2>3. cwd \in [Callers -> Cwds \union {NoCwd}] /\ epoch \in [Callers -> Nat]
    BY DEF Init
  <2>4. used \in [Callers -> 0..MaxOpens]
    BY Bounds DEF Init
  <2>5. process \in [Servers -> {"none", "running", "gone"}] /\ closing \in [Servers -> {"no", "closing", "closed"}]
    BY DEF Init
  <2> QED BY <2>1, <2>2, <2>3, <2>4, <2>5, <2>6 DEF Shape
<1>2. PlaceInv /\ MutexInv /\ AgentInv
  BY DEF Init, PlaceInv, MutexInv, AgentInv, Initializing
<1>3. EpochInv /\ DirectoryInv
  BY DEF Init, EpochInv, DirectoryInv, BindsCwd, Past
<1>4. ServerInv
  BY Bounds DEF Init, ServerInv, NoServerIsLost, Servers
<1> QED BY <1>1, <1>2, <1>3, <1>4 DEF ClientInv

(* Nothing the invariant is about changes for the other callers.            *)
Others(c) == \A d \in Callers \ {c} :
    pc'[d] = pc[d] /\ op'[d] = op[d] /\ cwd'[d] = cwd[d] /\ used'[d] = used[d] /\ epoch'[d] = epoch[d]

CallerShape ==
    /\ pc \in [Callers -> Places] /\ op \in [Callers -> Operations]
    /\ cwd \in [Callers -> Cwds \union {NoCwd}]
    /\ used \in [Callers -> 0..MaxOpens] /\ epoch \in [Callers -> Nat]
    /\ DOMAIN result = Callers

(* A call that returns.                                                     *)
LEMMA Returning ==
    ASSUME Shape, NEW c \in Callers, NEW r, Return(c, r)
    PROVE  CallerShape' /\ Others(c) /\ pc'[c] = "idle" /\ op'[c] = "none"
<1>1. pc' \in [Callers -> Places] /\ op' \in [Callers -> Operations]
  BY DEF Return, Goto, Shape, Places, Operations
<1>2. cwd' \in [Callers -> Cwds \union {NoCwd}]
  BY DEF Return, Shape
<1>3. used' \in [Callers -> 0..MaxOpens] /\ epoch' \in [Callers -> Nat]
  BY Bounds DEF Return, Shape
<1>4. DOMAIN result' = Callers
  BY DEF Return, Shape
<1>5. Others(c) /\ pc'[c] = "idle" /\ op'[c] = "none"
  BY DEF Return, Goto, Shape, Others
<1> QED BY <1>1, <1>2, <1>3, <1>4, <1>5 DEF CallerShape

(* The first message of an initialization.                                  *)
LEMMA Exchanges ==
    ASSUME Shape, NEW c \in Callers, NEW t \in Servers, FirstExchange(t, c)
    PROVE  CallerShape' /\ Others(c) /\ pc'[c] = "await" /\ op'[c] = "initialize" /\ used'[c] = t /\ mu' = c
<1>1. pc' \in [Callers -> Places] /\ op' \in [Callers -> Operations]
  BY DEF FirstExchange, ExchangeOver, Goto, Shape, Places, Operations
<1>2. used' \in [Callers -> 0..MaxOpens]
  BY Bounds DEF FirstExchange, ExchangeOver, Shape, Servers
<1>3. UNCHANGED <<cwd, epoch, result>> /\ mu' = c
  BY DEF FirstExchange
<1>4. Others(c) /\ pc'[c] = "await" /\ op'[c] = "initialize" /\ used'[c] = t
  BY DEF FirstExchange, ExchangeOver, Goto, Shape, Others
<1> QED BY <1>1, <1>2, <1>3, <1>4 DEF CallerShape, Shape

(* A call that returns changes nothing else that matters, or releases the   *)
(* mutex its initialization held.                                           *)
LEMMA ReturnKeeps ==
    ASSUME ClientInv, NEW c \in Callers, NEW r, Return(c, r), pc[c] # "close",
           UNCHANGED <<transport, initialized, initializedCWD, userAgent, opens, closes, observed, process>>,
           closing' \in [Servers -> {"no", "closing", "closed"}],
           \A t \in Servers : closing'[t] = "no" => closing[t] = "no",
           mu' = mu \/ op[c] \in Initializing
    PROVE  ClientInv'
<1>. CallerShape' /\ Others(c) /\ pc'[c] = "idle" /\ op'[c] = "none"
  BY Returning DEF ClientInv
<1>a. \A d \in Callers : Past(d)' => d # c /\ Past(d) /\ cwd'[d] = cwd[d] /\ epoch'[d] = epoch[d]
  BY DEF Past, Others
<1>1. Shape'
  BY DEF CallerShape, ClientInv, Shape
<1>2. PlaceInv'
  BY DEF Others, ClientInv, PlaceInv, Initializing
<1>3. MutexInv'
  BY Bounds DEF Others, ClientInv, MutexInv, Initializing
<1>4. AgentInv'
  BY <1>a DEF AgentInv, ClientInv, Others
<1>5. EpochInv'
  BY <1>a DEF EpochInv, ClientInv
<1>6. DirectoryInv'
  BY <1>a DEF DirectoryInv, ClientInv, BindsCwd
<1>7. ServerInv'
  <2>1. \A d \in Callers : pc[d] = "close" => pc'[d] = "close" /\ used'[d] = used[d]
    BY DEF Others
  <2> QED BY <2>1 DEF ServerInv, ClientInv, NoServerIsLost
<1> QED BY <1>1, <1>2, <1>3, <1>4, <1>5, <1>6, <1>7 DEF ClientInv

LEMMA TakeTransportKeeps ==
    ASSUME ClientInv, NEW c \in Callers, TakeTransport(c)
    PROVE  ClientInv'
<1>. DEFINE gone == transport # 0 /\ pc'[c] = "close" /\ op'[c] = "close" /\ used'[c] = transport
<1>a. CallerShape' /\ Others(c) /\ ((transport = 0 /\ pc'[c] = "idle" /\ op'[c] = "none") \/ gone)
  <2>1. CASE transport = 0
    BY <2>1, Returning DEF TakeTransport, ClientInv
  <2>2. CASE transport # 0
    <3>1. /\ pc' = [pc EXCEPT ![c] = "close"] /\ used' = [used EXCEPT ![c] = transport]
          /\ UNCHANGED <<op, cwd, epoch, result>> /\ op[c] = "close"
      BY <2>2 DEF TakeTransport, Goto
    <3> QED BY <2>2, <3>1 DEF CallerShape, Others, ClientInv, Shape, Places
  <2> QED BY <2>1, <2>2
<1>b. /\ transport' = 0 /\ initialized' = FALSE /\ initializedCWD' = NoCwd /\ closes' = closes + 1 /\ mu = "free"
      /\ UNCHANGED <<userAgent, opens, observed, process, closing, mu>>
  BY DEF TakeTransport, servers
<1>c. \A d \in Callers : op[d] \notin Initializing
  BY <1>b, Bounds DEF ClientInv, MutexInv
<1>d. \A d \in Callers : Past(d)' => d # c /\ Past(d) /\ cwd'[d] = cwd[d] /\ epoch'[d] = epoch[d]
  BY <1>a DEF Past, Others, gone
<1>1. Shape'
  <2>1. CallerShape'
    BY <1>a
  <2>2. transport' \in 0..MaxOpens /\ opens' \in 0..MaxOpens /\ closes' \in Nat
    BY <1>b, Bounds DEF ClientInv, Shape
  <2> QED BY <1>b, <2>1, <2>2 DEF CallerShape, ClientInv, Shape
<1>2. PlaceInv'
  BY <1>a, <1>c DEF Others, ClientInv, PlaceInv, Shape, Initializing, Servers
<1>3. MutexInv'
  BY <1>a, <1>c DEF Others, MutexInv, Initializing
<1>4. AgentInv'
  BY <1>b, <1>d DEF AgentInv, ClientInv, EpochInv, Shape
<1>5. EpochInv'
  BY <1>b, <1>d DEF EpochInv, ClientInv, Shape
<1>6. DirectoryInv'
  BY <1>b, <1>d DEF DirectoryInv, ClientInv, BindsCwd
<1>7. ServerInv'
  <2>1. transport' <= opens' /\ \A t \in Servers : t > opens' => process'[t] = "none"
    BY <1>b, Bounds DEF ServerInv, ClientInv, Shape
  <2>2. ASSUME NEW t \in Servers, process'[t] = "running", closing'[t] = "no"
        PROVE  \E d \in Callers : pc'[d] = "close" /\ used'[d] = t
    <3>1. CASE t = transport
      BY <1>a, <3>1, Bounds DEF Servers
    <3>2. CASE \E d \in Callers : pc[d] = "close" /\ used[d] = t
      <4>1. PICK d \in Callers : pc[d] = "close" /\ used[d] = t
        BY <3>2
      <4>2. d # c
        BY <4>1 DEF TakeTransport, At
      <4> QED BY <1>a, <4>1, <4>2 DEF Others
    <3> QED BY <1>b, <2>2, <3>1, <3>2 DEF ClientInv, ServerInv, NoServerIsLost
  <2> QED BY <2>1, <2>2 DEF ServerInv, NoServerIsLost
<1> QED BY <1>1, <1>2, <1>3, <1>4, <1>5, <1>6, <1>7 DEF ClientInv

(* The client is initialized already, for the same working directory.       *)
LEMMA ChecksKeeps ==
    ASSUME ClientInv, NEW c \in Callers, pc[c] = "lock", op[c] = "observe", initialized, initializedCWD = cwd[c],
           Goto(c, "check"), epoch' = [epoch EXCEPT ![c] = closes],
           UNCHANGED <<client, op, cwd, used, result, process, opens, closing, closes, observed>>
    PROVE  ClientInv'
<1>a. CallerShape' /\ Others(c) /\ pc'[c] = "check" /\ op'[c] = "observe" /\ epoch'[c] = closes /\ cwd'[c] = cwd[c]
  BY DEF Goto, ClientInv, Shape, CallerShape, Others, Places
<1>b. UNCHANGED <<transport, initialized, initializedCWD, userAgent, mu>>
  BY DEF client
<1>c. \A d \in Callers : Past(d)' => \/ d = c
                                     \/ d # c /\ Past(d) /\ cwd'[d] = cwd[d] /\ epoch'[d] = epoch[d]
  BY <1>a DEF Past, Others
<1>1. Shape'
  BY <1>a, <1>b DEF CallerShape, ClientInv, Shape
<1>2. PlaceInv'
  BY <1>a DEF Others, ClientInv, PlaceInv
<1>3. MutexInv'
  BY DEF ClientInv, MutexInv
<1>4. AgentInv'
  BY <1>a, <1>b, <1>c DEF AgentInv, ClientInv, Others
<1>5. EpochInv'
  BY <1>b, <1>c DEF EpochInv, ClientInv, Shape
<1>6. DirectoryInv'
  BY <1>a, <1>c DEF DirectoryInv, EpochInv, ClientInv, BindsCwd
<1>7. ServerInv'
  BY <1>a, <1>b DEF ServerInv, ClientInv, Others, NoServerIsLost
<1> QED BY <1>1, <1>2, <1>3, <1>4, <1>5, <1>6, <1>7 DEF ClientInv

(* An initialization begins, with a server there is or one just started.    *)
LEMMA BeginsKeeps ==
    ASSUME ClientInv, NEW c \in Callers, NEW t \in Servers, pc[c] = "lock", op[c] = "observe", mu = "free",
           ~initialized, FirstExchange(t, c), transport' = t,
           UNCHANGED <<initialized, initializedCWD, userAgent, closing, closes, observed>>,
           \/ t = transport /\ UNCHANGED <<opens, process>>
           \/ /\ transport = 0 /\ t = opens + 1 /\ opens' = opens + 1 /\ opens < MaxOpens
              /\ process' = [process EXCEPT ![t] = "running"]
    PROVE  ClientInv'
<1>a. CallerShape' /\ Others(c) /\ pc'[c] = "await" /\ op'[c] = "initialize" /\ used'[c] = t /\ mu' = c
  BY Exchanges DEF ClientInv
<1>b. \A d \in Callers : op[d] \notin Initializing
  BY Bounds DEF ClientInv, MutexInv
<1>c. \A d \in Callers : Past(d)' => d # c /\ Past(d) /\ cwd'[d] = cwd[d] /\ epoch'[d] = epoch[d]
  BY <1>a DEF Past, Others
<1>1. Shape'
  BY <1>a DEF CallerShape, ClientInv, Shape
<1>2. PlaceInv'
  BY <1>a DEF Others, ClientInv, PlaceInv
<1>3. MutexInv'
  BY <1>a, <1>b DEF Others, MutexInv, Initializing
<1>4. AgentInv'
  BY <1>c DEF AgentInv, ClientInv, EpochInv, Shape
<1>5. EpochInv'
  BY <1>c DEF EpochInv, ClientInv, Shape
<1>6. DirectoryInv'
  BY <1>c DEF DirectoryInv, ClientInv, BindsCwd
<1>7. ServerInv'
  <2>1. opens \in Nat /\ process \in [Servers -> {"none", "running", "gone"}]
    BY Bounds DEF ClientInv, Shape
  <2>2. \A d \in Callers : pc[d] = "close" => pc'[d] = "close" /\ used'[d] = used[d]
    BY <1>a DEF Others
  <2>3. CASE t = transport /\ UNCHANGED <<opens, process>>
    BY <2>2, <2>3 DEF ServerInv, ClientInv, NoServerIsLost
  <2>4. CASE /\ transport = 0 /\ t = opens + 1 /\ opens' = opens + 1 /\ opens < MaxOpens
             /\ process' = [process EXCEPT ![t] = "running"]
    <3>1. transport' <= opens' /\ \A s \in Servers : s > opens' => process'[s] = "none"
      BY <2>1, <2>4 DEF ServerInv, ClientInv
    <3>2. \A s \in Servers : s = t \/ (process'[s] = process[s] /\ s # transport)
      BY <2>1, <2>4, Bounds DEF Servers
    <3> QED BY <2>2, <3>1, <3>2 DEF ServerInv, ClientInv, NoServerIsLost
  <2> QED BY <2>3, <2>4
<1> QED BY <1>1, <1>2, <1>3, <1>4, <1>5, <1>6, <1>7 DEF ClientInv

LEMMA InitializeKeeps ==
    ASSUME ClientInv, NEW c \in Callers, Initialize(c)
    PROVE  ClientInv'
<1>a. /\ pc[c] = "lock" /\ op[c] = "observe" /\ mu = "free"
      /\ UNCHANGED <<closing, closes, observed>>
  BY DEF Initialize, At
<1>b. closing' \in [Servers -> {"no", "closing", "closed"}] /\ (\A t \in Servers : closing'[t] = "no" => closing[t] = "no")
  BY <1>a DEF ClientInv, Shape
<1>1. CASE Initialized(c)
  <2>1. UNCHANGED <<client, process, opens>> /\ initialized
    BY <1>1 DEF Initialized
  <2>2. CASE initializedCWD # cwd[c]
    <3>1. Return(c, Returned("failed"))
      BY <1>1, <2>2 DEF Initialized
    <3> QED BY <1>a, <1>b, <2>1, <3>1, ReturnKeeps DEF client
  <2>3. CASE initializedCWD = cwd[c]
    <3>1. Goto(c, "check") /\ epoch' = [epoch EXCEPT ![c] = closes] /\ UNCHANGED <<op, cwd, used, result>>
      BY <1>1, <2>3 DEF Initialized
    <3> QED BY <1>a, <2>1, <2>3, <3>1, ChecksKeeps
  <2> QED BY <2>2, <2>3
<1>2. CASE ~initialized
  <2>1. UNCHANGED <<initialized, initializedCWD, userAgent>>
    BY <1>2 DEF Initialize, Initialized
  <2>2. CASE transport # 0 /\ FirstExchange(transport, c) /\ UNCHANGED <<opens, transport, process>>
    <3>1. transport \in Servers
      BY <2>2, Bounds DEF ClientInv, Shape, Servers
    <3> QED BY <1>2, <1>a, <2>1, <2>2, <3>1, BeginsKeeps
  <2>3. CASE transport = 0 /\ Open(c)
    <3>1. CASE Return(c, Returned("failed")) /\ UNCHANGED <<opens, transport, process, mu, nextID, io>>
      BY <1>a, <1>b, <2>1, <3>1, ReturnKeeps
    <3>2. CASE /\ opens < MaxOpens /\ opens' = opens + 1 /\ transport' = opens + 1
               /\ process' = [process EXCEPT ![opens + 1] = "running"]
               /\ FirstExchange(opens + 1, c)
      <4>1. opens + 1 \in Servers
        BY <3>2, Bounds DEF ClientInv, Shape, Servers
      <4> QED BY <1>2, <1>a, <2>1, <2>3, <3>2, <4>1, BeginsKeeps
    <3> QED BY <2>3, <3>1, <3>2 DEF Open
  <2> QED BY <1>2, <2>2, <2>3 DEF Initialize, Initialized
<1> QED BY <1>1, <1>2 DEF Initialize

LEMMA LookAtTransportKeeps ==
    ASSUME ClientInv, NEW c \in Callers, LookAtTransport(c)
    PROVE  ClientInv'
<1>a. /\ pc[c] = "check"
      /\ UNCHANGED <<transport, initialized, initializedCWD, userAgent, mu, opens, closes, observed, process, closing>>
  BY DEF LookAtTransport, At, client, servers, bounds
<1>1. CASE transport = 0
  <2>1. Return(c, Returned("failed"))
    BY <1>1 DEF LookAtTransport
  <2> QED BY <1>a, <2>1, ReturnKeeps DEF ClientInv, Shape
<1>2. CASE transport # 0
  <2>. Goto(c, "use") /\ UNCHANGED <<op, cwd, used, epoch, result>>
    BY <1>2 DEF LookAtTransport, Remain
  <2>. pc[c] = "check" /\ UNCHANGED <<transport, initialized, initializedCWD, userAgent, mu, opens, closes, observed, process, closing>>
    BY <1>a
  <2>1. Shape'
    BY DEF Shape, Places, ClientInv, Goto
  <2>2. PlaceInv'
    BY DEF PlaceInv, ClientInv, Goto
  <2>3. MutexInv'
    BY DEF MutexInv, ClientInv
  <2>4. AgentInv'
    BY DEF AgentInv, Past, ClientInv, Goto
  <2>5. EpochInv'
    BY DEF EpochInv, Past, ClientInv, Goto
  <2>6. DirectoryInv'
    BY DEF DirectoryInv, BindsCwd, Past, ClientInv, Goto
  <2>7. ServerInv'
    BY DEF ServerInv, NoServerIsLost, ClientInv, Goto
  <2> QED BY <2>1, <2>2, <2>3, <2>4, <2>5, <2>6, <2>7 DEF ClientInv
<1> QED BY <1>1, <1>2

LEMMA CallKeeps ==
    ASSUME ClientInv, NEW c \in Callers, Call(c)
    PROVE  ClientInv'
<1>1. Shape'
  <2>1. pc' \in [Callers -> Places] /\ op' \in [Callers -> Operations]
    BY DEF Call, Goto, ClientInv, Shape, Places, Operations
  <2> QED BY <2>1 DEF Call, ClientInv, Shape, client, servers, history
<1>2. PlaceInv'
  BY DEF PlaceInv, Initializing, ClientInv, Shape, Call, Goto
<1>3. MutexInv'
  BY DEF MutexInv, Initializing, ClientInv, Shape, Call, client
<1>4. AgentInv'
  BY DEF AgentInv, Past, ClientInv, Shape, Call, Goto, client, history
<1>5. EpochInv'
  BY DEF EpochInv, Past, ClientInv, Shape, Call, Goto, client, history
<1>6. DirectoryInv'
  BY DEF DirectoryInv, BindsCwd, Past, ClientInv, Shape, Call, Goto, history
<1>7. ServerInv'
  BY DEF ServerInv, NoServerIsLost, ClientInv, Call, Goto, At, client, servers
<1> QED BY <1>1, <1>2, <1>3, <1>4, <1>5, <1>6, <1>7 DEF ClientInv

LEMMA UseTransportKeeps ==
    ASSUME ClientInv, NEW c \in Callers, UseTransport(c)
    PROVE  ClientInv'
<1>1. Shape'
  <2>1. pc' \in [Callers -> Places]
    BY DEF UseTransport, ExchangeOver, Goto, ClientInv, Shape, Places
  <2>2. used' \in [Callers -> 0..MaxOpens]
    BY DEF UseTransport, ExchangeOver, ClientInv, Shape
  <2> QED BY <2>1, <2>2 DEF UseTransport, ClientInv, Shape, servers, bounds, history
<1>2. PlaceInv'
  <2>1. UNCHANGED op /\ Others(c) /\ pc'[c] \in {"use", "await"} /\ pc[c] = "use"
    BY DEF UseTransport, ExchangeOver, At, Goto, history, ClientInv, Shape, Others
  <2> QED BY <2>1 DEF ClientInv, PlaceInv, Others
<1>3. MutexInv'
  BY DEF MutexInv, ClientInv, Shape, UseTransport, ExchangeOver
<1>4. AgentInv'
  BY DEF AgentInv, Past, ClientInv, Shape, UseTransport, ExchangeOver, Goto, bounds, history
<1>5. EpochInv'
  BY DEF EpochInv, Past, ClientInv, Shape, UseTransport, ExchangeOver, At, Goto, bounds,
      history
<1>6. DirectoryInv'
  <2>1. \A d \in Callers : Past(d)' => Past(d)
    BY DEF UseTransport, ExchangeOver, At, Goto, ClientInv, Shape, Past
  <2>2. UNCHANGED <<cwd, epoch, observed>>
    BY DEF UseTransport, history
  <2> QED BY <2>1, <2>2 DEF ClientInv, DirectoryInv, BindsCwd
<1>7. ServerInv'
  BY DEF ServerInv, NoServerIsLost, ClientInv, Shape, UseTransport, ExchangeOver, At, Goto,
      servers, bounds
<1> QED BY <1>1, <1>2, <1>3, <1>4, <1>5, <1>6, <1>7 DEF ClientInv

LEMMA GiveUpKeeps ==
    ASSUME ClientInv, NEW c \in Callers, GiveUp(c)
    PROVE  ClientInv'
<1>1. Shape'
  BY DEF Shape, Places, ClientInv, GiveUp, CloseTransport, At, Goto, client, bounds, history
<1>2. PlaceInv'
  BY DEF PlaceInv, ClientInv, GiveUp, CloseTransport, At, Goto
<1>3. MutexInv'
  BY DEF MutexInv, ClientInv, GiveUp, CloseTransport, client
<1>4. AgentInv'
  BY DEF AgentInv, Past, ClientInv, GiveUp, CloseTransport, At, Goto, client, bounds, history
<1>5. EpochInv'
  BY DEF EpochInv, Past, ClientInv, GiveUp, CloseTransport, At, Goto, client, bounds, history
<1>6. DirectoryInv'
  BY DEF DirectoryInv, BindsCwd, Past, ClientInv, GiveUp, CloseTransport, At, Goto, history
<1>7. ServerInv'
  BY DEF ServerInv, NoServerIsLost, ClientInv, Shape, GiveUp, CloseTransport, Goto, client,
      bounds
<1> QED BY <1>1, <1>2, <1>3, <1>4, <1>5, <1>6, <1>7 DEF ClientInv

LEMMA BeginCloseKeeps ==
    ASSUME ClientInv, NEW c \in Callers, BeginClose(c)
    PROVE  ClientInv'
<1>1. Shape'
  BY DEF Shape, Places, ClientInv, BeginClose, CloseTransport, At, Goto, client, bounds,
      history
<1>2. PlaceInv'
  BY DEF PlaceInv, ClientInv, BeginClose, CloseTransport, At, Goto
<1>3. MutexInv'
  BY DEF MutexInv, ClientInv, BeginClose, CloseTransport, client
<1>4. AgentInv'
  BY DEF AgentInv, PlaceInv, Past, ClientInv, BeginClose, CloseTransport, At, Goto, client,
      bounds, history
<1>5. EpochInv'
  BY DEF EpochInv, Past, ClientInv, BeginClose, CloseTransport, At, Goto, client, bounds,
      history
<1>6. DirectoryInv'
  BY DEF DirectoryInv, BindsCwd, Past, ClientInv, BeginClose, CloseTransport, At, Goto, history
<1>7. ServerInv'
  BY DEF ServerInv, NoServerIsLost, ClientInv, Shape, BeginClose, CloseTransport, Goto,
      client, bounds
<1> QED BY <1>1, <1>2, <1>3, <1>4, <1>5, <1>6, <1>7 DEF ClientInv

LEMMA ServerReadyKeeps ==
    ASSUME ClientInv, NEW c \in Callers, ServerReady(c)
    PROVE  ClientInv'
<1>1. Shape'
  BY DEF Shape, Operations, ClientInv, ServerReady, Answered, Exchanged, servers, bounds,
      history
<1>2. PlaceInv'
  BY DEF PlaceInv, Initializing, ClientInv, ServerReady
<1>3. MutexInv'
  BY DEF MutexInv, Initializing, ClientInv, ServerReady
<1>4. AgentInv'
  BY DEF AgentInv, MutexInv, Past, Initializing, ClientInv, ServerReady, Answered,
      Exchanged, bounds, history
<1>5. EpochInv'
  BY DEF EpochInv, Past, ClientInv, ServerReady, Answered, Exchanged, bounds, history
<1>6. DirectoryInv'
  BY DEF DirectoryInv, BindsCwd, Past, ClientInv, ServerReady, history
<1>7. ServerInv'
  BY DEF ServerInv, NoServerIsLost, ClientInv, ServerReady, Answered, Exchanged, servers,
      bounds
<1> QED BY <1>1, <1>2, <1>3, <1>4, <1>5, <1>6, <1>7 DEF ClientInv

LEMMA ClientReadyKeeps ==
    ASSUME ClientInv, NEW c \in Callers, ClientReady(c)
    PROVE  ClientInv'
<1>1. Shape'
  BY DEF Shape, Places, Operations, ClientInv, ClientReady, Answered, Exchanged, Goto,
      servers, bounds
<1>2. PlaceInv'
  BY DEF PlaceInv, Initializing, ClientInv, Shape, ClientReady, Goto
<1>3. MutexInv'
  BY DEF MutexInv, Initializing, ClientInv, Shape, ClientReady
<1>4. AgentInv'
  BY DEF AgentInv, MutexInv, Past, Initializing, ClientInv, ClientReady, Answered,
      Exchanged, Goto, bounds
<1>5. EpochInv'
  BY DEF EpochInv, MutexInv, Past, Initializing, ClientInv, Shape, ClientReady, Answered,
      Exchanged, Goto, bounds
<1>6. DirectoryInv'
  BY DEF DirectoryInv, EpochInv, MutexInv, BindsCwd, Past, Initializing, ClientInv, Shape,
      ClientReady, Goto
<1>7. ServerInv'
  BY DEF ServerInv, PlaceInv, NoServerIsLost, ClientInv, ClientReady, Answered, Exchanged,
      Goto, servers, bounds
<1> QED BY <1>1, <1>2, <1>3, <1>4, <1>5, <1>6, <1>7 DEF ClientInv

LEMMA ObservedKeeps ==
    ASSUME ClientInv, NEW c \in Callers, Observed(c)
    PROVE  ClientInv'
<1>1. Shape'
  BY Bounds DEF Shape, Places, Operations, ClientInv, Observed, Answered, Exchanged, Goto,
      Return, client, servers, bounds
<1>2. PlaceInv'
  BY DEF PlaceInv, Initializing, ClientInv, Shape, Observed, Goto, Return
<1>3. MutexInv'
  BY DEF MutexInv, Initializing, ClientInv, Observed, Return, client
<1>4. AgentInv'
  BY DEF AgentInv, Past, ClientInv, Shape, Observed, Answered, Exchanged, Goto, Return,
      client, bounds
<1>5. EpochInv'
  <2>1. Past(c) /\ observed' = observed \union {<<epoch[c], cwd[c]>>}
        /\ UNCHANGED <<initialized, initializedCWD, closes>>
    BY DEF Observed, Answered, Exchanged, At, Past, client, bounds
  <2>2. \A d \in Callers : Past(d)' => Past(d) /\ cwd'[d] = cwd[d] /\ epoch'[d] = epoch[d]
    BY DEF Observed, Return, Goto, ClientInv, Shape, Past
  <2> QED BY <2>1, <2>2 DEF ClientInv, EpochInv, Shape
<1>6. DirectoryInv'
  BY DEF DirectoryInv, BindsCwd, Past, ClientInv, Shape, Observed, Answered, Exchanged, At,
      Goto, Return
<1>7. ServerInv'
  BY DEF ServerInv, PlaceInv, NoServerIsLost, ClientInv, Observed, Answered, Exchanged,
      Goto, Return, client, servers, bounds
<1> QED BY <1>1, <1>2, <1>3, <1>4, <1>5, <1>6, <1>7 DEF ClientInv

LEMMA ExitKeeps ==
    ASSUME ClientInv, NEW t \in Servers, Exit(t)
    PROVE  ClientInv'
<1>1. Shape'
  BY DEF Shape, ClientInv, Exit, Server, client, callers, history
<1>2. PlaceInv'
  BY DEF PlaceInv, ClientInv, Exit, Server, callers
<1>3. MutexInv'
  BY DEF MutexInv, ClientInv, Exit, Server, client, callers
<1>4. AgentInv'
  BY DEF AgentInv, Past, ClientInv, Exit, Server, client, callers, history
<1>5. EpochInv'
  BY DEF EpochInv, Past, ClientInv, Exit, Server, client, callers, history
<1>6. DirectoryInv'
  BY DEF DirectoryInv, BindsCwd, Past, ClientInv, Exit, Server, callers, history
<1>7. ServerInv'
  BY DEF ServerInv, NoServerIsLost, ClientInv, Exit, Server, client, callers
<1> QED BY <1>1, <1>2, <1>3, <1>4, <1>5, <1>6, <1>7 DEF ClientInv

LEMMA EndCloseKeeps ==
    ASSUME ClientInv, NEW c \in Callers, EndClose(c)
    PROVE  ClientInv'
<1>a. /\ pc[c] = "closing" /\ closing' = [closing EXCEPT ![used[c]] = "closed"]
      /\ UNCHANGED <<transport, initialized, initializedCWD, userAgent, mu, opens, closes, observed, process>>
  BY DEF EndClose, At, client, bounds
<1>b. closing' \in [Servers -> {"no", "closing", "closed"}] /\ (\A t \in Servers : closing'[t] = "no" => closing[t] = "no")
  BY <1>a DEF ClientInv, Shape
<1>1. CASE op[c] = "close"
  <2>1. Return(c, Returned("closed"))
    BY <1>1 DEF EndClose
  <2> QED BY <1>a, <1>b, <2>1, ReturnKeeps
<1>2. CASE op[c] # "close"
  <2>. Goto(c, "drain") /\ UNCHANGED <<op, cwd, used, epoch, result>>
    BY <1>2 DEF EndClose, Remain
  <2>1. Shape'
    BY <1>a DEF Shape, Places, ClientInv, Goto
  <2>2. PlaceInv'
    BY <1>2, <1>a DEF PlaceInv, ClientInv, Goto
  <2>3. MutexInv'
    BY <1>a DEF MutexInv, ClientInv
  <2>4. AgentInv'
    BY <1>a DEF AgentInv, Past, ClientInv, Goto
  <2>5. EpochInv'
    BY <1>a DEF EpochInv, Past, ClientInv, Goto
  <2>6. DirectoryInv'
    BY <1>a DEF DirectoryInv, BindsCwd, Past, ClientInv, Goto
  <2>7. ServerInv'
    BY <1>a DEF ServerInv, NoServerIsLost, ClientInv, Goto
  <2> QED BY <2>1, <2>2, <2>3, <2>4, <2>5, <2>6, <2>7 DEF ClientInv
<1> QED BY <1>1, <1>2

LEMMA FailsKeeps ==
    ASSUME ClientInv, NEW c \in Callers, NEW s, pc[c] \in {"await", "drain"}, Fails(c, s), UNCHANGED <<servers, bounds>>
    PROVE  ClientInv'
<1>1. Return(c, Returned(s)) /\ pc[c] # "close"
  BY DEF Fails
<1>2. UNCHANGED <<transport, initialized, initializedCWD, userAgent, opens, closes, observed, process, closing>>
  BY DEF Fails, Release, client, servers, bounds
<1>3. mu' = mu \/ op[c] \in Initializing
  BY DEF Fails, client, ClientInv, PlaceInv, Shape, Operations, Initializing
<1> QED BY <1>1, <1>2, <1>3, ReturnKeeps DEF ClientInv, Shape

LEMMA DrainKeeps ==
    ASSUME ClientInv, NEW c \in Callers, Drain(c)
    PROVE  ClientInv'
  BY FailsKeeps DEF Drain, Exchanged, At

LEMMA RefusedKeeps ==
    ASSUME ClientInv, NEW c \in Callers, Refused(c)
    PROVE  ClientInv'
  BY FailsKeeps DEF Refused, Exchanged, At

(* What the other goroutines and the servers do leaves all of this alone.   *)
LEMMA QuietKeeps ==
    ASSUME ClientInv,
           UNCHANGED <<transport, initialized, initializedCWD, userAgent, mu, pc, op, cwd, used, epoch,
                       result, process, closing, opens, closes, observed>>
    PROVE  ClientInv'
<1>1. Shape' /\ PlaceInv' /\ MutexInv'
  BY DEF ClientInv, Shape, PlaceInv, MutexInv
<1>2. AgentInv' /\ EpochInv' /\ DirectoryInv'
  BY DEF ClientInv, AgentInv, EpochInv, DirectoryInv, BindsCwd, Past
<1>3. ServerInv'
  BY DEF ClientInv, ServerInv, NoServerIsLost
<1> QED BY <1>1, <1>2, <1>3 DEF ClientInv

LEMMA StepKeeps == ClientInv /\ [Next]_vars => ClientInv'
<1>. SUFFICES ASSUME ClientInv, [Next]_vars PROVE ClientInv'
  OBVIOUS
<1>1. CASE UNCHANGED vars
  BY <1>1, QuietKeeps DEF vars, client, callers, servers, bounds, history
<1>2. ASSUME NEW c \in Callers, Call(c) \/ Step(c) \/ Transfer(c) PROVE ClientInv'
  <2>1. CASE Call(c)
    BY <2>1, CallKeeps
  <2>2. CASE Step(c)
    BY <2>2, TakeTransportKeeps, InitializeKeeps, LookAtTransportKeeps, UseTransportKeeps,
        GiveUpKeeps, BeginCloseKeeps, EndCloseKeeps, DrainKeeps, RefusedKeeps,
        ServerReadyKeeps, ClientReadyKeeps, ObservedKeeps DEF Step
  <2>3. CASE Transfer(c)
    <3>1. Pipe(c)
      BY <2>3 DEF Transfer, Write, Read, ReadFails
    <3> QED BY <3>1, QuietKeeps DEF Pipe, client, bounds, history
  <2> QED BY <1>2, <2>1, <2>2, <2>3
<1>3. ASSUME NEW t \in Servers, Answer(t) \/ Stray(t) \/ Exit(t) PROVE ClientInv'
  <2>1. CASE Exit(t)
    BY <2>1, ExitKeeps
  <2>2. CASE Answer(t) \/ Stray(t)
    <3>1. Server /\ UNCHANGED process
      BY <2>2 DEF Answer, Stray
    <3> QED BY <3>1, QuietKeeps DEF Server, client, callers, history
  <2> QED BY <1>3, <2>1, <2>2
<1> QED BY <1>1, <1>2, <1>3 DEF Next

(* The inductive invariant holds, whatever the interleaving of goroutines   *)
(* and servers (appserver/client.go).                                       *)
THEOREM ClientInvariant == Spec => []ClientInv
<1>1. Init => ClientInv
  BY Initially
<1>2. ClientInv /\ [Next]_vars => ClientInv'
  BY StepKeeps
<1> QED BY <1>1, <1>2, PTL DEF Spec

(* A running server is the client's, or somebody is about to close it.      *)
THEOREM NoServerLost == Spec => []NoServerIsLost
<1>1. ClientInv => NoServerIsLost
  BY DEF ClientInv, ServerInv
<1> QED BY <1>1, ClientInvariant, PTL

(* Between two closings a client observes one working directory only.       *)
THEOREM OneDirectory == Spec => []BindsCwd
<1>1. ClientInv => BindsCwd
  BY DEF ClientInv, DirectoryInv
<1> QED BY <1>1, ClientInvariant, PTL

(* Only Observed reports an observation.                                    *)
Observes(c) == result'[c] # result[c] /\ result'[c].status = "observed"

LEMMA ReturnReports ==
    ASSUME ClientInv, NEW c \in Callers, NEW s \in {"closed", "failed", "mismatch"}, Return(c, Returned(s)),
           NEW d \in Callers
    PROVE  ~Observes(d)
<1>1. result'[d] = IF d = c THEN Returned(s) ELSE result[d]
  BY DEF Return, ClientInv, Shape
<1>2. Returned(s).status # "observed"
  BY DEF Returned
<1> QED BY <1>1, <1>2 DEF Observes

LEMMA OnlyObserved ==
    ASSUME ClientInv, [Next]_vars, NEW d \in Callers, Observes(d)
    PROVE  Observed(d)
<1>1. CASE UNCHANGED result
  BY <1>1 DEF Observes
<1>2. ASSUME NEW c \in Callers, Call(c) \/ Step(c) \/ Transfer(c) PROVE Observed(d)
  <2>1. CASE Call(c)
    <3>1. result'[d] = IF d = c THEN Returned("none") ELSE result[d]
      BY <2>1 DEF Call, ClientInv, Shape
    <3>2. Returned("none").status # "observed"
      BY DEF Returned
    <3> QED BY <3>1, <3>2 DEF Observes
  <2>2. CASE TakeTransport(c)
    BY <1>1, <2>2, ReturnReports DEF TakeTransport
  <2>3. CASE Initialize(c)
    <3>1. UNCHANGED result \/ Return(c, Returned("failed"))
      BY <2>3 DEF Initialize, Initialized, Open, FirstExchange
    <3> QED BY <1>1, <3>1, ReturnReports
  <2>4. CASE LookAtTransport(c)
    BY <1>1, <2>4, ReturnReports DEF LookAtTransport, Remain
  <2>5. CASE UseTransport(c) \/ GiveUp(c) \/ BeginClose(c) \/ ServerReady(c) \/ ClientReady(c) \/ Transfer(c)
    BY <1>1, <2>5 DEF UseTransport, GiveUp, BeginClose, CloseTransport, ServerReady,
        ClientReady, Transfer, Write, Read, ReadFails, Pipe
  <2>6. CASE EndClose(c)
    BY <1>1, <2>6, ReturnReports DEF EndClose, Remain
  <2>7. CASE Drain(c) \/ Refused(c)
    BY <2>7, ReturnReports DEF Drain, Refused, Fails
  <2>8. CASE Observed(c)
    <3>1. CASE d # c
      BY <2>8, <3>1 DEF Observed, Return, Observes
    <3> QED BY <2>8, <3>1
  <2> QED BY <1>2, <2>1, <2>2, <2>3, <2>4, <2>5, <2>6, <2>7, <2>8 DEF Step
<1>3. ASSUME NEW t \in Servers, Answer(t) \/ Stray(t) \/ Exit(t) PROVE Observed(d)
  BY <1>1, <1>3 DEF Answer, Stray, Exit, Server, callers
<1> QED BY <1>1, <1>2, <1>3 DEF Next, vars, callers

(* An observation rests on the answer to its own request, and unless the    *)
(* client has been closed meanwhile names the server that gave it.          *)
THEOREM AnswersAreOwn == Spec => OwnAnswers
<1>. DEFINE Own(d) == result'[d].id = id[d] /\ (epoch[d] = closes => result'[d].agent = result'[d].server)
<1>1. ASSUME ClientInv, [Next]_vars, NEW d \in Callers, Observes(d) PROVE Own(d)
  <2>1. Observed(d)
    BY <1>1, OnlyObserved
  <2>2. result'[d] = [status |-> "observed", server |-> used[d], id |-> io[d].line.id, agent |-> userAgent]
    BY <1>1, <2>1 DEF Observed, Return, ClientInv, Shape
  <2>3. io[d].line.id = id[d]
    BY <2>1 DEF Observed, Answered, Accepted
  <2>4. Past(d) /\ pc[d] = "await"
    BY <2>1 DEF Observed, Answered, Exchanged, At, Past
  <2>5. epoch[d] = closes => used[d] = transport /\ userAgent = transport
    BY <1>1, <2>4 DEF ClientInv, AgentInv, EpochInv
  <2> QED BY <2>2, <2>3, <2>5
<1>2. ClientInv /\ [Next]_vars => [\A d \in Callers : Observes(d) => Own(d)]_vars
  BY <1>1
<1>3. ClientInv /\ [Next]_vars =>
        [\A c \in Callers : result'[c] # result[c] /\ result'[c].status = "observed" =>
            /\ result'[c].id = id[c]
            /\ epoch[c] = closes => result'[c].agent = result'[c].server]_vars
  BY <1>2 DEF Observes
<1> QED BY <1>3, ClientInvariant, PTL DEF Spec, OwnAnswers

-----------------------------------------------------------------------------
(* Types.  Of the records only this is needed.                              *)
LEMMA Values ==
    /\ \A s \in {"none", "closed", "failed", "mismatch"} : Returned(s) \in Results
    /\ \A t \in 0..MaxOpens, n \in IDs, v \in 0..MaxOpens :
          [status |-> "observed", server |-> t, id |-> n, agent |-> v] \in Results
    /\ NotReading \in Finds /\ NotReading.at = "none" /\ NoLine \in Lines
    /\ \A at \in {"write", "read", "found", "error"}, l \in Lines :
          [at |-> at, line |-> l] \in Finds /\ [at |-> at, line |-> l].at = at
    /\ \A f \in Finds : f.line \in Lines
    /\ \A l \in Lines : l.id \in IDs
    /\ \A n \in IDs : Line(n, "result") \in Lines /\ Line(n, "error") \in Lines /\ Line(n, "mismatch") \in Lines
    /\ Line(0, "oversized") \in Lines /\ Line(1, "request") \in Lines
    /\ \A n \in IDs, b \in {"initialize", "initialized", "skills/list"} : [id |-> n, by |-> b] \in Requests
    /\ \A r \in Requests : r.id \in IDs
  BY CountsAssumption DEF Returned, Results, IDs, NotReading, Finds, NoLine, Lines, Line,
      Bodies, Requests

ClientTypes == /\ initializedCWD \in Cwds \union {NoCwd} /\ userAgent \in 0..MaxOpens
               /\ nextID \in IDs /\ mu \in Callers \union {"free"}
CountTypes == calls \in 0..MaxCalls /\ strays \in 0..MaxStrays /\ crashed \in BOOLEAN
ExchangeTypes == id \in [Callers -> IDs] /\ io \in [Callers -> Finds]
ResultTypes == result \in [Callers -> Results] /\ observed \subseteq Nat \X Cwds
PipeTypes == /\ ioMu \in [Servers -> Callers \union {"free"}]
             /\ inbox \in [Servers -> Seq(Requests)] /\ outbox \in [Servers -> Seq(Lines)]
(* Who exchanges lines does so with a server; who observes has a directory. *)
ExchangeInv == \A c \in Callers :
    /\ op[c] \notin {"none", "close"} => cwd[c] \in Cwds
    /\ pc[c] = "lock" => op[c] \in {"observe", "close"}
    /\ io[c].at # "none" => /\ pc[c] \in {"await", "closing", "drain"} /\ op[c] \notin {"none", "close"}
                            /\ used[c] \in Servers
Types == ClientTypes /\ CountTypes /\ ExchangeTypes /\ ResultTypes /\ PipeTypes /\ ExchangeInv

(* A call that returns, whose exchange is over or was never begun.          *)
LEMMA ReturnTypes ==
    ASSUME ClientInv, Types, NEW c \in Callers, NEW r \in Results, Return(c, r),
           NoExchange(c) \/ (io' = io /\ io[c].at = "none"), observed' \subseteq Nat \X Cwds
    PROVE  ExchangeTypes' /\ ResultTypes' /\ ExchangeInv'
<1>1. id' \in [Callers -> IDs]
  BY DEF Return, Types, ExchangeTypes, IDs
<1>2. io' \in [Callers -> Finds] /\ io'[c].at = "none" /\ \A d \in Callers \ {c} : io'[d] = io[d]
  BY Values DEF NoExchange, Types, ExchangeTypes
<1>3. result' \in [Callers -> Results]
  BY DEF Return, Types, ResultTypes
<1>4. Others(c) /\ pc'[c] = "idle" /\ op'[c] = "none"
  BY Returning DEF ClientInv
<1>5. ExchangeInv'
  BY <1>2, <1>4 DEF Others, Types, ExchangeInv
<1> QED BY <1>1, <1>2, <1>3, <1>5 DEF ExchangeTypes, ResultTypes

(* A request is about to be written.                                        *)
LEMMA ExchangeOverTypes ==
    ASSUME ClientInv, Types, NEW c \in Callers, NEW t \in Servers, ExchangeOver(t, c), pc[c] \in {"lock", "use"},
           cwd' = cwd, cwd[c] \in Cwds,
           (op' = op /\ op[c] = "observe") \/ op' = [op EXCEPT ![c] = "initialize"],
           UNCHANGED <<result, observed>>
    PROVE  ExchangeTypes' /\ ResultTypes' /\ ExchangeInv' /\ nextID' \in IDs
<1>1. id' \in [Callers -> IDs] /\ nextID' \in IDs
  BY DEF ExchangeOver, Types, ExchangeTypes, ClientTypes, IDs
<1>2. io' \in [Callers -> Finds] /\ \A d \in Callers \ {c} : io'[d] = io[d]
  BY Values DEF ExchangeOver, Types, ExchangeTypes
<1>3. /\ pc'[c] = "await" /\ used'[c] = t /\ op'[c] \in {"observe", "initialize"}
      /\ \A d \in Callers \ {c} : pc'[d] = pc[d] /\ used'[d] = used[d] /\ op'[d] = op[d]
  BY DEF ExchangeOver, Goto, ClientInv, Shape
<1>4. ExchangeInv'
  BY <1>2, <1>3 DEF Types, ExchangeInv
<1> QED BY <1>1, <1>2, <1>4 DEF ExchangeTypes, ResultTypes, Types

(* A caller goes on without an exchange.                                    *)
LEMMA GotoTypes ==
    ASSUME ClientInv, Types, NEW c \in Callers, NEW p \in {"check", "use", "close", "closing", "drain"}, Goto(c, p),
           p \in {"check", "use", "close"} => io[c].at = "none",
           \A d \in Callers \ {c} : used'[d] = used[d],
           used'[c] = used[c] \/ io[c].at = "none",
           UNCHANGED <<op, cwd, id, io, result, observed>>
    PROVE  ExchangeTypes' /\ ResultTypes' /\ ExchangeInv'
<1>1. pc'[c] = p /\ \A d \in Callers \ {c} : pc'[d] = pc[d]
  BY DEF Goto, ClientInv, Shape
<1>2. ExchangeInv'
  BY <1>1 DEF Types, ExchangeInv
<1> QED BY <1>2 DEF Types, ExchangeTypes, ResultTypes

LEMMA TypesInitially == Init => Types
<1>. SUFFICES ASSUME Init PROVE Types
  OBVIOUS
<1>1. ClientTypes
  BY Bounds DEF Init, ClientTypes, IDs
<1>2. calls \in 0..MaxCalls /\ strays \in 0..MaxStrays
  BY CountsAssumption DEF Init
<1>3. crashed \in BOOLEAN
  BY DEF Init
<1>4. ExchangeTypes
  BY Values DEF Init, ExchangeTypes, IDs
<1>5. ResultTypes
  BY Values DEF Init, ResultTypes
<1>6. PipeTypes
  BY DEF Init, PipeTypes
<1>7. ExchangeInv
  BY Values DEF Init, ExchangeInv
<1> QED BY <1>1, <1>2, <1>3, <1>4, <1>5, <1>6, <1>7 DEF Types, CountTypes

(* What an exchange has found.                                              *)
LEMMA FoundTypes ==
    ASSUME ClientInv, Types, NEW c \in Callers, NEW at \in {"found", "read", "error"}, NEW l \in Lines,
           Found(c, at, l), io[c].at # "none", Pipe(c)
    PROVE  ExchangeTypes' /\ ResultTypes' /\ ExchangeInv'
<1>1. UNCHANGED <<pc, op, cwd, used, id, result, observed>>
  BY DEF Pipe, history
<1>2. io' \in [Callers -> Finds] /\ \A d \in Callers : io'[d].at # "none" => io[d].at # "none"
  BY Values DEF Found, Types, ExchangeTypes
<1>3. ExchangeInv'
  BY <1>1, <1>2 DEF Types, ExchangeInv
<1> QED BY <1>1, <1>2, <1>3 DEF Types, ExchangeTypes, ResultTypes

LEMMA CallTypes ==
    ASSUME ClientInv, Types, NEW c \in Callers, Call(c)
    PROVE  Types'
<1>1. ClientTypes'
  BY DEF Call, ClientTypes, Types, client
<1>2. CountTypes'
  BY CountsAssumption DEF Call, CountTypes, Types
<1>3. ExchangeTypes'
  BY DEF Call, ExchangeTypes, Types
<1>4. ResultTypes'
  BY Values DEF Call, ResultTypes, Types, history
<1>5. PipeTypes'
  BY DEF Call, PipeTypes, Types, servers
<1>6. ExchangeInv'
  BY DEF Call, Goto, At, ExchangeInv, Types, ClientInv, Shape
<1> QED BY <1>1, <1>2, <1>3, <1>4, <1>5, <1>6 DEF Types

LEMMA TakeTransportTypes ==
    ASSUME ClientInv, Types, NEW c \in Callers, TakeTransport(c)
    PROVE  Types'
<1>1. ExchangeTypes' /\ ResultTypes' /\ ExchangeInv'
  <2>1. io' = io /\ io[c].at = "none" /\ observed' = observed /\ observed' \subseteq Nat \X Cwds
    BY DEF TakeTransport, At, Types, ExchangeInv, ResultTypes
  <2>2. CASE transport = 0
    <3>1. Return(c, Returned("closed"))
      BY <2>2 DEF TakeTransport
    <3> QED BY <2>1, <3>1, Values, ReturnTypes
  <2>3. CASE transport # 0
    <3>1. Goto(c, "close") /\ used' = [used EXCEPT ![c] = transport] /\ UNCHANGED <<op, cwd, id, result>>
      BY <2>3 DEF TakeTransport
    <3> QED BY <2>1, <3>1, GotoTypes DEF ClientInv, Shape
  <2> QED BY <2>2, <2>3
<1>2. ClientTypes'
  BY DEF TakeTransport, ClientTypes, Types
<1>3. CountTypes'
  BY DEF TakeTransport, CountTypes, Types
<1>4. PipeTypes'
  BY DEF TakeTransport, PipeTypes, Types, servers
<1> QED BY <1>1, <1>2, <1>3, <1>4 DEF Types

LEMMA InitializeTypes ==
    ASSUME ClientInv, Types, NEW c \in Callers, Initialize(c)
    PROVE  Types'
<1>1. ClientTypes' /\ ExchangeTypes' /\ ResultTypes' /\ ExchangeInv'
  <2>1. /\ pc[c] = "lock" /\ op[c] = "observe" /\ cwd[c] \in Cwds /\ io[c].at = "none" /\ transport \in 0..MaxOpens
        /\ observed' = observed /\ observed' \subseteq Nat \X Cwds
    BY DEF Initialize, At, Types, ExchangeInv, ResultTypes, ClientInv, Shape
  <2>2. CASE Return(c, Returned("failed")) /\ UNCHANGED <<io, initializedCWD, userAgent, nextID, mu>>
    <3>1. ClientTypes'
      BY <2>2 DEF Types, ClientTypes
    <3> QED BY <2>1, <2>2, <3>1, Values, ReturnTypes
  <2>3. CASE Goto(c, "check") /\ UNCHANGED <<client, op, cwd, used, id, io, result>>
    <3>1. ClientTypes'
      BY <2>3 DEF Types, ClientTypes, client
    <3> QED BY <2>1, <2>3, <3>1, GotoTypes
  <2>4. CASE /\ \E t \in Servers : FirstExchange(t, c)
             /\ UNCHANGED <<initializedCWD, userAgent>>
    <3>1. PICK t \in Servers : FirstExchange(t, c)
      BY <2>4
    <3>2. /\ ExchangeOver(t, c) /\ mu' = c /\ op' = [op EXCEPT ![c] = "initialize"]
          /\ UNCHANGED <<cwd, result>>
      BY <3>1 DEF FirstExchange
    <3>3. ExchangeTypes' /\ ResultTypes' /\ ExchangeInv' /\ nextID' \in IDs
      BY <2>1, <3>2, ExchangeOverTypes
    <3>4. ClientTypes'
      BY <2>4, <3>2, <3>3 DEF Types, ClientTypes
    <3> QED BY <3>3, <3>4
  <2>5. CASE initialized
    BY <2>2, <2>3, <2>5 DEF Initialize, Initialized, client
  <2>6. CASE ~initialized
    <3>1. CASE transport = 0
      <4>1. opens < MaxOpens => opens + 1 \in Servers
        BY Bounds DEF ClientInv, Shape, Servers
      <4> QED BY <2>2, <2>4, <2>6, <3>1, <4>1 DEF Initialize, Initialized, Open
    <3>2. CASE transport # 0
      <4>1. transport \in Servers
        BY <2>1, <3>2, Bounds DEF Servers
      <4> QED BY <2>4, <2>6, <3>2, <4>1 DEF Initialize, Initialized
    <3> QED BY <3>1, <3>2
  <2> QED BY <2>5, <2>6
<1>2. CountTypes'
  BY DEF Initialize, CountTypes, Types
<1>3. PipeTypes'
  BY DEF Initialize, PipeTypes, Types
<1> QED BY <1>1, <1>2, <1>3 DEF Types

LEMMA LookAtTransportTypes ==
    ASSUME ClientInv, Types, NEW c \in Callers, LookAtTransport(c)
    PROVE  Types'
<1>1. ExchangeTypes' /\ ResultTypes' /\ ExchangeInv'
  <2>1. io' = io /\ io[c].at = "none" /\ observed' = observed /\ observed' \subseteq Nat \X Cwds
    BY DEF LookAtTransport, At, Types, ExchangeInv, ResultTypes
  <2>2. CASE transport = 0
    <3>1. Return(c, Returned("failed"))
      BY <2>2 DEF LookAtTransport
    <3> QED BY <2>1, <3>1, Values, ReturnTypes
  <2>3. CASE transport # 0
    <3>1. Goto(c, "use") /\ Remain
      BY <2>3 DEF LookAtTransport
    <3> QED BY <2>1, <3>1, GotoTypes DEF Remain
  <2> QED BY <2>2, <2>3
<1>2. ClientTypes'
  BY DEF LookAtTransport, ClientTypes, Types, client
<1>3. CountTypes'
  BY DEF LookAtTransport, CountTypes, Types, bounds
<1>4. PipeTypes'
  BY DEF LookAtTransport, PipeTypes, Types, servers
<1> QED BY <1>1, <1>2, <1>3, <1>4 DEF Types

LEMMA UseTransportTypes ==
    ASSUME ClientInv, Types, NEW c \in Callers, UseTransport(c)
    PROVE  Types'
<1>1. ClientTypes' /\ ExchangeTypes' /\ ResultTypes' /\ ExchangeInv'
  <2>1. /\ pc[c] = "use" /\ op[c] = "observe" /\ cwd[c] \in Cwds /\ io[c].at = "none"
        /\ UNCHANGED <<initializedCWD, userAgent, mu, op, cwd, result, observed>>
    BY DEF UseTransport, At, Types, ExchangeInv, ClientInv, PlaceInv, history
  <2>2. CASE transport = 0
    <3>1. UNCHANGED <<pc, used, id, io, nextID>>
      BY <2>2 DEF UseTransport
    <3> QED BY <2>1, <3>1 DEF Types, ClientTypes, ExchangeTypes, ResultTypes, ExchangeInv
  <2>3. CASE transport # 0
    <3>1. transport \in Servers
      BY <2>3, Bounds DEF ClientInv, Shape, Servers
    <3>2. ExchangeOver(transport, c)
      BY <2>3 DEF UseTransport
    <3>3. ExchangeTypes' /\ ResultTypes' /\ ExchangeInv' /\ nextID' \in IDs
      BY <2>1, <3>1, <3>2, ExchangeOverTypes
    <3> QED BY <2>1, <3>3 DEF Types, ClientTypes
  <2> QED BY <2>2, <2>3
<1>2. CountTypes'
  BY DEF UseTransport, CountTypes, Types, bounds
<1>3. PipeTypes'
  BY DEF UseTransport, PipeTypes, Types, servers
<1> QED BY <1>1, <1>2, <1>3 DEF Types

LEMMA GiveUpTypes ==
    ASSUME ClientInv, Types, NEW c \in Callers, GiveUp(c)
    PROVE  Types'
<1>1. ClientTypes'
  BY DEF GiveUp, CloseTransport, ClientTypes, Types, client
<1>2. CountTypes'
  BY DEF GiveUp, CloseTransport, CountTypes, Types, bounds
<1>3. ExchangeTypes'
  BY DEF GiveUp, CloseTransport, ExchangeTypes, Types
<1>4. ResultTypes'
  BY DEF GiveUp, CloseTransport, ResultTypes, Types, history
<1>5. PipeTypes'
  BY DEF GiveUp, CloseTransport, PipeTypes, Types
<1>6. ExchangeInv'
  BY DEF GiveUp, CloseTransport, Goto, ExchangeInv, Types
<1> QED BY <1>1, <1>2, <1>3, <1>4, <1>5, <1>6 DEF Types

LEMMA BeginCloseTypes ==
    ASSUME ClientInv, Types, NEW c \in Callers, BeginClose(c)
    PROVE  Types'
<1>1. ClientTypes'
  BY DEF BeginClose, CloseTransport, ClientTypes, Types, client
<1>2. CountTypes'
  BY DEF BeginClose, CloseTransport, CountTypes, Types, bounds
<1>3. ExchangeTypes'
  BY DEF BeginClose, CloseTransport, ExchangeTypes, Types
<1>4. ResultTypes'
  BY DEF BeginClose, CloseTransport, ResultTypes, Types, history
<1>5. PipeTypes'
  BY DEF BeginClose, CloseTransport, PipeTypes, Types
<1>6. ExchangeInv'
  BY DEF BeginClose, CloseTransport, Goto, ExchangeInv, Types
<1> QED BY <1>1, <1>2, <1>3, <1>4, <1>5, <1>6 DEF Types

LEMMA EndCloseTypes ==
    ASSUME ClientInv, Types, NEW c \in Callers, EndClose(c)
    PROVE  Types'
<1>1. ExchangeTypes' /\ ResultTypes' /\ ExchangeInv'
  <2>1. io' = io /\ observed' = observed /\ observed' \subseteq Nat \X Cwds
    BY DEF EndClose, Types, ResultTypes
  <2>2. CASE op[c] = "close"
    <3>1. Return(c, Returned("closed"))
      BY <2>2 DEF EndClose
    <3>2. io[c].at = "none"
      BY <2>2 DEF Types, ExchangeInv
    <3> QED BY <2>1, <3>1, <3>2, Values, ReturnTypes
  <2>3. CASE op[c] # "close"
    <3>1. Goto(c, "drain") /\ Remain
      BY <2>3 DEF EndClose
    <3> QED BY <2>1, <3>1, GotoTypes DEF Remain
  <2> QED BY <2>2, <2>3
<1>2. ClientTypes'
  BY DEF EndClose, ClientTypes, Types, client
<1>3. CountTypes'
  BY DEF EndClose, CountTypes, Types, bounds
<1>4. PipeTypes'
  BY DEF EndClose, PipeTypes, Types
<1> QED BY <1>1, <1>2, <1>3, <1>4 DEF Types

LEMMA DrainTypes ==
    ASSUME ClientInv, Types, NEW c \in Callers, Drain(c)
    PROVE  Types'
<1>1. ExchangeTypes' /\ ResultTypes' /\ ExchangeInv'
  <2>2. Return(c, Returned("failed")) /\ NoExchange(c) /\ observed' \subseteq Nat \X Cwds
    BY DEF Drain, Fails, Types, ResultTypes
  <2> QED BY <2>2, Values, ReturnTypes
<1>2. ClientTypes'
  BY DEF Drain, Fails, Release, ClientTypes, Types, client
<1>3. CountTypes'
  BY DEF Drain, Exchanged, CountTypes, Types, bounds
<1>4. PipeTypes'
  BY DEF Drain, Exchanged, PipeTypes, Types, servers
<1> QED BY <1>1, <1>2, <1>3, <1>4 DEF Types

LEMMA RefusedTypes ==
    ASSUME ClientInv, Types, NEW c \in Callers, Refused(c)
    PROVE  Types'
<1>1. ExchangeTypes' /\ ResultTypes' /\ ExchangeInv'
  <2>1. PICK s \in {"failed", "mismatch"} : Fails(c, s)
    BY DEF Refused
  <2>2. Return(c, Returned(s)) /\ NoExchange(c) /\ observed' \subseteq Nat \X Cwds
    BY <2>1 DEF Fails, Types, ResultTypes
  <2> QED BY <2>2, Values, ReturnTypes
<1>2. ClientTypes'
  BY DEF Refused, Fails, Release, ClientTypes, Types, Servers, client, servers, bounds
<1>3. CountTypes'
  BY DEF Refused, Exchanged, CountTypes, Types, bounds
<1>4. PipeTypes'
  BY DEF Refused, Exchanged, PipeTypes, Types, servers
<1> QED BY <1>1, <1>2, <1>3, <1>4 DEF Types

LEMMA ServerReadyTypes ==
    ASSUME ClientInv, Types, NEW c \in Callers, ServerReady(c)
    PROVE  Types'
<1>1. ClientTypes'
  BY DEF ServerReady, ClientTypes, Types, ClientInv, Shape
<1>2. CountTypes'
  BY DEF ServerReady, Answered, Exchanged, CountTypes, Types, bounds
<1>3. ExchangeTypes'
  BY Values DEF ServerReady, ExchangeTypes, Types
<1>4. ResultTypes'
  BY DEF ServerReady, ResultTypes, Types, history
<1>5. PipeTypes'
  BY DEF ServerReady, Answered, Exchanged, PipeTypes, Types, servers
<1>6. ExchangeInv'
  BY DEF ServerReady, Answered, Exchanged, ExchangeInv, Types
<1> QED BY <1>1, <1>2, <1>3, <1>4, <1>5, <1>6 DEF Types

LEMMA ClientReadyTypes ==
    ASSUME ClientInv, Types, NEW c \in Callers, ClientReady(c)
    PROVE  Types'
<1>1. ClientTypes'
  BY DEF ClientReady, ClientTypes, ExchangeInv, Types
<1>2. CountTypes'
  BY DEF ClientReady, Answered, Exchanged, CountTypes, Types, bounds
<1>3. ExchangeTypes'
  BY Values DEF ClientReady, NoExchange, ExchangeTypes, Types
<1>4. ResultTypes'
  BY DEF ClientReady, ResultTypes, Types
<1>5. PipeTypes'
  BY DEF ClientReady, Answered, Exchanged, PipeTypes, Types, servers
<1>6. ExchangeInv'
  BY Values DEF ClientReady, NoExchange, Goto, ExchangeInv, ExchangeTypes, Types
<1> QED BY <1>1, <1>2, <1>3, <1>4, <1>5, <1>6 DEF Types

LEMMA ObservedTypes ==
    ASSUME ClientInv, Types, NEW c \in Callers, Observed(c)
    PROVE  Types'
<1>1. ExchangeTypes' /\ ResultTypes' /\ ExchangeInv'
  <2>. DEFINE r == [status |-> "observed", server |-> used[c], id |-> io[c].line.id, agent |-> userAgent]
  <2>1. Return(c, r) /\ NoExchange(c) /\ observed' = observed \union {<<epoch[c], cwd[c]>>}
    BY DEF Observed
  <2>2. r \in Results
    BY Values DEF Types, ExchangeTypes, ClientTypes, ClientInv, Shape
  <2>3. cwd[c] \in Cwds /\ epoch[c] \in Nat
    BY DEF Observed, Types, ExchangeInv, ClientInv, Shape
  <2>4. observed' \subseteq Nat \X Cwds
    BY <2>1, <2>3 DEF Types, ResultTypes
  <2> QED BY <2>1, <2>2, <2>4, ReturnTypes
<1>2. ClientTypes'
  BY DEF Observed, ClientTypes, Types, client
<1>3. CountTypes'
  BY DEF Observed, Answered, Exchanged, CountTypes, Types, bounds
<1>4. PipeTypes'
  BY DEF Observed, Answered, Exchanged, PipeTypes, Types, servers
<1> QED BY <1>1, <1>2, <1>3, <1>4 DEF Types

LEMMA WriteTypes ==
    ASSUME ClientInv, Types, NEW c \in Callers, Write(c)
    PROVE  Types'
<1>1. ExchangeTypes' /\ ResultTypes' /\ PipeTypes' /\ ExchangeInv'
  <2>1. io[c].at # "none" /\ used[c] \in Servers /\ UNCHANGED outbox /\ Pipe(c)
    BY DEF Write, Types, ExchangeInv
  <2>2. PICK at \in {"found", "read", "error"} : Found(c, at, NoLine)
    BY DEF Write
  <2>3. ExchangeTypes' /\ ResultTypes' /\ ExchangeInv'
    BY <2>1, <2>2, Values, FoundTypes
  <2>4. ioMu' \in [Servers -> Callers \union {"free"}]
    BY DEF Write, Types, PipeTypes
  <2>5. inbox' \in [Servers -> Seq(Requests)]
    <3>1. [id |-> id[c], by |-> Method(c)] \in Requests
      <4>1. op[c] \in {"observe", "initialize", "initialized"}
        BY <2>1 DEF Types, ExchangeInv, ClientInv, Shape, Operations
      <4>2. Method(c) \in {"initialize", "initialized", "skills/list"}
        BY <4>1 DEF Method
      <4>3. id[c] \in IDs
        BY DEF Types, ExchangeTypes
      <4> QED BY <4>2, <4>3, Values
    <3>2. Append(inbox[used[c]], [id |-> id[c], by |-> Method(c)]) \in Seq(Requests)
      BY <2>1, <3>1 DEF Types, PipeTypes
    <3> QED BY <3>2 DEF Write, Types, PipeTypes
  <2> QED BY <2>1, <2>3, <2>4, <2>5 DEF PipeTypes, Types
<1>2. ClientTypes'
  BY DEF Write, Pipe, ClientTypes, Types, client
<1>3. CountTypes'
  BY DEF Write, Pipe, CountTypes, Types, bounds
<1> QED BY <1>1, <1>2, <1>3 DEF Types

LEMMA ReadTypes ==
    ASSUME ClientInv, Types, NEW c \in Callers, Read(c)
    PROVE  Types'
<1>1. ExchangeTypes' /\ ResultTypes' /\ PipeTypes' /\ ExchangeInv'
  <2>. DEFINE t == used[c]
  <2>1. io[c].at # "none" /\ t \in Servers /\ outbox[t] # <<>> /\ UNCHANGED inbox /\ Pipe(c)
    BY DEF Read, Types, ExchangeInv
  <2>2. /\ outbox[t] \in Seq(Lines)
        /\ Head(outbox[t]) \in Lines /\ Tail(outbox[t]) \in Seq(Lines)
    BY <2>1 DEF Types, PipeTypes
  <2>3. <<NoLine>> \o Tail(outbox[t]) \in Seq(Lines)
    BY <2>2, Values
  <2>4. ioMu' \in [Servers -> Callers \union {"free"}]
    BY DEF Read, Types, PipeTypes
  <2>5. outbox' \in [Servers -> Seq(Lines)]
    BY <2>2, <2>3 DEF Read, Types, PipeTypes
  <2>6. ExchangeTypes' /\ ResultTypes' /\ ExchangeInv'
    <3>1. CASE io' = io
      BY <2>1, <3>1 DEF Pipe, Types, ExchangeTypes, ResultTypes, ExchangeInv, history
    <3>2. CASE \E at \in {"found", "error"}, l \in Lines : Found(c, at, l)
      BY <2>1, <3>2, FoundTypes
    <3> QED BY <2>2, <3>1, <3>2, Values DEF Read
  <2> QED BY <2>1, <2>4, <2>5, <2>6 DEF PipeTypes, Types
<1>2. ClientTypes'
  BY DEF Read, Pipe, ClientTypes, Types, client
<1>3. CountTypes'
  BY DEF Read, Pipe, CountTypes, Types, bounds
<1> QED BY <1>1, <1>2, <1>3 DEF Types

LEMMA ReadFailsTypes ==
    ASSUME ClientInv, Types, NEW c \in Callers, ReadFails(c)
    PROVE  Types'
<1>1. ClientTypes'
  BY DEF ReadFails, Pipe, ClientTypes, Types, client
<1>2. CountTypes'
  BY DEF ReadFails, Pipe, CountTypes, Types, bounds
<1>3. ExchangeTypes'
  BY Values DEF ReadFails, Pipe, Found, ExchangeTypes, Types
<1>4. ResultTypes'
  BY DEF ReadFails, Pipe, ResultTypes, Types, history
<1>5. PipeTypes'
  BY DEF ReadFails, PipeTypes, Types
<1>6. ExchangeInv'
  BY DEF ReadFails, Pipe, Found, ExchangeInv, Types
<1> QED BY <1>1, <1>2, <1>3, <1>4, <1>5, <1>6 DEF Types

LEMMA AnswerTypes ==
    ASSUME ClientInv, Types, NEW t \in Servers, Answer(t)
    PROVE  Types'
<1>a. /\ inbox[t] \in Seq(Requests) /\ inbox[t] # <<>>
      /\ Head(inbox[t]) \in Requests /\ Tail(inbox[t]) \in Seq(Requests) /\ outbox[t] \in Seq(Lines)
  BY DEF Answer, Asked, Types, PipeTypes
<1>b. inbox' \in [Servers -> Seq(Requests)]
  BY <1>a DEF Answer, Types, PipeTypes
<1>. DEFINE r == Head(inbox[t])
<1>1. CountTypes' /\ PipeTypes'
  <2>a. CASE r.by = "initialized"
    <3>1. UNCHANGED <<outbox, strays, calls, crashed, ioMu>>
      BY <2>a DEF Answer, Server
    <3> QED BY <1>b, <3>1 DEF Types, CountTypes, PipeTypes
  <2>b. CASE r.by # "initialized"
    <3>1. PICK b \in {"result", "error", "mismatch"}, twice \in BOOLEAN :
            /\ IF twice THEN strays < MaxStrays /\ strays' = strays + 1 ELSE UNCHANGED strays
            /\ outbox' = [outbox EXCEPT ![t] = @ \o IF twice THEN <<Line(r.id, b), Line(r.id, b)>> ELSE <<Line(r.id, b)>>]
      BY <2>b DEF Answer
    <3>2. UNCHANGED <<calls, crashed, ioMu>>
      BY DEF Answer, Server
    <3>3. strays' \in 0..MaxStrays
      BY <3>1, CountsAssumption DEF Types, CountTypes
    <3>4. Line(r.id, b) \in Lines
      BY <1>a, <3>1, Values
    <3>5. <<Line(r.id, b)>> \in Seq(Lines) /\ <<Line(r.id, b), Line(r.id, b)>> \in Seq(Lines)
      BY <3>4
    <3>6. outbox[t] \o (IF twice THEN <<Line(r.id, b), Line(r.id, b)>> ELSE <<Line(r.id, b)>>) \in Seq(Lines)
      BY <1>a, <3>5
    <3>7. outbox' \in [Servers -> Seq(Lines)]
      BY <3>1, <3>6 DEF Types, PipeTypes
    <3> QED BY <1>b, <3>2, <3>3, <3>7 DEF Types, CountTypes, PipeTypes
  <2> QED BY <2>a, <2>b
<1>2. ClientTypes'
  BY DEF Answer, Server, ClientTypes, Types, client
<1>3. ExchangeTypes'
  BY DEF Answer, Server, ExchangeTypes, Types, callers
<1>4. ResultTypes'
  BY DEF Answer, Server, ResultTypes, Types, callers, history
<1>5. ExchangeInv'
  BY DEF Answer, Server, ExchangeInv, Types, callers
<1> QED BY <1>1, <1>2, <1>3, <1>4, <1>5 DEF Types

LEMMA StrayTypes ==
    ASSUME ClientInv, Types, NEW t \in Servers, Stray(t)
    PROVE  Types'
<1>1. ClientTypes'
  BY DEF Stray, Server, ClientTypes, Types, client
<1>2. CountTypes'
  BY CountsAssumption DEF Stray, Server, CountTypes, Types
<1>3. ExchangeTypes'
  BY DEF Stray, Server, ExchangeTypes, Types, callers
<1>4. ResultTypes'
  BY DEF Stray, Server, ResultTypes, Types, callers, history
<1>5. PipeTypes'
  BY Values DEF Stray, Server, PipeTypes, Types
<1>6. ExchangeInv'
  BY DEF Stray, Server, ExchangeInv, Types, callers
<1> QED BY <1>1, <1>2, <1>3, <1>4, <1>5, <1>6 DEF Types

LEMMA ExitTypes ==
    ASSUME ClientInv, Types, NEW t \in Servers, Exit(t)
    PROVE  Types'
<1>1. ClientTypes'
  BY DEF Exit, Server, ClientTypes, Types, client
<1>2. CountTypes'
  BY DEF Exit, Server, CountTypes, Types
<1>3. ExchangeTypes'
  BY DEF Exit, Server, ExchangeTypes, Types, callers
<1>4. ResultTypes'
  BY DEF Exit, Server, ResultTypes, Types, callers, history
<1>5. PipeTypes'
  BY DEF Exit, Server, PipeTypes, Types
<1>6. ExchangeInv'
  BY DEF Exit, Server, ExchangeInv, Types, callers
<1> QED BY <1>1, <1>2, <1>3, <1>4, <1>5, <1>6 DEF Types

LEMMA StepTypes == ClientInv /\ Types /\ [Next]_vars => Types'
<1>. SUFFICES ASSUME ClientInv, Types, [Next]_vars PROVE Types'
  OBVIOUS
<1>1. CASE UNCHANGED vars
  BY <1>1 DEF Types, ClientTypes, CountTypes, ExchangeTypes, ResultTypes, PipeTypes,
      ExchangeInv, vars, client, callers, servers, bounds, history
<1>2. ASSUME NEW c \in Callers, Call(c) \/ Step(c) \/ Transfer(c) PROVE Types'
  <2>1. CASE Call(c)
    BY <2>1, CallTypes
  <2>2. CASE Step(c)
    BY <2>2, TakeTransportTypes, InitializeTypes, LookAtTransportTypes, UseTransportTypes,
        GiveUpTypes, BeginCloseTypes, EndCloseTypes, DrainTypes, RefusedTypes,
        ServerReadyTypes, ClientReadyTypes, ObservedTypes DEF Step
  <2>3. CASE Transfer(c)
    BY <2>3, WriteTypes, ReadTypes, ReadFailsTypes DEF Transfer
  <2> QED BY <1>2, <2>1, <2>2, <2>3
<1>3. ASSUME NEW t \in Servers, Answer(t) \/ Stray(t) \/ Exit(t) PROVE Types'
  BY <1>3, AnswerTypes, StrayTypes, ExitTypes
<1> QED BY <1>1, <1>2, <1>3 DEF Next

(* Every reachable state of client, callers, pipes and servers is well      *)
(* typed: the index of each exchange is a server's, each line read is one,  *)
(* and the counts stay in their bounds (appserver/client.go, jsonrpc.go).   *)
THEOREM ClientTypeCorrect == Spec => []TypeOK
<1>1. Init => ClientInv /\ Types
  BY Initially, TypesInitially
<1>2. ClientInv /\ Types /\ [Next]_vars => (ClientInv /\ Types)'
  BY StepKeeps, StepTypes
<1>3. ClientInv /\ Types => TypeOK
  <2>. SUFFICES ASSUME ClientInv, Types PROVE TypeOK
    OBVIOUS
  <2> QED BY DEF ClientInv, Shape, Places, Operations, Types, ClientTypes, CountTypes,
      ExchangeTypes, ResultTypes, PipeTypes, TypeOK
<1> QED BY <1>1, <1>2, <1>3, PTL DEF Spec
=============================================================================
