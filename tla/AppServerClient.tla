-------------------------- MODULE AppServerClient --------------------------
(***************************************************************************)
(* The client of the Codex App Server.  Tool calls run concurrently, share *)
(* one client, and each makes an observation: it initializes the client if *)
(* that has not been done, which starts the server's process, and asks for *)
(* the skills of its working directory.  Requests and answers are lines on *)
(* the pipes of that process.  A request that times out, or whose call is  *)
(* cancelled, closes the transport; so does the Client's Close.            *)
(***************************************************************************)
EXTENDS Naturals, Sequences, FiniteSets

CONSTANTS Callers,    \* goroutines that use the client
          Cwds,       \* working directories observed
          MaxCalls,   \* calls made altogether
          MaxOpens,   \* App Servers started
          MaxStrays   \* lines a server writes that answer no request

ASSUME CountsAssumption == {MaxCalls, MaxOpens, MaxStrays} \subseteq Nat
ASSUME CallersAssumption == "free" \notin Callers

VARIABLES transport,   \* the client's transport: a server, or 0 for nil
          initialized, initializedCWD, userAgent, nextID,
          mu,          \* who holds the client's mutex
          pc, op, cwd, used, id,  \* of each caller: place, call, directory, transport and request of its exchange
          io,          \* of each caller: the goroutine doing its exchange, and what that has found
          result,      \* of each caller: what its last call returned
          ioMu,        \* of each server: who holds its pipes
          inbox, outbox,     \* of each server: lines it has not read, lines nobody has read from it
          process, closing,  \* of each server: its process, and its transport's Close
          opens, closes, calls, strays,
          epoch,       \* of each caller: how many times the client had been closed when it was initialized for it
          observed,    \* what has been observed: epoch and working directory
          crashed      \* the program has panicked

client == <<transport, initialized, initializedCWD, userAgent, nextID, mu>>
callers == <<pc, op, cwd, used, id, io, result>>
servers == <<ioMu, inbox, outbox, process, closing>>
bounds == <<opens, closes, calls, strays>>
history == <<epoch, observed>>
vars == <<client, callers, servers, bounds, history, crashed>>

Servers == 1..MaxOpens
NoCwd == "none"
IDs == Nat

(* A line from a server.  An answer has the number of its request and a    *)
(* body: the result asked for, a remote error or unusable JSON, or a       *)
(* projection that breaks the protocol.  A line without an id is           *)
(* passed over: a notification, or the rest of an oversized line.          *)
Bodies == {"result", "error", "mismatch", "request", "oversized", "skipped"}
Lines == [id : IDs, body : Bodies]
Line(n, b) == [id |-> n, body |-> b]
NoLine == Line(0, "skipped")
Requests == [id : IDs, by : {"initialize", "initialized", "skills/list"}]

Results == [status : {"none", "observed", "closed", "failed", "mismatch"}, server : 0..MaxOpens, id : IDs, agent : 0..MaxOpens]
Returned(status) == [status |-> status, server |-> 0, id |-> 0, agent |-> 0]
Finds == [at : {"none", "write", "read", "found", "error"}, line : Lines]
NotReading == [at |-> "none", line |-> NoLine]

Init == /\ transport = 0 /\ initialized = FALSE /\ initializedCWD = NoCwd /\ userAgent = 0 /\ nextID = 0 /\ mu = "free"
        /\ pc = [c \in Callers |-> "idle"] /\ op = [c \in Callers |-> "none"] /\ cwd = [c \in Callers |-> NoCwd]
        /\ used = [c \in Callers |-> 0] /\ id = [c \in Callers |-> 0]
        /\ io = [c \in Callers |-> NotReading] /\ result = [c \in Callers |-> Returned("none")]
        /\ ioMu = [t \in Servers |-> "free"] /\ inbox = [t \in Servers |-> <<>>] /\ outbox = [t \in Servers |-> <<>>]
        /\ process = [t \in Servers |-> "none"] /\ closing = [t \in Servers |-> "no"]
        /\ opens = 0 /\ closes = 0 /\ calls = 0 /\ strays = 0
        /\ epoch = [c \in Callers |-> 0] /\ observed = {} /\ crashed = FALSE

At(c, p) == pc[c] = p /\ ~crashed
Goto(c, p) == pc' = [pc EXCEPT ![c] = p]
Return(c, r) == /\ Goto(c, "idle") /\ result' = [result EXCEPT ![c] = r]
                /\ op' = [op EXCEPT ![c] = "none"] /\ cwd' = [cwd EXCEPT ![c] = NoCwd]
                /\ used' = [used EXCEPT ![c] = 0] /\ id' = [id EXCEPT ![c] = 0] /\ epoch' = [epoch EXCEPT ![c] = 0]
Remain == UNCHANGED <<op, cwd, used, id, epoch, result>>

-----------------------------------------------------------------------------
Call(c) == /\ At(c, "idle") /\ calls < MaxCalls /\ calls' = calls + 1
           /\ Goto(c, "lock")
           /\ \/ \E d \in Cwds : cwd' = [cwd EXCEPT ![c] = d] /\ op' = [op EXCEPT ![c] = "observe"]
              \/ op' = [op EXCEPT ![c] = "close"] /\ UNCHANGED cwd
           /\ result' = [result EXCEPT ![c] = Returned("none")]
           /\ UNCHANGED <<client, used, id, io, servers, opens, closes, strays, history, crashed>>

(* Close takes the transport out under the mutex and closes it afterwards. *)
TakeTransport(c) ==
    /\ At(c, "lock") /\ op[c] = "close" /\ mu = "free"
    /\ transport' = 0 /\ initialized' = FALSE /\ initializedCWD' = NoCwd
    /\ IF transport = 0 THEN Return(c, Returned("closed"))
       ELSE Goto(c, "close") /\ used' = [used EXCEPT ![c] = transport] /\ UNCHANGED <<op, cwd, id, epoch, result>>
    /\ closes' = closes + 1
    /\ UNCHANGED <<userAgent, nextID, mu, io, servers, opens, calls, strays, observed, crashed>>

(* Under the mutex: an initialized client serves one working directory; one *)
(* without a transport starts a server, unless that fails.                  *)
(* Mutant: the working directory of an initialized client is not compared.  *)
InitializedFaulty(c) == /\ initialized /\ Goto(c, "check") /\ epoch' = [epoch EXCEPT ![c] = closes]
                        /\ UNCHANGED <<client, op, cwd, used, id, io, result, process, opens>>
Initialized(c) == /\ initialized
                  /\ IF initializedCWD # cwd[c] THEN Return(c, Returned("failed"))
                     ELSE Goto(c, "check") /\ epoch' = [epoch EXCEPT ![c] = closes] /\ UNCHANGED <<op, cwd, used, id, result>>
                  /\ UNCHANGED <<client, io, process, opens>>
ExchangeOver(t, c) == /\ used' = [used EXCEPT ![c] = t] /\ Goto(c, "await")
                      /\ nextID' = nextID + 1 /\ id' = [id EXCEPT ![c] = nextID + 1]
                      /\ io' = [io EXCEPT ![c] = [at |-> "write", line |-> NoLine]]
FirstExchange(t, c) == /\ mu' = c /\ op' = [op EXCEPT ![c] = "initialize"] /\ ExchangeOver(t, c)
                       /\ UNCHANGED <<cwd, epoch, result>>
Open(c) == \/ /\ opens < MaxOpens /\ opens' = opens + 1 /\ transport' = opens + 1
              /\ process' = [process EXCEPT ![opens + 1] = "running"]
              /\ FirstExchange(opens + 1, c)
           \/ Return(c, Returned("failed")) /\ UNCHANGED <<opens, transport, process, mu, nextID, io>>
Initialize(c) ==
    /\ At(c, "lock") /\ op[c] = "observe" /\ mu = "free"
    /\ \/ Initialized(c)
       \/ /\ ~initialized
          /\ \/ transport = 0 /\ Open(c)
             \/ transport # 0 /\ FirstExchange(transport, c) /\ UNCHANGED <<opens, transport, process>>
          /\ UNCHANGED <<initialized, initializedCWD, userAgent>>
    /\ UNCHANGED <<ioMu, inbox, outbox, closing, closes, calls, strays, observed, crashed>>

(* Without the mutex: the transport is looked at, and read again later.     *)
(* Mutant: the error of a client without transport is passed on as it is.   *)
LookAtTransportFaulty(c) == /\ At(c, "check")
                            /\ IF transport = 0 THEN Return(c, Returned("unavailable")) ELSE Goto(c, "use") /\ Remain
                            /\ UNCHANGED <<client, io, servers, bounds, observed, crashed>>
LookAtTransport(c) == /\ At(c, "check")
                      /\ IF transport = 0 THEN Return(c, Returned("failed")) ELSE Goto(c, "use") /\ Remain
                      /\ UNCHANGED <<client, io, servers, bounds, observed, crashed>>
UseTransport(c) == /\ At(c, "use")
                   /\ IF transport = 0 THEN crashed' = TRUE /\ UNCHANGED <<pc, used, id, io, nextID>>
                      ELSE ExchangeOver(transport, c) /\ UNCHANGED crashed
                   /\ UNCHANGED <<transport, initialized, initializedCWD, userAgent, mu>>
                   /\ UNCHANGED <<op, cwd, result, servers, bounds, history>>

-----------------------------------------------------------------------------
(* An exchange: a goroutine takes the pipes, writes the request and reads   *)
(* until a line has an id; a notification ends with the write.              *)
Method(c) == IF op[c] = "observe" THEN "skills/list" ELSE op[c]
Found(c, at, line) == io' = [io EXCEPT ![c] = [at |-> at, line |-> line]]
Pipe(c) == UNCHANGED <<client, pc, op, cwd, used, id, result, process, closing, bounds, history, crashed>>

(* Writing succeeds while the pipe is open and somebody holds its other end. *)
Write(c) == LET t == used[c] IN
    /\ io[c].at = "write" /\ ioMu[t] = "free" /\ ~crashed
    /\ \/ /\ closing[t] # "closed" /\ process[t] = "running"
          /\ inbox' = [inbox EXCEPT ![t] = Append(@, [id |-> id[c], by |-> Method(c)])]
          /\ IF op[c] = "initialized" THEN Found(c, "found", NoLine) /\ UNCHANGED ioMu
             ELSE Found(c, "read", NoLine) /\ ioMu' = [ioMu EXCEPT ![t] = c]
       \/ (closing[t] # "no" \/ process[t] # "running") /\ Found(c, "error", NoLine) /\ UNCHANGED <<inbox, ioMu>>
    /\ UNCHANGED outbox /\ Pipe(c)

(* Of an oversized line the rest stays in the pipe, and the next reader     *)
(* passes over it.                                                          *)
Read(c) == LET t == used[c]
               line == Head(outbox[t]) IN
    /\ io[c].at = "read" /\ outbox[t] # <<>> /\ ~crashed
    /\ CASE line.body = "skipped" ->
              outbox' = [outbox EXCEPT ![t] = Tail(@)] /\ UNCHANGED <<io, ioMu>>
         [] line.body = "oversized" ->
              outbox' = [outbox EXCEPT ![t] = <<NoLine>> \o Tail(@)] /\ Found(c, "error", NoLine) /\ ioMu' = [ioMu EXCEPT ![t] = "free"]
         [] OTHER ->
              outbox' = [outbox EXCEPT ![t] = Tail(@)] /\ Found(c, "found", line) /\ ioMu' = [ioMu EXCEPT ![t] = "free"]
    /\ UNCHANGED inbox /\ Pipe(c)
ReadFails(c) == LET t == used[c] IN
    /\ io[c].at = "read" /\ ~crashed
    /\ closing[t] = "closed" \/ (process[t] = "gone" /\ outbox[t] = <<>>)
    /\ Found(c, "error", NoLine) /\ ioMu' = [ioMu EXCEPT ![t] = "free"]
    /\ UNCHANGED <<inbox, outbox>> /\ Pipe(c)

(* The caller waits for the goroutine, or gives up when its time is over or *)
(* its call is cancelled: then it closes the transport and waits all the    *)
(* same.  When both have happened it takes either.                          *)
(* Mutant: it waits without closing the transport.                          *)
GiveUpFaulty(c) == /\ At(c, "await") /\ Goto(c, "drain")
                   /\ UNCHANGED <<client, op, cwd, used, id, io, result, servers, bounds, history, crashed>>
CloseTransport(c) == /\ Goto(c, "closing")
                     /\ closing' = [closing EXCEPT ![used[c]] = IF @ = "no" THEN "closing" ELSE @]
                     /\ UNCHANGED <<client, op, cwd, used, id, io, result, ioMu, inbox, outbox, process, bounds, history, crashed>>
GiveUp(c) == At(c, "await") /\ CloseTransport(c)

(* Transport.Close takes effect once; later ones wait for the first.        *)
BeginClose(c) == At(c, "close") /\ CloseTransport(c)
EndClose(c) == /\ At(c, "closing") /\ process[used[c]] = "gone"
               /\ closing' = [closing EXCEPT ![used[c]] = "closed"]
               /\ IF op[c] = "close" THEN Return(c, Returned("closed")) ELSE Goto(c, "drain") /\ Remain
               /\ UNCHANGED <<client, io, ioMu, inbox, outbox, process, bounds, observed, crashed>>

(* A failed initialization leaves the transport in place.                   *)
(* Mutant: it forgets the transport.                                        *)
ReleaseFaulty == transport' = 0 /\ mu' = "free" /\ UNCHANGED <<initialized, initializedCWD, userAgent, nextID>>
Release == UNCHANGED <<transport, initialized, initializedCWD, userAgent, nextID>> /\ mu' = "free"
NoExchange(c) == io' = [io EXCEPT ![c] = NotReading]
Fails(c, status) == /\ Return(c, Returned(status))
                    /\ IF op[c] = "observe" THEN UNCHANGED client ELSE Release
                    /\ NoExchange(c) /\ UNCHANGED observed
Exchanged(c, p) == /\ At(c, p) /\ io[c].at \in {"found", "error"}
                   /\ UNCHANGED <<servers, bounds, crashed>>
Drain(c) == Exchanged(c, "drain") /\ Fails(c, "failed")

(* An answer is accepted for its own request only.                          *)
(* Mutant: an answer is taken for that of the request just sent.            *)
AcceptedFaulty(c) == io[c].at = "found" /\ (op[c] = "initialized" \/ io[c].line.body \in {"result", "mismatch"})
Accepted(c) == /\ io[c].at = "found"
               /\ op[c] = "initialized" \/ (io[c].line.id = id[c] /\ io[c].line.body \in {"result", "mismatch"})

Refused(c) == /\ Exchanged(c, "await")
              /\ \/ ~Accepted(c) /\ Fails(c, "failed")
                 \/ Accepted(c) /\ op[c] = "observe" /\ io[c].line.body = "mismatch" /\ Fails(c, "mismatch")
Answered(c) == Exchanged(c, "await") /\ Accepted(c)
(* A result of "initialize" without a usable version is one all the same.   *)
ServerReady(c) == /\ Answered(c) /\ op[c] = "initialize"
                  /\ userAgent' = used[c] /\ op' = [op EXCEPT ![c] = "initialized"]
                  /\ io' = [io EXCEPT ![c] = [at |-> "write", line |-> NoLine]]
                  /\ UNCHANGED <<transport, initialized, initializedCWD, nextID, mu, pc, cwd, used, id, result, history>>
ClientReady(c) == /\ Answered(c) /\ op[c] = "initialized"
                  /\ initialized' = TRUE /\ initializedCWD' = cwd[c] /\ mu' = "free"
                  /\ epoch' = [epoch EXCEPT ![c] = closes]
                  /\ Goto(c, "check") /\ NoExchange(c) /\ op' = [op EXCEPT ![c] = "observe"]
                  /\ UNCHANGED <<transport, userAgent, nextID, cwd, used, id, result, observed>>
Observed(c) == /\ Answered(c) /\ op[c] = "observe" /\ io[c].line.body = "result"
               /\ Return(c, [status |-> "observed", server |-> used[c], id |-> io[c].line.id, agent |-> userAgent])
               /\ observed' = observed \union {<<epoch[c], cwd[c]>>}
               /\ NoExchange(c) /\ UNCHANGED client

-----------------------------------------------------------------------------
(* The App Server: answers its requests in order, writes lines that answer  *)
(* nothing, repeats an answer, and exits, always once it is killed.         *)
Server == UNCHANGED <<client, callers, ioMu, closing, opens, closes, calls, history, crashed>>
Asked(t) == inbox[t] # <<>> /\ process[t] = "running" /\ ~crashed
Answer(t) == /\ Asked(t) /\ inbox' = [inbox EXCEPT ![t] = Tail(@)]
             /\ LET r == Head(inbox[t]) IN
                IF r.by = "initialized" THEN UNCHANGED <<outbox, strays>>
                ELSE \E b \in {"result", "error"} \union (IF r.by = "initialize" THEN {} ELSE {"mismatch"}), twice \in BOOLEAN :
                        /\ IF twice THEN strays < MaxStrays /\ strays' = strays + 1 ELSE UNCHANGED strays
                        /\ outbox' = [outbox EXCEPT ![t] = @ \o IF twice THEN <<Line(r.id, b), Line(r.id, b)>> ELSE <<Line(r.id, b)>>]
             /\ UNCHANGED process /\ Server
Stray(t) == /\ process[t] = "running" /\ strays < MaxStrays /\ strays' = strays + 1 /\ ~crashed
            /\ \E l \in {NoLine, Line(0, "oversized"), Line(1, "request")} : outbox' = [outbox EXCEPT ![t] = Append(@, l)]
            /\ UNCHANGED <<inbox, process>> /\ Server
Exit(t) == /\ process[t] = "running" /\ process' = [process EXCEPT ![t] = "gone"] /\ ~crashed
           /\ UNCHANGED <<inbox, outbox, strays>> /\ Server

Step(c) == \/ TakeTransport(c) \/ Initialize(c) \/ LookAtTransport(c) \/ UseTransport(c)
           \/ GiveUp(c) \/ BeginClose(c) \/ EndClose(c) \/ Drain(c)
           \/ Refused(c) \/ ServerReady(c) \/ ClientReady(c) \/ Observed(c)
Transfer(c) == Write(c) \/ Read(c) \/ ReadFails(c)
Next == \/ \E c \in Callers : Call(c) \/ Step(c) \/ Transfer(c)
        \/ \E t \in Servers : Answer(t) \/ Stray(t) \/ Exit(t)
        \/ (crashed \/ (calls = MaxCalls /\ \A c \in Callers : pc[c] = "idle")) /\ UNCHANGED vars

(* Go's mutexes starve nobody, timers fire, and a killed process exits.     *)
Killed(t) == closing[t] = "closing" /\ Exit(t)
Fairness == /\ \A c \in Callers : SF_vars(Step(c)) /\ SF_vars(Transfer(c))
            /\ \A t \in Servers : WF_vars(Killed(t))
Spec == Init /\ [][Next]_vars /\ Fairness

-----------------------------------------------------------------------------
TypeOK == /\ transport \in 0..MaxOpens /\ initialized \in BOOLEAN /\ initializedCWD \in Cwds \union {NoCwd}
          /\ userAgent \in 0..MaxOpens /\ nextID \in IDs /\ mu \in Callers \union {"free"}
          /\ pc \in [Callers -> {"idle", "lock", "check", "use", "await", "close", "closing", "drain"}]
          /\ op \in [Callers -> {"none", "observe", "close", "initialize", "initialized"}]
          /\ cwd \in [Callers -> Cwds \union {NoCwd}]
          /\ used \in [Callers -> 0..MaxOpens] /\ id \in [Callers -> IDs]
          /\ io \in [Callers -> Finds] /\ result \in [Callers -> Results]
          /\ ioMu \in [Servers -> Callers \union {"free"}]
          /\ \A t \in Servers : inbox[t] \in Seq(Requests) /\ outbox[t] \in Seq(Lines)
          /\ process \in [Servers -> {"none", "running", "gone"}] /\ closing \in [Servers -> {"no", "closing", "closed"}]
          /\ opens \in 0..MaxOpens /\ calls \in 0..MaxCalls /\ closes \in Nat /\ strays \in 0..MaxStrays
          /\ epoch \in [Callers -> Nat] /\ observed \subseteq Nat \X Cwds
          /\ crashed \in BOOLEAN

(* An observation rests on the answer to its own request, whatever stray,  *)
(* repeated or late lines the pipes hold; and unless the client has been   *)
(* closed meanwhile it names the version of the server that answered.      *)
OwnAnswers == [][\A c \in Callers : result'[c] # result[c] /\ result'[c].status = "observed" =>
                    /\ result'[c].id = id[c]
                    /\ epoch[c] = closes => result'[c].agent = result'[c].server]_vars

(* Between two closings a client observes one working directory only.      *)
BindsCwd == \A x, y \in observed : x[1] = y[1] => x[2] = y[2]

(* A running server is the client's, or somebody is about to close it:     *)
(* neither a failed initialization nor Close loses one.                    *)
NoServerIsLost == \A t \in Servers : process[t] = "running" /\ closing[t] = "no" =>
                      t = transport \/ \E c \in Callers : pc[c] = "close" /\ used[c] = t

(* Every call returns, though servers may never answer.  The program can   *)
(* panic instead, but only once Close has been called.                     *)
EveryCallReturns == \A c \in Callers : (pc[c] # "idle") ~> (pc[c] = "idle" \/ (crashed /\ closes > 0))
=============================================================================
