------------------------------ MODULE QuicServer ------------------------------
(***************************************************************************)
(* The server's accept loop, its connection tasks and their request tasks  *)
(* (crates/grpc-quic-server/src/server.rs): who is admitted, the semaphore *)
(* all connections share, and the graceful shutdown with its time limit.   *)
(*                                                                         *)
(* Each select! arm is an action, and an arm that awaits inside its body   *)
(* has a state of its own: while a handshake is awaited the server accepts *)
(* nothing else, and while the headers of one request are awaited its      *)
(* connection neither accepts another nor sees the cancellation.           *)
(***************************************************************************)
EXTENDS Naturals, FiniteSets

CONSTANTS Conn,                  \* connections that clients attempt
          Stream,                \* names of the request streams of one connection
          MaxConcurrentStreams,  \* the builder's max_concurrent_streams
          Floor, Factor,         \* 64 and 4 in the code
          None                   \* no connection, request or configuration

ASSUME ServerAssumption == /\ MaxConcurrentStreams \in Nat
                           /\ Floor \in Nat
                           /\ Factor \in Nat
                           /\ None \notin Conn \cup (Conn \X Stream)

Request == Conn \X Stream
ConnOf(q) == q[1]
RequestsOf(c) == {c} \X Stream

StreamLimit ==
    (IF MaxConcurrentStreams >= Floor THEN MaxConcurrentStreams ELSE Floor) * Factor

VARIABLES srv,        \* the serve loop
          tls,        \* the builder's TLS configuration
          signal,     \* whether the shutdown signal has completed
          cancel,     \* whether the cancellation has been broadcast
          forced,     \* whether the grace period ran out
          handshake,  \* the connection whose handshake accept() awaits
          cs,         \* where each connection and its task stand
          link,       \* the QUIC connection as the server sees it
          current,    \* the request whose headers each connection task awaits
          qs,         \* where each request stream stands
          permits     \* free permits of the stream semaphore

vars == <<srv, tls, signal, cancel, forced, handshake, cs, link, current, qs, permits>>
serveVars == <<srv, tls, signal, cancel, forced, handshake>>

(* States of a connection whose task has been spawned and has not ended. *)
TaskRunning == {"building", "loop", "resolving", "joining"}
Running(c) == {q \in RequestsOf(c) : qs[q] = "running"}
AllRunning == {q \in Request : qs[q] = "running"}

Init == /\ srv = "starting"
        /\ tls \in {None, "client", "server"}
        /\ signal = FALSE
        /\ cancel = FALSE
        /\ forced = FALSE
        /\ handshake = None
        /\ cs = [c \in Conn |-> "none"]
        /\ link = [c \in Conn |-> "none"]
        /\ current = [c \in Conn |-> None]
        /\ qs = [q \in Request |-> "none"]
        /\ permits = StreamLimit

-----------------------------------------------------------------------------
(* The environment: clients, networks, and the owner of the server.        *)

(* Without a server configuration the endpoint refuses new connections. *)
ClientConnects(c) ==
    /\ cs[c] = "none"
    /\ cs' = [cs EXCEPT ![c] = IF srv = "running" THEN "arriving" ELSE "refused"]
    /\ UNCHANGED <<serveVars, link, current, qs, permits>>

ClientOpens(q) ==
    /\ qs[q] = "none"
    /\ link[ConnOf(q)] = "open"
    /\ qs' = [qs EXCEPT ![q] = "open"]
    /\ UNCHANGED <<serveVars, cs, link, current, permits>>

ClientSendsHeaders(q) ==
    /\ qs[q] = "open"
    /\ link[ConnOf(q)] = "open"
    /\ qs' = [qs EXCEPT ![q] = "sent"]
    /\ UNCHANGED <<serveVars, cs, link, current, permits>>

PeerCloses(c) ==
    /\ link[c] = "open"
    /\ link' = [link EXCEPT ![c] = "lost"]
    /\ UNCHANGED <<serveVars, cs, current, qs, permits>>

SignalCompletes ==
    /\ ~signal
    /\ signal' = TRUE
    /\ UNCHANGED <<srv, tls, cancel, forced, handshake, cs, link, current, qs, permits>>

-----------------------------------------------------------------------------
(* serve_with_shutdown: the endpoint is bound before anything is served.   *)

StartOk ==
    /\ srv = "starting" /\ tls = "server"
    /\ srv' = "running"
    /\ UNCHANGED <<tls, signal, cancel, forced, handshake, cs, link, current, qs, permits>>

(* No TLS configuration, one for a client, or an address that is taken. *)
StartErr ==
    /\ srv = "starting"
    /\ srv' = "returned"
    /\ UNCHANGED <<tls, signal, cancel, forced, handshake, cs, link, current, qs, permits>>

-----------------------------------------------------------------------------
(* serve_with_incoming_shutdown: the loop.                                 *)

(* QuicEndpoint::accept takes a connection and awaits its handshake. *)
AcceptStart(c) ==
    /\ srv = "running" /\ handshake = None
    /\ cs[c] = "arriving"
    /\ handshake' = c
    /\ cs' = [cs EXCEPT ![c] = "handshake"]
    /\ UNCHANGED <<srv, tls, signal, cancel, forced, link, current, qs, permits>>

AcceptOk(c) ==
    /\ srv = "running" /\ handshake = c
    /\ handshake' = None
    /\ cs' = [cs EXCEPT ![c] = "building"]
    /\ link' = [link EXCEPT ![c] = "open"]
    /\ UNCHANGED <<srv, tls, signal, cancel, forced, current, qs, permits>>

(* Mutant: a failed handshake ends the accept loop. *)
AcceptErrEndsLoop(c) ==
    /\ srv = "running" /\ handshake = c
    /\ handshake' = None
    /\ srv' = "draining"
    /\ cs' = [cs EXCEPT ![c] = "refused"]
    /\ UNCHANGED <<tls, signal, cancel, forced, link, current, qs, permits>>

AcceptErr(c) ==
    /\ srv = "running" /\ handshake = c
    /\ handshake' = None
    /\ cs' = [cs EXCEPT ![c] = "refused"]
    /\ UNCHANGED <<srv, tls, signal, cancel, forced, link, current, qs, permits>>

(* The signal arm drops the accept future, and with it a handshake under   *)
(* way; connections that still arrive are refused.                         *)
SignalArm ==
    /\ srv = "running" /\ signal
    /\ srv' = "draining"
    /\ cancel' = TRUE
    /\ handshake' = None
    /\ cs' = [c \in Conn |-> IF cs[c] \in {"arriving", "handshake"} THEN "refused" ELSE cs[c]]
    /\ UNCHANGED <<tls, signal, forced, link, current, qs, permits>>

(* The endpoint's driver is lost: accept returns None, and every           *)
(* connection is gone.  Nothing is broadcast.                              *)
EndpointLost ==
    /\ srv = "running" /\ handshake = None
    /\ srv' = "draining"
    /\ cs' = [c \in Conn |-> IF cs[c] = "arriving" THEN "refused" ELSE cs[c]]
    /\ link' = [c \in Conn |-> IF link[c] = "open" THEN "lost" ELSE link[c]]
    /\ UNCHANGED <<tls, signal, cancel, forced, handshake, current, qs, permits>>

AllTasksEnded == \A c \in Conn : cs[c] \notin TaskRunning

(* The connection tasks have all been joined. *)
Drained ==
    /\ srv = "draining"
    /\ AllTasksEnded
    /\ srv' = "returned"
    /\ UNCHANGED <<tls, signal, cancel, forced, handshake, cs, link, current, qs, permits>>

(* Mutant: the time limit does not cover the handlers. *)
TimeoutSparesHandlers ==
    /\ srv = "draining"
    /\ ~AllTasksEnded /\ AllRunning = {}
    /\ srv' = "returned"
    /\ forced' = TRUE
    /\ link' = [c \in Conn |-> IF link[c] = "open" THEN "forced" ELSE link[c]]
    /\ UNCHANGED <<tls, signal, cancel, handshake, cs, current, qs, permits>>

(* graceful_timeout: the endpoint closes every connection, and serve       *)
(* returns, which drops the join set and so aborts the connection tasks.   *)
GraceTimeout ==
    /\ srv = "draining"
    /\ ~AllTasksEnded
    /\ srv' = "returned"
    /\ forced' = TRUE
    /\ link' = [c \in Conn |-> IF link[c] = "open" THEN "forced" ELSE link[c]]
    /\ UNCHANGED <<tls, signal, cancel, handshake, cs, current, qs, permits>>

-----------------------------------------------------------------------------
(* handle_connection: one task per connection.                             *)

BuildOk(c) ==
    /\ cs[c] = "building"
    /\ link[c] = "open"
    /\ cs' = [cs EXCEPT ![c] = "loop"]
    /\ UNCHANGED <<serveVars, link, current, qs, permits>>

(* The task's handles are dropped, which closes the connection. *)
BuildErr(c) ==
    /\ cs[c] = "building"
    /\ cs' = [cs EXCEPT ![c] = "ended"]
    /\ link' = [link EXCEPT ![c] = IF @ = "open" THEN "dropped" ELSE @]
    /\ UNCHANGED <<serveVars, current, qs, permits>>

(* The accept arm: from here on only resolve_request is polled. *)
ConnAccept(q) ==
    LET c == ConnOf(q) IN
    /\ cs[c] = "loop"
    /\ link[c] = "open"
    /\ qs[q] \in {"open", "sent"}
    /\ cs' = [cs EXCEPT ![c] = "resolving"]
    /\ current' = [current EXCEPT ![c] = q]
    /\ UNCHANGED <<serveVars, link, qs, permits>>

Back(c) == /\ cs' = [cs EXCEPT ![c] = "loop"]
           /\ current' = [current EXCEPT ![c] = None]

(* Mutant: the number of running handlers is not checked. *)
DispatchUnchecked(c) ==
    /\ cs[c] = "resolving"
    /\ qs[current[c]] = "sent"
    /\ permits' = permits - 1
    /\ qs' = [qs EXCEPT ![current[c]] = "running"]
    /\ Back(c)
    /\ UNCHANGED <<serveVars, link>>

(* Mutant: the permit is not moved into the task, and is dropped here. *)
DispatchDropsPermit(c) ==
    /\ cs[c] = "resolving"
    /\ qs[current[c]] = "sent"
    /\ permits > 0
    /\ qs' = [qs EXCEPT ![current[c]] = "running"]
    /\ Back(c)
    /\ UNCHANGED <<serveVars, link, permits>>

(* resolve_request has the headers, and a permit is free: spawn a handler. *)
Dispatch(c) ==
    LET q == current[c] IN
    /\ cs[c] = "resolving"
    /\ qs[q] = "sent"
    /\ permits > 0
    /\ permits' = permits - 1
    /\ qs' = [qs EXCEPT ![q] = "running"]
    /\ Back(c)
    /\ UNCHANGED <<serveVars, link>>

(* try_acquire_owned fails: the stream is dropped. *)
Overloaded(c) ==
    LET q == current[c] IN
    /\ cs[c] = "resolving"
    /\ qs[q] = "sent"
    /\ permits = 0
    /\ qs' = [qs EXCEPT ![q] = "rejected"]
    /\ Back(c)
    /\ UNCHANGED <<serveVars, link, permits>>

(* The headers are malformed, or the connection is lost. *)
ResolveErr(c) ==
    LET q == current[c] IN
    /\ cs[c] = "resolving"
    /\ qs[q] = "sent" \/ link[c] # "open"
    /\ qs' = [qs EXCEPT ![q] = "rejected"]
    /\ Back(c)
    /\ UNCHANGED <<serveVars, link, permits>>

(* Mutant: the connection is dropped as soon as it is cancelled. *)
CancelDropsConnection(c) ==
    /\ cs[c] = "loop"
    /\ cancel
    /\ cs' = [cs EXCEPT ![c] = "joining"]
    /\ link' = [link EXCEPT ![c] = IF @ = "open" THEN "dropped" ELSE @]
    /\ UNCHANGED <<serveVars, current, qs, permits>>

(* The cancel arm sends GOAWAY and leaves the loop for the join. *)
CancelArm(c) ==
    /\ cs[c] = "loop"
    /\ cancel
    /\ cs' = [cs EXCEPT ![c] = "joining"]
    /\ UNCHANGED <<serveVars, link, current, qs, permits>>

(* Mutant: a connection that ends returns without joining its requests. *)
AcceptEndsTask(c) ==
    /\ cs[c] = "loop"
    /\ cs' = [cs EXCEPT ![c] = "ended"]
    /\ UNCHANGED <<serveVars, link, current, qs, permits>>

(* h3 accept returns an error or None. *)
AcceptEnds(c) ==
    /\ cs[c] = "loop"
    /\ cs' = [cs EXCEPT ![c] = "joining"]
    /\ UNCHANGED <<serveVars, link, current, qs, permits>>

(* It does so when the connection is lost, ...                             *)
AcceptLost(c) == link[c] # "open" /\ AcceptEnds(c)

(* ... or, on one that is open, when the client sends GOAWAY or breaks the *)
(* protocol, which a client may do or not.                                 *)
ClientGoesAway(c) == link[c] = "open" /\ AcceptEnds(c)

(* All request tasks are joined: the drop of h3_conn closes the connection. *)
JoinDone(c) ==
    /\ cs[c] = "joining"
    /\ Running(c) = {}
    /\ cs' = [cs EXCEPT ![c] = "ended"]
    /\ link' = [link EXCEPT ![c] = IF @ = "open" THEN "dropped" ELSE @]
    /\ UNCHANGED <<serveVars, current, qs, permits>>

(* handle_request ends, in whatever way: its permit is dropped with it. *)
HandlerDone(q) ==
    /\ qs[q] = "running"
    /\ qs' = [qs EXCEPT ![q] = "done"]
    /\ permits' = permits + 1
    /\ UNCHANGED <<serveVars, cs, link, current>>

-----------------------------------------------------------------------------
(* Mutant: request tasks are not in a join set, and survive their task. *)
AbortDetachesHandlers(c) ==
    /\ srv = "returned" /\ cs[c] \in TaskRunning
    /\ cs' = [cs EXCEPT ![c] = "ended"]
    /\ current' = [current EXCEPT ![c] = None]
    /\ qs' = IF current[c] = None THEN qs ELSE [qs EXCEPT ![current[c]] = "rejected"]
    /\ UNCHANGED <<serveVars, link, permits>>

(* After a forced return the runtime drops the aborted tasks one by one,   *)
(* and each connection task aborts its request tasks with its join set.    *)
AbortConnection(c) ==
    /\ srv = "returned" /\ cs[c] \in TaskRunning
    /\ cs' = [cs EXCEPT ![c] = "aborted"]
    /\ current' = [current EXCEPT ![c] = None]
    /\ qs' = IF current[c] = None THEN qs ELSE [qs EXCEPT ![current[c]] = "rejected"]
    /\ UNCHANGED <<serveVars, link, permits>>

AbortHandler(q) ==
    /\ cs[ConnOf(q)] = "aborted" /\ qs[q] = "running"
    /\ qs' = [qs EXCEPT ![q] = "aborted"]
    /\ permits' = permits + 1
    /\ UNCHANGED <<serveVars, cs, link, current>>

Stopped == /\ srv = "returned" /\ AllTasksEnded /\ AllRunning = {}
           /\ UNCHANGED vars

ServeStep == \/ StartOk \/ StartErr \/ SignalArm \/ Drained
             \/ \E c \in Conn : AcceptStart(c) \/ AcceptOk(c) \/ AcceptErr(c)

ConnStep(c) == \/ BuildOk(c) \/ BuildErr(c)
               \/ \E q \in RequestsOf(c) : ConnAccept(q)
               \/ Dispatch(c) \/ Overloaded(c) \/ ResolveErr(c)
               \/ CancelArm(c) \/ AcceptLost(c) \/ JoinDone(c)
               \/ AbortConnection(c)

Next == \/ ServeStep \/ EndpointLost \/ GraceTimeout \/ SignalCompletes
        \/ \E c \in Conn : \/ ClientConnects(c) \/ ClientGoesAway(c) \/ PeerCloses(c)
                           \/ ConnStep(c)
        \/ \E q \in Request : \/ ClientOpens(q) \/ ClientSendsHeaders(q)
                              \/ HandlerDone(q) \/ AbortHandler(q)
        \/ Stopped

Spec == Init /\ [][Next]_vars

(* Spawned tasks and timers run; select! polls its arms in random order,   *)
(* so an arm that stays ready is taken, and quinn ends every handshake.    *)
(* Nothing is assumed of clients, nor that a handler ever ends.            *)
FairSpec ==
    /\ Spec
    /\ WF_vars(StartOk \/ StartErr)
    /\ WF_vars(SignalArm) /\ WF_vars(Drained) /\ WF_vars(GraceTimeout)
    /\ \A c \in Conn : /\ WF_vars(AcceptStart(c))
                       /\ WF_vars(AcceptOk(c) \/ AcceptErr(c))
                       /\ WF_vars(ConnStep(c))
    /\ \A q \in Request : WF_vars(AbortHandler(q))

-----------------------------------------------------------------------------
TypeOK == /\ srv \in {"starting", "running", "draining", "returned"}
          /\ tls \in {None, "client", "server"}
          /\ signal \in BOOLEAN /\ cancel \in BOOLEAN /\ forced \in BOOLEAN
          /\ handshake \in Conn \cup {None}
          /\ cs \in [Conn -> {"none", "arriving", "handshake", "refused", "ended", "aborted"}
                                 \cup TaskRunning]
          /\ link \in [Conn -> {"none", "open", "lost", "dropped", "forced"}]
          /\ current \in [Conn -> Request \cup {None}]
          /\ qs \in [Request -> {"none", "open", "sent", "running", "done", "rejected", "aborted"}]
          /\ permits \in 0 .. StreamLimit

(* Every permit is free or held by one running handler: no way out of a    *)
(* handler, not even an abort, leaks its permit.                           *)
PermitsConserved == permits + Cardinality(AllRunning) = StreamLimit

(* The server closes a connection of its own accord only when no handler   *)
(* of it runs: active streams are not destroyed by a graceful shutdown.    *)
ActiveStreamsKept == \A c \in Conn : link[c] = "dropped" => Running(c) = {}

(* The shutdown signal ends serve, whatever handlers and clients do. *)
ShutdownEnds == signal ~> srv = "returned"

(* When serve has returned, no task that it started stays behind. *)
NothingLeftBehind == srv = "returned" ~> AllRunning = {} /\ AllTasksEnded

(* Every connection that reaches the endpoint is accepted or refused, one  *)
(* handshake at a time.                                                    *)
EveryConnectionAnswered ==
    \A c \in Conn : cs[c] = "arriving" ~> cs[c] \notin {"arriving", "handshake"}

(* The server keeps its promise: with its tasks, permits and select arms   *)
(* taken away, what is left is ServerPromise, step for step.  A connection *)
(* serves until its task leaves the loop, and is closing while it joins.   *)
Standing(s) == CASE s \in {"building", "loop", "resolving"} -> "serving"
                 [] s = "joining" -> "closing"
                 [] s \in {"ended", "aborted"} -> "gone"
                 [] OTHER -> "none"

Phase == CASE srv = "starting" -> "off"
           [] srv = "running" -> "up"
           [] srv = "draining" -> "draining"
           [] OTHER -> "down"
Standings == [c \in Conn |-> Standing(cs[c])]
Admitted == {q \in Request : qs[q] \in {"running", "done", "aborted"}}
Killed == {q \in Request : qs[q] = "aborted"}

Promised == INSTANCE ServerPromise WITH
                ConnOf <- ConnOf, Limit <- StreamLimit,
                phase <- Phase, conn <- Standings,
                running <- AllRunning, admitted <- Admitted, killed <- Killed

ServerPromised == Promised!Spec

-----------------------------------------------------------------------------
(* What the documentation says, and the code does not do.                  *)

(* One slow stream cannot stall others: a request whose headers are there  *)
(* is taken up while its connection stays open and no shutdown or GOAWAY   *)
(* of the client begins.                                                   *)
(* The connection task awaits the headers of one request before it accepts *)
(* the next, so a stream that never sends them stalls every other.         *)
SlowStreamHarmless ==
    \A q \in Request :
        qs[q] = "sent" ~> \/ qs[q] # "sent"
                          \/ link[ConnOf(q)] # "open" \/ cs[ConnOf(q)] = "joining" \/ cancel
=============================================================================
