------------------------------- MODULE System -------------------------------
(***************************************************************************)
(* Client and server together, across graceful and forced shutdowns,       *)
(* crashes and restarts of the server and losses of connections: the calls *)
(* of one QuicChannel with their retry loop over one cached connection     *)
(* (crates/grpc-quic-client/src/channel.rs, pool.rs) against a server that *)
(* keeps ServerPromise (crates/grpc-quic-server/src/server.rs).            *)
(*                                                                         *)
(* The two sides know of each other what has arrived: cl is a connection   *)
(* as the client sees it, conn as the server does, and GOAWAY, the close   *)
(* of a connection, a request and a response each take a step of their     *)
(* own.  Calls and connections are numbered in the order they are made.    *)
(* A response is one message here; RpcExchange has its frames.             *)
(***************************************************************************)
EXTENDS Naturals, FiniteSets

CONSTANTS Calls,        \* bound: how many calls are made
          MaxAttempts,  \* RetryPolicy::max_attempts
          Limit,        \* handlers that may run at once
          MaxFaults     \* bound: faults, shutdowns and calls given up

ASSUME SystemAssumption == /\ Calls \in Nat \ {0}
                           /\ MaxAttempts \in Nat \ {0}
                           /\ Limit \in Nat \ {0}
                           /\ MaxFaults \in Nat

Call == 1 .. Calls

(* Each attempt of each call dials once at most. *)
Conn == 1 .. Calls * MaxAttempts
Request == Conn \X Call \X (0 .. MaxAttempts - 1)
ConnOf(q) == q[1]
CallOf(q) == q[2]

VARIABLES phase, forced, conn, running, admitted, killed,  \* see ServerPromise
          refused,   \* requests the server dropped for want of a permit
          lost,      \* connections that crash, force or the network cut
          cl, slot, st, attempt, via, sent,                \* see ClientPromise
          gaveUp,    \* calls ended by their deadline or their owner
          faults     \* faults, shutdowns and calls given up so far

server == <<phase, forced, conn, running, admitted, killed>>
client == <<cl, slot, st, attempt, via, sent>>
vars == <<server, refused, lost, client, gaveUp, faults>>

Server == INSTANCE ServerPromise
Client == INSTANCE ClientPromise WITH None <- 0

Live == {"open", "goaway"}
Ended == {"answered", "failed"}
NextConn == Cardinality({k \in Conn : cl[k] # "none"}) + 1
Finished == admitted \ (running \cup killed)
Asked(r) == <<via[r], r, attempt[r]>>

Init == /\ Server!Init
        /\ Client!Init
        /\ refused = {} /\ lost = {} /\ gaveUp = {}
        /\ faults = 0

-----------------------------------------------------------------------------
(* The client, as ClientPromise has it. *)

Begin(r) ==
    /\ \A earlier \in 1 .. (r - 1) : st[earlier] # "idle"
    /\ Client!Begin(r)
    /\ UNCHANGED <<server, refused, lost, gaveUp, faults>>

Lookup(r) == Client!Lookup(r) /\ UNCHANGED <<server, refused, lost, gaveUp, faults>>

(* One more fault, and a step that is a fault unless it has a reason. *)
Fault == faults < MaxFaults /\ faults' = faults + 1
UnlessFault(reason) == IF reason THEN UNCHANGED faults ELSE Fault

(* The connect task succeeds: the server has accepted the connection.      *)
(* There is always a next connection: Conn has one for each attempt.       *)
DialOk ==
    /\ \E k \in Conn : k = NextConn /\ Server!Open(k) /\ Client!DialOk(k) /\ cl'[k] = "open"
    /\ UNCHANGED <<refused, lost, gaveUp, faults>>

DialErr ==
    /\ UnlessFault(phase # "up")
    /\ UNCHANGED <<server, refused, lost, cl, gaveUp>>
    /\ Client!DialErr

(* send_request knows only what has arrived: the connection may be gone.   *)
SendOk(r) == Client!SendOk(r) /\ UNCHANGED <<server, refused, lost, gaveUp, faults>>

SendErr(r) ==
    /\ Client!SendErr(r)
    /\ UnlessFault(cl[via[r]] # "open")
    /\ UNCHANGED <<server, refused, lost, gaveUp>>

Continue(r) == Client!Continue(r) /\ UNCHANGED <<server, refused, lost, gaveUp, faults>>

(* recv_response: the response has arrived before any close. *)
ResponseOk(r) ==
    /\ Asked(r) \in Finished
    /\ Client!ResponseOk(r)
    /\ UNCHANGED <<server, refused, lost, gaveUp, faults>>

(* Mutant: a failed response is retried like a failed request. *)
ResponseErrRetried(r) ==
    /\ Client!Moves(r, "awaiting", "failing")
    /\ Asked(r) \in refused \/ cl[via[r]] = "closed"
    /\ UNCHANGED <<server, refused, lost, cl, slot, attempt, via, sent, gaveUp, faults>>

(* The stream has ended without a response, or its connection is closed. *)
ResponseErr(r) ==
    /\ st[r] = "awaiting"
    /\ Asked(r) \in refused \/ cl[via[r]] = "closed"
    /\ Client!Fail(r)
    /\ UNCHANGED <<server, refused, lost, gaveUp, faults>>

(* A deadline fires at any await of the call, or its owner drops it there. *)
(* Whatever has been sent is on its way, and the server is not told here.  *)
GiveUp(r) ==
    /\ st[r] # "idle"
    /\ Fault
    /\ Client!Fail(r)
    /\ gaveUp' = gaveUp \cup {r}
    /\ UNCHANGED <<server, refused, lost>>

-----------------------------------------------------------------------------
(* What arrives at the client from its connections.                        *)

GoawayArrives(k) ==
    /\ conn[k] \in {"closing", "gone"} /\ k \notin lost
    /\ Client!Goaway(k)
    /\ UNCHANGED <<server, refused, lost, gaveUp, faults>>

(* Mutant: a connection without an idle timeout. *)
CloseArrivesOnly(k) ==
    /\ k \notin lost /\ conn[k] = "gone"
    /\ Client!Close(k)
    /\ UNCHANGED <<server, refused, lost, gaveUp, faults>>

(* The server's close arrives, or the idle timeout of a lost connection.   *)
CloseArrives(k) ==
    /\ k \in lost \/ conn[k] = "gone"
    /\ Client!Close(k)
    /\ UNCHANGED <<server, refused, lost, gaveUp, faults>>

-----------------------------------------------------------------------------
(* The server, as ServerPromise has it.                                    *)

(* Mutant: a request turned away is taken up after all. *)
AdmitRefused(q) ==
    /\ q \in sent
    /\ ConnOf(q) \notin lost
    /\ Server!Admit(q)
    /\ UNCHANGED <<refused, lost, client, gaveUp, faults>>

(* What has arrived before a connection is lost is dispatched before. *)
Admit(q) ==
    /\ q \in sent \ refused
    /\ ConnOf(q) \notin lost
    /\ Server!Admit(q)
    /\ UNCHANGED <<refused, lost, client, gaveUp, faults>>

Overloaded(q) ==
    /\ q \in sent \ (admitted \cup refused)
    /\ conn[ConnOf(q)] = "serving" /\ ConnOf(q) \notin lost
    /\ Cardinality(running) = Limit
    /\ refused' = refused \cup {q}
    /\ UNCHANGED <<server, lost, client, gaveUp, faults>>

HandlerEnds(q) == Server!Finish(q) /\ UNCHANGED <<refused, lost, client, gaveUp, faults>>

(* The connection's loop is left by the cancel arm, or on its loss; this   *)
(* client sends no GOAWAY.                                                 *)
LeaveLoop(k) ==
    /\ phase # "up" \/ k \in lost
    /\ Server!StopServing(k)
    /\ UNCHANGED <<refused, lost, client, gaveUp, faults>>

CloseDrained(k) ==
    /\ conn[k] = "closing"
    /\ Server!Close(k)
    /\ UNCHANGED <<refused, lost, client, gaveUp, faults>>

Start == Server!Start /\ UNCHANGED <<refused, lost, client, gaveUp, faults>>

Shutdown == Fault /\ Server!Shutdown /\ UNCHANGED <<refused, lost, client, gaveUp>>

Return == Server!Return /\ UNCHANGED <<refused, lost, client, gaveUp, faults>>

Current == {k \in Conn : conn[k] \in {"serving", "closing"}}

(* The grace period is over: the endpoint closes what is still open. *)
ForcedReturn ==
    /\ Server!ForcedReturn
    /\ lost' = lost \cup Current
    /\ UNCHANGED <<refused, client, gaveUp, faults>>

AbortTask(k) == Server!Abort(k) /\ UNCHANGED <<refused, lost, client, gaveUp, faults>>
AbortHandler(q) == Server!Kill(q) /\ UNCHANGED <<refused, lost, client, gaveUp, faults>>

-----------------------------------------------------------------------------
(* Faults.                                                                 *)

(* A process takes its connections and handlers with it, and tells nobody. *)
ProcessEnds ==
    /\ conn' = [k \in Conn |-> IF conn[k] = "none" THEN "none" ELSE "gone"]
    /\ lost' = lost \cup Current
    /\ running' = {}
    /\ killed' = killed \cup running
    /\ forced' = FALSE
    /\ UNCHANGED <<admitted, refused, client, gaveUp>>

Crash ==
    /\ phase \in {"up", "draining"}
    /\ Fault
    /\ phase' = "down"
    /\ ProcessEnds

(* The owner starts the server again, on the same address. *)
Restart ==
    /\ phase = "down"
    /\ phase' = "off"
    /\ ProcessEnds
    /\ UNCHANGED faults

ConnectionLost(k) ==
    /\ cl[k] \in Live /\ k \notin lost
    /\ Fault
    /\ lost' = lost \cup {k}
    /\ UNCHANGED <<server, refused, client, gaveUp>>

AllDone == (\A r \in Call : st[r] \in Ended) /\ UNCHANGED vars

-----------------------------------------------------------------------------
CallStep(r) == \/ Lookup(r) \/ SendOk(r) \/ SendErr(r) \/ Continue(r)
               \/ ResponseOk(r) \/ ResponseErr(r)
Dial == DialOk \/ DialErr
ServerStep == \/ Return
              \/ \E k \in Conn : LeaveLoop(k) \/ CloseDrained(k) \/ AbortTask(k)
              \/ \E q \in sent : Admit(q) \/ Overloaded(q) \/ HandlerEnds(q) \/ AbortHandler(q)

Next == \/ \E r \in Call : Begin(r) \/ CallStep(r) \/ GiveUp(r)
        \/ Dial
        \/ \E k \in Conn : GoawayArrives(k) \/ CloseArrives(k) \/ ConnectionLost(k)
        \/ ServerStep \/ Start \/ Shutdown \/ ForcedReturn
        \/ Crash \/ Restart
        \/ AllDone

(* Tasks and timers run, dials end, handlers end, and a connection that is *)
(* dead is found out by its idle timeout.  Nobody has to call, to stop the *)
(* server or to start it again.                                            *)
Spec == /\ Init /\ [][Next]_vars
        /\ \A r \in Call : WF_vars(CallStep(r))
        /\ WF_vars(Dial)
        /\ \A k \in Conn : WF_vars(CloseArrives(k))
        /\ WF_vars(ServerStep)

-----------------------------------------------------------------------------
TypeOK == /\ phase \in {"off", "up", "draining", "down"} /\ forced \in BOOLEAN
          /\ conn \in [Conn -> {"none", "serving", "closing", "gone"}]
          /\ running \subseteq admitted /\ killed \subseteq admitted
          /\ admitted \subseteq sent /\ refused \subseteq sent \ admitted
          /\ sent \subseteq Request /\ lost \subseteq Conn
          /\ gaveUp \subseteq Call
          /\ faults \in 0 .. MaxFaults
          /\ cl \in [Conn -> {"none", "open", "goaway", "closed"}]
          /\ slot \in {Client!Vacant, Client!Dialing} \cup [tag : {"ready"}, k : Conn]
          /\ st \in [Call -> {"idle", "lookup", "waiting", "sending", "failing", "awaiting"}
                         \cup Ended]
          /\ attempt \in [Call -> 0 .. MaxAttempts]
          /\ via \in [Call -> Conn \cup {0}]

(* A call is executed once at most, over all its attempts, connections and *)
(* lives of the server: what may have been seen by a server is not retried. *)
AtMostOnce == \A p, q \in admitted : CallOf(p) = CallOf(q) => p = q

(* A call fails while its handler still runs only by its own deadline or   *)
(* owner, or where the connection was cut: by the network, a crash or a    *)
(* forced shutdown.  No drain and no other call's failure does it.         *)
FailedWhileRunning ==
    \A r \in Call \ gaveUp :
        st[r] = "failed" /\ Asked(r) \in running => via[r] \in lost

(* Every call ends, in whatever way servers and connections come and go.   *)
EveryCallEnds == \A r \in Call : st[r] = "lookup" ~> st[r] \in Ended

(* The cached connection, if there is one, is closed or really there. *)
Healthy ==
    slot.tag = "ready" =>
        \/ cl[slot.k] = "closed"
        \/ cl[slot.k] = "open" /\ conn[slot.k] = "serving" /\ slot.k \notin lost

(* Whatever has happened, a call that finds the server up and no dead      *)
(* connection in the pool gets its answer, unless there is another fault   *)
(* or the server is overloaded: connections that closed in earlier lives   *)
(* of the server, and dials that failed, do not stand in its way.          *)
Recovered ==
    \A r \in Call, n \in 0 .. MaxFaults :
        faults = n /\ phase = "up" /\ Healthy /\ st[r] = "lookup"
            ~> faults # n \/ st[r] = "answered" \/ Asked(r) \in refused

-----------------------------------------------------------------------------
(* What the tests say, and the code does not do.                           *)

(* An RPC that is active when a graceful shutdown begins works to its end: *)
(* what its handler has answered reaches the client.  The connection is    *)
(* closed as soon as the handler has ended, which may come before the      *)
(* response and discards it.                                               *)
GracefulDelivers ==
    \A r \in Call \ gaveUp :
        st[r] = "failed" => Asked(r) \notin Finished \/ via[r] \in lost
=============================================================================
