---------------------------- MODULE ServerPromise ----------------------------
(***************************************************************************)
(* What the server promises, without its tasks, permits and select arms    *)
(* (crates/grpc-quic-server/src/server.rs): a request is executed once at  *)
(* most, by a handler that its connection waits for; no more than Limit    *)
(* handlers run; a graceful stop waits for all of them, and only a forced  *)
(* one kills.  QuicServer implements it, and System builds on it.          *)
(***************************************************************************)
EXTENDS Naturals, FiniteSets

CONSTANTS Conn, Request,
          ConnOf(_),  \* the connection a request comes on
          Limit       \* handlers that may run at once

VARIABLES phase,     \* off, up, draining after the signal, or down
          forced,    \* whether it went down without waiting
          conn,      \* none, serving, closing (takes no requests), gone
          running,   \* requests whose handler runs
          admitted,  \* requests that have ever had a handler
          killed     \* requests whose handler was aborted

vars == <<phase, forced, conn, running, admitted, killed>>

RunningOn(c) == {q \in running : ConnOf(q) = c}

Init == /\ phase = "off"
        /\ forced = FALSE
        /\ conn = [c \in Conn |-> "none"]
        /\ running = {} /\ admitted = {} /\ killed = {}

Move(c, from, to) == /\ conn[c] \in from
                     /\ conn' = [conn EXCEPT ![c] = to]

Start == /\ phase = "off"
         /\ phase' \in {"up", "down"}
         /\ UNCHANGED <<forced, conn, running, admitted, killed>>

(* A connection is accepted, and its task serves it. *)
Open(c) == /\ phase = "up"
           /\ Move(c, {"none"}, "serving")
           /\ UNCHANGED <<phase, forced, running, admitted, killed>>

(* A request gets a handler: never twice, never on a closing connection.   *)
Admit(q) == /\ conn[ConnOf(q)] = "serving"
            /\ q \notin admitted
            /\ Cardinality(running) < Limit
            /\ running' = running \cup {q}
            /\ admitted' = admitted \cup {q}
            /\ UNCHANGED <<phase, forced, conn, killed>>

Finish(q) == /\ q \in running
             /\ running' = running \ {q}
             /\ UNCHANGED <<phase, forced, conn, admitted, killed>>

(* The connection takes no more requests: cancelled, or lost. *)
StopServing(c) == /\ Move(c, {"serving"}, "closing")
                  /\ UNCHANGED <<phase, forced, running, admitted, killed>>

(* Mutant: it is let go at once. *)
CloseAtOnce(c) == /\ Move(c, {"serving", "closing"}, "gone")
                  /\ UNCHANGED <<phase, forced, running, admitted, killed>>

(* It is let go once no handler of it is left. *)
Close(c) == /\ RunningOn(c) = {}
            /\ Move(c, {"serving", "closing"}, "gone")
            /\ UNCHANGED <<phase, forced, running, admitted, killed>>

Shutdown == /\ phase = "up"
            /\ phase' = "draining"
            /\ UNCHANGED <<forced, conn, running, admitted, killed>>

Return == /\ phase = "draining"
          /\ running = {} /\ \A c \in Conn : conn[c] \in {"none", "gone"}
          /\ phase' = "down"
          /\ UNCHANGED <<forced, conn, running, admitted, killed>>

ForcedReturn == /\ phase = "draining"
                /\ phase' = "down"
                /\ forced' = TRUE
                /\ UNCHANGED <<conn, running, admitted, killed>>

(* After a forced return connections are aborted, and then their handlers. *)
Abort(c) == /\ forced
            /\ Move(c, {"serving", "closing"}, "gone")
            /\ UNCHANGED <<phase, forced, running, admitted, killed>>

Kill(q) == /\ forced
           /\ q \in running /\ conn[ConnOf(q)] = "gone"
           /\ running' = running \ {q}
           /\ killed' = killed \cup {q}
           /\ UNCHANGED <<phase, forced, conn, admitted>>

Next == \/ Start \/ Shutdown \/ Return \/ ForcedReturn
        \/ \E c \in Conn : Open(c) \/ StopServing(c) \/ Close(c) \/ Abort(c)
        \/ \E q \in Request : Admit(q) \/ Finish(q) \/ Kill(q)

Spec == Init /\ [][Next]_vars

-----------------------------------------------------------------------------
(* What follows from it.                                                   *)

(* Unless it was forced, the server is down only when every handler has    *)
(* ended by itself, and only a forced stop aborts one.                     *)
GracefulReturn == ~forced => /\ killed = {}
                             /\ phase = "down" => running = {}

(* A handler runs on behalf of a connection task that has yet to join it:  *)
(* only a forced stop leaves a handler whose connection is gone.           *)
HandlersOwned ==
    \A q \in running :
        conn[ConnOf(q)] \in {"serving", "closing"} \cup IF forced THEN {"gone"} ELSE {}

(* Once a connection has left its loop, by cancellation, error or abort,   *)
(* its handlers only become fewer.                                         *)
DrainOnlyShrinks ==
    [][\A c \in Conn : conn[c] \in {"closing", "gone"} => RunningOn(c)' \subseteq RunningOn(c)]_vars

(* No request is executed twice: one that has had a handler and has none   *)
(* any more never has one again.                                           *)
ExecutedOnce ==
    [][\A q \in admitted \ running : q \notin running']_vars
=============================================================================
