---------------------------- MODULE ClientPromise ----------------------------
(***************************************************************************)
(* What the calls of a channel promise the server and their users, without *)
(* permits, waiters, connect tasks and forwarders                          *)
(* (crates/grpc-quic-client/src/channel.rs, pool.rs): a call takes one     *)
(* turn after the other, each with a connection that is cached, or being   *)
(* dialled, or dialled for it, until its request is sent; it is sent once. *)
(* QuicChannel implements it, and System builds on it.                     *)
(***************************************************************************)
EXTENDS Naturals

CONSTANTS Call,
          MaxAttempts,  \* turns a call may take
          Conn,
          None          \* no connection

VARIABLES cl,       \* connections: none, open, goaway (drains) or closed
          slot,     \* the pool's slot: vacant, dialing, or ready with a connection
          st,       \* where each call stands
          attempt,  \* the turn of its retry loop
          via,      \* the connection it sends on, or has sent on
          sent      \* requests that are on the wire

vars == <<cl, slot, st, attempt, via, sent>>

Live == {"open", "goaway"}
Ended == {"answered", "failed"}

Vacant == [tag |-> "vacant"]
Dialing == [tag |-> "dialing"]
Ready(k) == [tag |-> "ready", k |-> k]

(* The request of a call in the turn it is in. *)
Asked(r) == <<via[r], r, attempt[r]>>

Init == /\ cl = [k \in Conn |-> "none"]
        /\ slot = Vacant
        /\ st = [r \in Call |-> "idle"]
        /\ attempt = [r \in Call |-> 0]
        /\ via = [r \in Call |-> None]
        /\ sent = {}

Moves(r, from, to) == st[r] = from /\ st' = [st EXCEPT ![r] = to]

(* A policy without attempts has no first turn: such a call fails. *)
Begin(r) == /\ MaxAttempts # 0
            /\ Moves(r, "idle", "lookup")
            /\ UNCHANGED <<cl, slot, attempt, via, sent>>

-----------------------------------------------------------------------------
(* get_or_connect. *)

(* An entry that has closed. *)
Stale == \E k \in Conn : slot = Ready(k) /\ cl[k] = "closed"

(* Mutant: is_closed is not asked. *)
UseClosed(r) == /\ Moves(r, "lookup", "sending")
                /\ \E k \in Conn : slot = Ready(k) /\ via' = [via EXCEPT ![r] = k]
                /\ UNCHANGED <<cl, slot, attempt, sent>>

(* One that has not is used, GOAWAY or not. *)
Use(r) == /\ Moves(r, "lookup", "sending")
          /\ \E k \in Conn : /\ slot = Ready(k) /\ cl[k] # "closed"
                             /\ via' = [via EXCEPT ![r] = k]
          /\ UNCHANGED <<cl, slot, attempt, sent>>

(* A dial in flight is shared. *)
Join(r) == /\ Moves(r, "lookup", "waiting")
           /\ slot = Dialing
           /\ UNCHANGED <<cl, slot, attempt, via, sent>>

Dial(r) == /\ Moves(r, "lookup", "waiting")
           /\ slot = Vacant \/ Stale
           /\ slot' = Dialing
           /\ UNCHANGED <<cl, attempt, via, sent>>

Lookup(r) == Use(r) \/ Join(r) \/ Dial(r)

Waiting == {r \in Call : st[r] = "waiting"}

(* The connect task publishes a connection, which goes to all who wait; by *)
(* then it may drain, or have closed.                                      *)
DialOk(k) ==
    /\ slot = Dialing /\ slot' = Ready(k)
    /\ cl[k] = "none"
    /\ \E state \in Live \cup {"closed"} : cl' = [cl EXCEPT ![k] = state]
    /\ st' = [r \in Call |-> IF r \in Waiting THEN "sending" ELSE st[r]]
    /\ via' = [r \in Call |-> IF r \in Waiting THEN k ELSE via[r]]
    /\ UNCHANGED <<attempt, sent>>

(* The dial fails for all who wait.  A connection on which no session came *)
(* about is closed.                                                        *)
DialErr ==
    /\ slot = Dialing /\ slot' = Vacant
    /\ \/ UNCHANGED cl
       \/ \E k \in Conn : cl[k] = "none" /\ cl' = [cl EXCEPT ![k] = "closed"]
    /\ st' = [r \in Call |-> IF r \in Waiting THEN "failing" ELSE st[r]]
    /\ UNCHANGED <<attempt, via, sent>>

-----------------------------------------------------------------------------
(* The request and its response. *)

(* No request is sent twice, and none on a connection that drains.         *)
SendOk(r) == /\ Moves(r, "sending", "awaiting")
             /\ cl[via[r]] = "open" /\ Asked(r) \notin sent
             /\ sent' = sent \cup {Asked(r)}
             /\ UNCHANGED <<cl, slot, attempt, via>>

SendErr(r) == /\ Moves(r, "sending", "failing")
              /\ via' = [via EXCEPT ![r] = None]
              /\ UNCHANGED <<cl, slot, attempt, sent>>

(* After a turn that failed: invalidate drops a closed entry, and the loop *)
(* goes on, or ends with its last error.                                   *)
Continue(r) ==
    /\ attempt' = [attempt EXCEPT ![r] = @ + 1]
    /\ Moves(r, "failing", IF attempt[r] + 1 = MaxAttempts THEN "failed" ELSE "lookup")
    /\ slot' = IF Stale THEN Vacant ELSE slot
    /\ UNCHANGED <<cl, via, sent>>

(* Headers that came before a close can be read after it. *)
ResponseOk(r) == /\ Moves(r, "awaiting", "answered")
                 /\ UNCHANGED <<cl, slot, attempt, via, sent>>

(* A call fails for good, at any time: its deadline fires, its future is   *)
(* dropped, its request cannot be built, or its response does not come.    *)
Fail(r) == /\ st[r] \notin Ended
           /\ st' = [st EXCEPT ![r] = "failed"]
           /\ via' = [via EXCEPT ![r] = IF st[r] = "awaiting" THEN @ ELSE None]
           /\ UNCHANGED <<cl, slot, attempt, sent>>

-----------------------------------------------------------------------------
(* What becomes of connections. *)

Goaway(k) == /\ cl[k] = "open"
             /\ cl' = [cl EXCEPT ![k] = "goaway"]
             /\ UNCHANGED <<slot, st, attempt, via, sent>>

Close(k) == /\ cl[k] \in Live
            /\ cl' = [cl EXCEPT ![k] = "closed"]
            /\ UNCHANGED <<slot, st, attempt, via, sent>>

Next == \/ \E r \in Call : \/ Begin(r) \/ Lookup(r)
                           \/ SendOk(r) \/ SendErr(r) \/ Continue(r)
                           \/ ResponseOk(r) \/ Fail(r)
        \/ DialErr
        \/ \E k \in Conn : DialOk(k) \/ Goaway(k) \/ Close(k)

Spec == Init /\ [][Next]_vars

-----------------------------------------------------------------------------
(* What follows from it.                                                   *)

(* A call has one request on the wire at most, whatever turns it takes:    *)
(* the one it waits for or has ended with.                                 *)
OneRequest ==
    \A q \in sent : /\ st[q[2]] \in {"awaiting"} \cup Ended
                    /\ q = Asked(q[2])

(* What is answered has been asked. *)
AnswerAsked == \A r \in Call : st[r] = "answered" => Asked(r) \in sent

(* No call is given a connection that has closed before it asked for one:  *)
(* what it is given was not closed, or has just been dialled.              *)
NeverGivenClosed ==
    [][\A r \in Call : via'[r] \notin {via[r], None} => cl[via'[r]] # "closed"]_vars
=============================================================================
