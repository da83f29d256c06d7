--------------------------- MODULE ConnectionPool ---------------------------
(***************************************************************************)
(* The client's connection pool (crates/grpc-quic-client/src/pool.rs): one *)
(* cached QUIC connection with its HTTP/3 session per remote address, and  *)
(* one dial in flight at a time, shared by every caller that arrives while *)
(* it runs.                                                                *)
(*                                                                         *)
(* A Caller is one invocation of get_or_connect.  The task it may spawn    *)
(* and the connection that task may establish bear the caller's name, so   *)
(* conn[c] is the connection dialled by c's task, whoever uses it.  The    *)
(* mutex of the pool is never held across an await that waits for anything *)
(* but the mutex itself: each critical section is one action.              *)
(***************************************************************************)
EXTENDS Naturals

CONSTANTS Addr,     \* remote socket addresses
          Caller,   \* invocations of get_or_connect
          Err,      \* a reply that is an error
          NoReply   \* the oneshot channel is still empty

ASSUME ReplyAssumption == /\ Err \notin Caller
                          /\ NoReply \notin Caller
                          /\ NoReply # Err

VARIABLES map,      \* address -> slot
          want,     \* the address each caller asks for (its argument)
          pc,       \* where each caller stands
          reply,    \* the content of each caller's oneshot channel
          task,     \* where the connect task each caller spawned stands
          conn      \* the connection each task established

vars == <<map, want, pc, reply, task, conn>>

Vacant == [tag |-> "vacant"]
Connecting(waiters) == [tag |-> "connecting", waiters |-> waiters]
Ready(k) == [tag |-> "ready", conn |-> k]

Slot == {Vacant} \cup [tag : {"connecting"}, waiters : SUBSET Caller]
                 \cup [tag : {"ready"}, conn : Caller]

Live == {"dialing", "opening", "ok", "err"}
LiveTasks(a) == {t \in Caller : want[t] = a /\ task[t] \in Live}

IsClosed(k) == conn[k] = "closed"
IsConnecting(a) == map[a].tag = "connecting"

(* A cached connection that has closed meanwhile. *)
Stale(a) == map[a].tag = "ready" /\ IsClosed(map[a].conn)

(* Mutant: a slot that is being connected is dialled again. *)
MustDialDespiteConnecting(a) == map[a].tag # "ready" \/ Stale(a)

(* A slot that get_or_connect neither reuses nor joins. *)
MustDial(a) == map[a] = Vacant \/ Stale(a)

Init == /\ map = [a \in Addr |-> Vacant]
        /\ want \in [Caller -> Addr]
        /\ pc = [c \in Caller |-> "idle"]
        /\ reply = [c \in Caller |-> NoReply]
        /\ task = [c \in Caller |-> "none"]
        /\ conn = [c \in Caller |-> "none"]

-----------------------------------------------------------------------------
(* get_or_connect: the three outcomes of the look at the slot.             *)

(* Mutant: the entry of another address is taken. *)
ReuseOtherAddress(c) ==
    /\ pc[c] = "idle"
    /\ \E a \in Addr : map[a].tag = "ready" /\ reply' = [reply EXCEPT ![c] = map[a].conn]
    /\ pc' = [pc EXCEPT ![c] = "returned"]
    /\ UNCHANGED <<map, want, task, conn>>

(* Mutant: is_closed is not asked. *)
ReuseClosed(c) ==
    /\ pc[c] = "idle"
    /\ map[want[c]].tag = "ready"
    /\ reply' = [reply EXCEPT ![c] = map[want[c]].conn]
    /\ pc' = [pc EXCEPT ![c] = "returned"]
    /\ UNCHANGED <<map, want, task, conn>>

ReuseReady(c) ==
    LET a == want[c] IN
    /\ pc[c] = "idle"
    /\ map[a].tag = "ready"
    /\ ~IsClosed(map[a].conn)
    /\ reply' = [reply EXCEPT ![c] = map[a].conn]
    /\ pc' = [pc EXCEPT ![c] = "returned"]
    /\ UNCHANGED <<map, want, task, conn>>

(* Mutant: the waiter replaces those before it. *)
JoinOverwrites(c) ==
    /\ pc[c] = "idle"
    /\ IsConnecting(want[c])
    /\ map' = [map EXCEPT ![want[c]] = Connecting({c})]
    /\ pc' = [pc EXCEPT ![c] = "waiting"]
    /\ UNCHANGED <<want, reply, task, conn>>

JoinConnecting(c) ==
    LET a == want[c] IN
    /\ pc[c] = "idle"
    /\ IsConnecting(a)
    /\ map' = [map EXCEPT ![a] = Connecting(map[a].waiters \cup {c})]
    /\ pc' = [pc EXCEPT ![c] = "waiting"]
    /\ UNCHANGED <<want, reply, task, conn>>

StartConnecting(c) ==
    LET a == want[c] IN
    /\ pc[c] = "idle"
    /\ MustDial(a)
    /\ map' = [map EXCEPT ![a] = Connecting({c})]
    /\ task' = [task EXCEPT ![c] = "dialing"]
    /\ pc' = [pc EXCEPT ![c] = "waiting"]
    /\ UNCHANGED <<want, reply, conn>>

-----------------------------------------------------------------------------
(* The spawned task: connect_fn, then H3ClientSession::new, then publish.  *)

DialOk(t) ==
    /\ task[t] = "dialing"
    /\ task' = [task EXCEPT ![t] = "opening"]
    /\ conn' = [conn EXCEPT ![t] = "open"]
    /\ UNCHANGED <<map, want, pc, reply>>

DialErr(t) ==
    /\ task[t] = "dialing"
    /\ task' = [task EXCEPT ![t] = "err"]
    /\ UNCHANGED <<map, want, pc, reply, conn>>

SessionOk(t) ==
    /\ task[t] = "opening"
    /\ conn[t] = "open"
    /\ task' = [task EXCEPT ![t] = "ok"]
    /\ UNCHANGED <<map, want, pc, reply, conn>>

(* The only handle of the connection is dropped with the error, and the    *)
(* last handle of a connection closes it.                                  *)
SessionErr(t) ==
    /\ task[t] = "opening"
    /\ task' = [task EXCEPT ![t] = "err"]
    /\ conn' = [conn EXCEPT ![t] = "closed"]
    /\ UNCHANGED <<map, want, pc, reply>>

(* The common part of the mutants of Publish. *)
PublishAs(t, slot, replies) ==
    /\ task[t] \in {"ok", "err"}
    /\ map' = [map EXCEPT ![want[t]] = slot]
    /\ reply' = replies
    /\ task' = [task EXCEPT ![t] = "done"]
    /\ UNCHANGED <<want, pc, conn>>

Woken(t) == {c \in map[want[t]].waiters : pc[c] = "waiting"}

(* Mutant: a failed dial is cached like a connection. *)
PublishErrToo(t) ==
    PublishAs(t, Ready(IF task[t] = "ok" THEN t ELSE Err), reply)

(* Mutant: the connection is handed out, and not cached. *)
PublishUncached(t) ==
    PublishAs(t, Vacant, [c \in Caller |-> IF c \in Woken(t) THEN t ELSE reply[c]])

(* Mutant: the connection goes to the caller that dialled, and an error to *)
(* all the others.                                                         *)
PublishToDialler(t) ==
    PublishAs(t, Ready(t), [c \in Caller |-> IF c \notin Woken(t) THEN reply[c]
                                              ELSE IF c = t THEN t ELSE Err])

(* Mutant: the task returns early on an error, as with the ? operator. *)
PublishOnlySuccess(t) ==
    IF task[t] = "ok"
    THEN PublishAs(t, Ready(t), [c \in Caller |-> IF c \in Woken(t) THEN t ELSE reply[c]])
    ELSE PublishAs(t, map[want[t]], reply)

(* The send to a waiter that has gone away fails and is ignored.  The slot *)
(* is removed before its content is looked at.                             *)
Publish(t) ==
    LET a == want[t]
        waiters == IF IsConnecting(a) THEN map[a].waiters ELSE {}
        result == IF task[t] = "ok" THEN t ELSE Err
    IN  /\ task[t] \in {"ok", "err"}
        /\ map' = [map EXCEPT ![a] = IF IsConnecting(a) /\ task[t] = "ok"
                                     THEN Ready(t) ELSE Vacant]
        /\ reply' = [c \in Caller |-> IF c \in waiters /\ pc[c] = "waiting"
                                      THEN result ELSE reply[c]]
        /\ task' = [task EXCEPT ![t] = "done"]
        /\ UNCHANGED <<want, pc, conn>>

-----------------------------------------------------------------------------
(* The waiting caller, and what may happen to it.                          *)

Receive(c) ==
    /\ pc[c] = "waiting"
    /\ reply[c] # NoReply
    /\ pc' = [pc EXCEPT ![c] = "returned"]
    /\ UNCHANGED <<map, want, reply, task, conn>>

(* The caller's future is dropped while it awaits the oneshot channel: by  *)
(* the deadline of the RPC or by the user.  Nothing is undone.             *)
Cancel(c) ==
    /\ pc[c] = "waiting"
    /\ pc' = [pc EXCEPT ![c] = "cancelled"]
    /\ UNCHANGED <<map, want, reply, task, conn>>

(* Mutant: an entry is removed whether or not it is closed. *)
InvalidateOpen(c) ==
    /\ pc[c] = "returned"
    /\ map[want[c]].tag = "ready"
    /\ map' = [map EXCEPT ![want[c]] = Vacant]
    /\ UNCHANGED <<want, pc, reply, task, conn>>

(* invalidate, called by a caller whose use of its reply went wrong.       *)
Invalidate(c) ==
    LET a == want[c] IN
    /\ pc[c] = "returned"
    /\ Stale(a)
    /\ map' = [map EXCEPT ![a] = Vacant]
    /\ UNCHANGED <<want, pc, reply, task, conn>>

(* The peer, an idle timeout or a transport error closes a connection.     *)
ConnClose(k) ==
    /\ conn[k] = "open"
    /\ conn' = [conn EXCEPT ![k] = "closed"]
    /\ UNCHANGED <<map, want, pc, reply, task>>

(* Every caller has its answer and every task has ended. *)
AllDone == /\ \A c \in Caller : pc[c] \in {"returned", "cancelled"}
           /\ \A t \in Caller : task[t] \in {"none", "done"}
           /\ UNCHANGED vars

TaskStep(t) == \/ DialOk(t) \/ DialErr(t)
               \/ SessionOk(t) \/ SessionErr(t)
               \/ Publish(t)

Next == \/ \E c \in Caller : \/ ReuseReady(c)
                             \/ JoinConnecting(c)
                             \/ StartConnecting(c)
                             \/ Receive(c)
                             \/ Cancel(c)
                             \/ Invalidate(c)
        \/ \E t \in Caller : TaskStep(t)
        \/ \E k \in Caller : ConnClose(k)
        \/ AllDone

Spec == Init /\ [][Next]_vars

(* The runtime polls a spawned task that can move, a dial ends by success, *)
(* refusal or handshake timeout, and a woken caller is polled again.       *)
Fairness == /\ \A t \in Caller : WF_vars(TaskStep(t))
            /\ \A c \in Caller : WF_vars(Receive(c))

FairSpec == Spec /\ Fairness

-----------------------------------------------------------------------------
TypeOK == /\ map \in [Addr -> Slot]
          /\ want \in [Caller -> Addr]
          /\ pc \in [Caller -> {"idle", "waiting", "returned", "cancelled"}]
          /\ reply \in [Caller -> Caller \cup {Err, NoReply}]
          /\ task \in [Caller -> {"none", "done"} \cup Live]
          /\ conn \in [Caller -> {"none", "open", "closed"}]

(* A connect task runs for an address exactly while its slot says          *)
(* Connecting, and never two of them: no interleaving of callers, failures *)
(* and invalidations makes the pool dial an address twice at once.         *)
SingleFlight ==
    \A a \in Addr :
        /\ IsConnecting(a) <=> LiveTasks(a) # {}
        /\ \A t, u \in LiveTasks(a) : t = u

(* A caller that awaits an empty channel is registered with the slot of    *)
(* its address, so the publication that ends the dial will wake it.        *)
NoLostWaiter ==
    \A c \in Caller :
        pc[c] = "waiting" /\ reply[c] = NoReply =>
            /\ IsConnecting(want[c])
            /\ c \in map[want[c]].waiters

(* At most one connection per address is open, and an open one is in the   *)
(* hands of its connect task or in the pool: none is leaked by a dial      *)
(* whose callers have gone or by the replacement of a slot.                *)
OneOpenPerAddress ==
    /\ \A k \in Caller : conn[k] = "open" =>
          task[k] \in {"opening", "ok"} \/ map[want[k]] = Ready(k)
    /\ \A j, k \in Caller :
          conn[j] = "open" /\ conn[k] = "open" /\ want[j] = want[k] => j = k

(* The connection a caller is given leads to the address it asked for and  *)
(* had its HTTP/3 session established and published.                       *)
RightConnection ==
    \A c \in Caller : reply[c] \in Caller =>
        /\ want[reply[c]] = want[c]
        /\ task[reply[c]] = "done"
        /\ conn[reply[c]] \in {"open", "closed"}

(* What the pool hands out is never withdrawn: an open cached connection   *)
(* stays cached until it closes, whoever invalidates the address, and the  *)
(* publication of a late dial never replaces it.                           *)
LiveEntryKept ==
    [][\A k \in Caller :
          map[want[k]] = Ready(k) /\ conn[k] = "open" => map'[want[k]] = Ready(k)]_vars

(* The outcome of one dial is the outcome of all who shared it: callers    *)
(* registered in the same slot are never given different replies.          *)
SharedOutcome ==
    [][\A a \in Addr : IsConnecting(a) =>
          \A c, d \in map[a].waiters :
              reply'[c] # reply[c] /\ reply'[d] # reply[d] => reply'[c] = reply'[d]]_vars

(* Every caller that waits for a connection gets an answer, unless it is   *)
(* cancelled: the outcome of the dial reaches all of them, failed or not.  *)
EveryCallerAnswered ==
    \A c \in Caller : pc[c] = "waiting" ~> pc[c] \in {"returned", "cancelled"}
=============================================================================
