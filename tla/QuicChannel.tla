----------------------------- MODULE QuicChannel -----------------------------
(***************************************************************************)
(* QuicChannel::call of the client (crates/grpc-quic-client/src/           *)
(* channel.rs): the concurrency permit, the retry loop, the connection it  *)
(* takes from the pool, the task that forwards the request body, and the   *)
(* deadline that may drop the whole future at any await.  The channel has  *)
(* one remote address and a pool of its own.                               *)
(*                                                                         *)
(* The n-th turn of the loop of call r invokes get_or_connect as the pool  *)
(* caller <<r, n>>; the pool is ConnectionPool, step for step.             *)
(***************************************************************************)
EXTENDS Naturals, Sequences, FiniteSets, SequencesExt

CONSTANTS Call,          \* calls made on the channel
          MaxAttempts,   \* RetryPolicy::max_attempts
          Limit,         \* concurrency_limit
          Remote,        \* the channel's remote address
          Err, NoReply   \* see ConnectionPool

PoolCaller == Call \X (0 .. MaxAttempts - 1)

ASSUME ChannelAssumption == /\ MaxAttempts \in Nat
                            /\ Limit \in Nat
                            /\ {Err, NoReply} \cap PoolCaller = {}
                            /\ NoReply # Err

VARIABLES map, want, pc, reply, task, conn,   \* the pool, see ConnectionPool
          draining,  \* open connections whose server has sent GOAWAY
          st,        \* where each call stands
          attempt,   \* the turn of its retry loop
          timed,     \* whether its request has a grpc-timeout
          queue,     \* calls that wait for a permit, in the semaphore's order
          free,      \* permits of the semaphore
          sent,      \* request streams it opened
          forwarder, \* the task that forwards its request body
          outcome    \* how it ended

poolVars == <<map, want, pc, reply, task, conn>>
callVars == <<st, attempt, timed, queue, free, sent, forwarder, outcome>>
vars == <<poolVars, draining, callVars>>

Pool == INSTANCE ConnectionPool WITH Addr <- {Remote}, Caller <- PoolCaller

(* Calls that hold a permit: _permit lives as long as rpc_future runs. *)
Holding == {"backoff", "connecting", "sending", "invalidating", "awaiting"}
Ended == {"body", "closed", "failed", "dropped"}

Turn(r) == <<r, attempt[r]>>
Link(r) == reply[Turn(r)]

Init == /\ Pool!Init
        /\ draining = {}
        /\ st = [r \in Call |-> "idle"]
        /\ attempt = [r \in Call |-> 0]
        /\ timed \in [Call -> BOOLEAN]
        /\ queue = <<>>
        /\ free = Limit
        /\ sent = [r \in Call |-> 0]
        /\ forwarder = [r \in Call |-> "none"]
        /\ outcome = [r \in Call |-> "none"]

-----------------------------------------------------------------------------
(* The loop is left with the last error, which every failure so far has    *)
(* left as a StreamIo; the permit goes back to those that are there.       *)
AttemptsUsedUp(r, n, permits) ==
    /\ st' = [st EXCEPT ![r] = "failed"]
    /\ free' = permits + 1
    /\ outcome' = [outcome EXCEPT ![r] = IF n = 0 THEN "RetriesExhausted" ELSE "StreamIo"]

(* The head of the retry loop in turn n: a retry sleeps first. *)
LoopTop(r, n, permits) ==
    /\ attempt' = [attempt EXCEPT ![r] = n]
    /\ IF n = MaxAttempts
       THEN AttemptsUsedUp(r, n, permits)
       ELSE /\ st' = [st EXCEPT ![r] = IF n = 0 THEN "connecting" ELSE "backoff"]
            /\ free' = permits
            /\ UNCHANGED outcome

(* call: the future is polled for the first time and asks for a permit. *)
Begin(r) ==
    /\ st[r] = "idle"
    /\ st' = [st EXCEPT ![r] = "queued"]
    /\ queue' = Append(queue, r)
    /\ UNCHANGED <<poolVars, draining, attempt, timed, free, sent, forwarder, outcome>>

(* The semaphore is fair: permits go to waiters in the order they came. *)
Acquire(r) ==
    /\ st[r] = "queued"
    /\ queue # <<>> /\ Head(queue) = r
    /\ free > 0
    /\ queue' = Tail(queue)
    /\ LoopTop(r, 0, free - 1)
    /\ UNCHANGED <<poolVars, draining, timed, sent, forwarder>>

BackoffOver(r) ==
    /\ st[r] = "backoff"
    /\ st' = [st EXCEPT ![r] = "connecting"]
    /\ UNCHANGED <<poolVars, draining, attempt, timed, queue, free, sent, forwarder, outcome>>

(* get_or_connect finds a connection, or leaves the call waiting for one. *)
Lookup(r) ==
    /\ st[r] = "connecting"
    /\ \/ Pool!ReuseReady(Turn(r)) /\ st' = [st EXCEPT ![r] = "sending"]
       \/ Pool!JoinConnecting(Turn(r)) /\ UNCHANGED st
       \/ Pool!StartConnecting(Turn(r)) /\ UNCHANGED st
    /\ UNCHANGED <<draining, attempt, timed, queue, free, sent, forwarder, outcome>>

(* get_or_connect returns with the result of the dial. *)
Connected(r) ==
    /\ st[r] = "connecting"
    /\ Pool!Receive(Turn(r))
    /\ st' = [st EXCEPT ![r] = IF Link(r) = Err THEN "invalidating" ELSE "sending"]
    /\ UNCHANGED <<draining, attempt, timed, queue, free, sent, forwarder, outcome>>

(* send_request: on a connection that is open and not draining it may      *)
(* succeed, and hands the body to a task of its own.                       *)
SendOk(r) ==
    /\ st[r] = "sending"
    /\ conn[Link(r)] = "open" /\ Link(r) \notin draining
    /\ st' = [st EXCEPT ![r] = "awaiting"]
    /\ sent' = [sent EXCEPT ![r] = @ + 1]
    /\ forwarder' = [forwarder EXCEPT ![r] = "running"]
    /\ UNCHANGED <<poolVars, draining, attempt, timed, queue, free, outcome>>

SendErr(r) ==
    /\ st[r] = "sending"
    /\ st' = [st EXCEPT ![r] = "invalidating"]
    /\ UNCHANGED <<poolVars, draining, attempt, timed, queue, free, sent, forwarder, outcome>>

(* The request cannot be built from its parts: the one error not retried   *)
(* before anything is sent.                                                *)
BuildErr(r) ==
    /\ st[r] = "sending"
    /\ st' = [st EXCEPT ![r] = "failed"]
    /\ outcome' = [outcome EXCEPT ![r] = "RequestBuild"]
    /\ free' = free + 1
    /\ UNCHANGED <<poolVars, draining, attempt, timed, queue, sent, forwarder>>

(* Mutant: the permit is given back before each retry, and not taken again. *)
ReleaseAndContinue(r) ==
    /\ st[r] = "invalidating"
    /\ IF Pool!Stale(Remote) THEN Pool!Invalidate(Turn(r)) ELSE UNCHANGED poolVars
    /\ LoopTop(r, attempt[r] + 1, free + 1)
    /\ UNCHANGED <<draining, timed, queue, sent, forwarder>>

(* pool.invalidate, then the next turn of the loop. *)
InvalidateAndContinue(r) ==
    /\ st[r] = "invalidating"
    /\ IF Pool!Stale(Remote) THEN Pool!Invalidate(Turn(r)) ELSE UNCHANGED poolVars
    /\ LoopTop(r, attempt[r] + 1, free)
    /\ UNCHANGED <<draining, timed, queue, sent, forwarder>>

(* recv_response: the response headers end rpc_future and with it the      *)
(* permit; ClientRecvBody takes over the deadline and the forwarder.       *)
(* Headers that came before a close can be read after it.                  *)
ResponseOk(r) ==
    /\ st[r] = "awaiting"
    /\ st' = [st EXCEPT ![r] = "body"]
    /\ free' = free + 1
    /\ UNCHANGED <<poolVars, draining, attempt, timed, queue, sent, forwarder, outcome>>

Aborted(r) == IF forwarder[r] = "running" THEN "aborted" ELSE forwarder[r]

(* Mutant: the handle of the forwarder is dropped where it is aborted. *)
ResponseErrDetaches(r) ==
    /\ st[r] = "awaiting"
    /\ st' = [st EXCEPT ![r] = "failed"]
    /\ outcome' = [outcome EXCEPT ![r] = "StreamIo"]
    /\ free' = free + 1
    /\ UNCHANGED <<poolVars, draining, attempt, timed, queue, sent, forwarder>>

(* Mutant: a failed response is retried like a failed request. *)
ResponseErrRetried(r) ==
    /\ st[r] = "awaiting"
    /\ st' = [st EXCEPT ![r] = "invalidating"]
    /\ forwarder' = [forwarder EXCEPT ![r] = Aborted(r)]
    /\ UNCHANGED <<poolVars, draining, attempt, timed, queue, free, sent, outcome>>

ResponseErr(r) ==
    /\ st[r] = "awaiting"
    /\ st' = [st EXCEPT ![r] = "failed"]
    /\ outcome' = [outcome EXCEPT ![r] = "StreamIo"]
    /\ free' = free + 1
    /\ forwarder' = [forwarder EXCEPT ![r] = Aborted(r)]
    /\ UNCHANGED <<poolVars, draining, attempt, timed, queue, sent>>

-----------------------------------------------------------------------------
(* A dropped Acquire future leaves the semaphore's queue, wherever it      *)
(* stands in it.                                                           *)
LeaveQueue(r) == \E i \in DOMAIN queue : queue[i] = r /\ queue' = RemoveAt(queue, i)

(* Mutant: the permit of a dropped call is lost. *)
DropFutureLeaks(r, to, why) ==
    /\ \/ st[r] = "queued" /\ LeaveQueue(r)
       \/ st[r] \in Holding /\ UNCHANGED queue
    /\ IF st[r] = "connecting" /\ pc[Turn(r)] = "waiting"
       THEN Pool!Cancel(Turn(r)) ELSE UNCHANGED poolVars
    /\ st' = [st EXCEPT ![r] = to]
    /\ outcome' = [outcome EXCEPT ![r] = why]
    /\ UNCHANGED <<draining, attempt, timed, free, sent, forwarder>>

(* rpc_future is dropped at whatever await it stands: it leaves the queue  *)
(* or gives its permit back, and no longer waits for the pool.  Dropping   *)
(* the handle of the forwarding task detaches the task.                    *)
DropFuture(r, to, why) ==
    /\ \/ st[r] = "queued" /\ LeaveQueue(r) /\ UNCHANGED free
       \/ st[r] \in Holding /\ free' = free + 1 /\ UNCHANGED queue
    /\ IF st[r] = "connecting" /\ pc[Turn(r)] = "waiting"
       THEN Pool!Cancel(Turn(r)) ELSE UNCHANGED poolVars
    /\ st' = [st EXCEPT ![r] = to]
    /\ outcome' = [outcome EXCEPT ![r] = why]
    /\ UNCHANGED <<draining, attempt, timed, sent, forwarder>>

(* Mutant: the deadline does not cover the wait for the permit. *)
DeadlineAfterPermit(r) ==
    timed[r] /\ st[r] # "queued" /\ DropFuture(r, "failed", "RequestBuild: DeadlineExceeded")

(* timeout_at around rpc_future *)
DeadlineFires(r) == timed[r] /\ DropFuture(r, "failed", "RequestBuild: DeadlineExceeded")

(* The user drops the future of the call. *)
UserDrops(r) == DropFuture(r, "dropped", "none")

(* ClientRecvBody: the deadline ends the body with grpc-status 4, a drop   *)
(* of the body ends it in silence, and both abort the forwarder.           *)
CloseBody(r, why) ==
    /\ st[r] = "body"
    /\ st' = [st EXCEPT ![r] = "closed"]
    /\ outcome' = [outcome EXCEPT ![r] = why]
    /\ forwarder' = [forwarder EXCEPT ![r] = Aborted(r)]
    /\ UNCHANGED <<poolVars, draining, attempt, timed, queue, free, sent>>

BodyDeadline(r) == timed[r] /\ CloseBody(r, "grpc-status 4")
BodyDropped(r) == CloseBody(r, "server")

(* The request body ends, or sending it fails. *)
ForwarderEnds(r) ==
    /\ forwarder[r] = "running"
    /\ forwarder' = [forwarder EXCEPT ![r] = "ended"]
    /\ UNCHANGED <<poolVars, draining, st, attempt, timed, queue, free, sent, outcome>>

-----------------------------------------------------------------------------
(* The pool's connect tasks and the connections themselves. *)
PoolTask(k) == Pool!TaskStep(k) /\ UNCHANGED <<draining, callVars>>

ConnClose(k) == /\ Pool!ConnClose(k)
                /\ draining' = draining \ {k}
                /\ UNCHANGED callVars

(* A server that shuts down sends GOAWAY, which the driver of the session  *)
(* takes in: the connection stays open, and refuses new requests.          *)
Goaway(k) ==
    /\ task[k] \in {"ok", "done"}
    /\ conn[k] = "open" /\ k \notin draining
    /\ draining' = draining \cup {k}
    /\ UNCHANGED <<poolVars, callVars>>

AllDone == /\ \A r \in Call : st[r] \in {"closed", "failed", "dropped"}
           /\ UNCHANGED vars

(* The steps of a call that the runtime, the network and the server take.  *)
CallStep(r) == \/ Acquire(r) \/ BackoffOver(r) \/ Lookup(r) \/ Connected(r)
               \/ SendOk(r) \/ SendErr(r) \/ BuildErr(r) \/ InvalidateAndContinue(r)
               \/ ResponseOk(r) \/ ResponseErr(r)

Next == \/ \E r \in Call : \/ Begin(r) \/ CallStep(r)
                           \/ DeadlineFires(r) \/ UserDrops(r)
                           \/ BodyDeadline(r) \/ BodyDropped(r) \/ ForwarderEnds(r)
        \/ \E k \in PoolCaller : PoolTask(k) \/ ConnClose(k) \/ Goaway(k)
        \/ AllDone

Spec == Init /\ [][Next]_vars

(* Every call that can move is polled, and a connect task runs to its end. *)
(* For a call that awaits its response this assumes that the server ends   *)
(* every request or the connection dies.  Nothing is assumed of the users. *)
Polled == /\ \A r \in Call : WF_vars(CallStep(r))
          /\ \A k \in PoolCaller : WF_vars(PoolTask(k))

(* Timers alone: servers and networks may fall silent for ever. *)
TimersFire == \A r \in Call : WF_vars(DeadlineFires(r))

-----------------------------------------------------------------------------
TypeOK == /\ Pool!TypeOK
          /\ draining \subseteq PoolCaller
          /\ st \in [Call -> {"idle", "queued"} \cup Holding \cup Ended]
          /\ attempt \in [Call -> 0 .. MaxAttempts]
          /\ timed \in [Call -> BOOLEAN]
          /\ queue \in Seq(Call)
          /\ free \in 0 .. Limit
          /\ sent \in [Call -> Nat]
          /\ forwarder \in [Call -> {"none", "running", "ended", "aborted"}]
          /\ outcome \in [Call -> {"none", "server", "grpc-status 4", "StreamIo", "RequestBuild",
                                   "RequestBuild: DeadlineExceeded", "RetriesExhausted"}]

(* Permits are neither lost nor minted on any of the ways out of the call: *)
(* answers, errors, exhausted retries, deadlines and drops at every await. *)
PermitsConserved ==
    free + Cardinality({r \in Call : st[r] \in Holding}) = Limit

(* A call puts its request on the wire once at most: the loop retries only *)
(* what fails before the body is handed to the forwarder.                  *)
SentOnce == \A r \in Call : sent[r] <= 1

(* The forwarder does not outlive the call or its response body, except    *)
(* where the future was dropped while it awaited the response headers.     *)
ForwarderStopped ==
    \A r \in Call : forwarder[r] = "running" =>
        \/ st[r] \in {"awaiting", "body"}
        \/ st[r] = "dropped"
        \/ outcome[r] = "RequestBuild: DeadlineExceeded"

(* A retry is never given a connection it has already failed on and that   *)
(* has closed since: is_closed and invalidate make it reconnect.           *)
NoRetryOnDeadConnection ==
    [][\A r \in Call :
          LET k == reply'[Turn(r)]
              before == {reply[<<r, n>>] : n \in 0 .. (attempt[r] - 1)}
          IN  attempt[r] < MaxAttempts /\ k # Link(r) /\ k \in before \ {Err}
                  => conn[k] = "open"]_vars

(* The refinement mapping to ClientPromise.  A turn ends for its call when *)
(* the reply is there, whether or not the call has been polled since.      *)
StageOf(s, c, k) ==
    CASE s \in {"idle", "queued"} -> "idle"
      [] s = "backoff" \/ (s = "connecting" /\ c # "waiting") -> "lookup"
      [] s = "connecting" /\ c = "waiting" /\ k = NoReply -> "waiting"
      [] s = "sending" \/ (s = "connecting" /\ c = "waiting" /\ k \in PoolCaller) -> "sending"
      [] s = "invalidating" \/ (s = "connecting" /\ c = "waiting" /\ k = Err) -> "failing"
      [] s = "awaiting" -> "awaiting"
      [] s \in {"body", "closed"} -> "answered"
      [] s \in {"failed", "dropped"} -> "failed"
Stage(r) == StageOf(st[r], pc[Turn(r)], Link(r))

(* The connection the call sends on or has sent on. *)
Via(r) == IF Stage(r) = "sending" \/ sent[r] > 0 THEN Link(r) ELSE NoReply

(* A connection counts from when it is published. *)
Seen(k) == IF task[k] # "done" \/ conn[k] = "none" THEN "none"
           ELSE IF conn[k] = "open" /\ k \in draining THEN "goaway" ELSE conn[k]
EntryOf(slot) == CASE slot.tag = "vacant" -> [tag |-> "vacant"]
                   [] slot.tag = "connecting" -> [tag |-> "dialing"]
                   [] slot.tag = "ready" -> [tag |-> "ready", k |-> slot.conn]

Conns == [k \in PoolCaller |-> Seen(k)]
Entry == EntryOf(map[Remote])
Stages == [r \in Call |-> Stage(r)]
Vias == [r \in Call |-> Via(r)]
Wire == {<<Link(r), r, attempt[r]>> : r \in {c \in Call : sent[c] > 0}}

Promise == INSTANCE ClientPromise
    WITH Conn <- PoolCaller, None <- NoReply,
         cl <- Conns, slot <- Entry, st <- Stages, via <- Vias, sent <- Wire

(* The channel's calls keep the promise that System relies on: with the    *)
(* permits, waiters, connect tasks and forwarders taken away, what is left *)
(* is ClientPromise, step for step.                                        *)
ClientPromised == Promise!Spec

(* Every call gets its response headers or an error, however many share    *)
(* the permits, whatever the pool's dials and the servers answer.          *)
EveryCallEnds ==
    Polled => \A r \in Call : st[r] = "queued" ~> st[r] \in Ended

(* A deadline is honoured in every state of the call, with a server or a   *)
(* dial that never answers and with no permit free.                        *)
DeadlineHonoured ==
    TimersFire => \A r \in Call : st[r] = "queued" /\ timed[r] ~> st[r] \in Ended

-----------------------------------------------------------------------------
(* What the tests say, and the code does not do.                           *)

(* A deadline stops the task that sends the request body.  It does so in   *)
(* ClientRecvBody; before the response headers it only detaches the task.  *)
DeadlineStopsForwarder ==
    \A r \in Call :
        outcome[r] \in {"RequestBuild: DeadlineExceeded", "grpc-status 4"}
            => forwarder[r] # "running"
=============================================================================
