# A TLA+ model of grpc-quic-rs

grpc-quic-rs carries gRPC over HTTP/3 and QUIC: a `tower::Service` for clients
(`QuicChannel`) and a server loop (`QuicServer`) on top of the crates `h3`,
`quinn` and `tokio`. This directory models the program's own logic, that is
what those crates leave to it: who dials, who shares a connection, who retries,
who holds a permit, which task outlives which, and how a server stops.

Paths below are relative to `src/crates/`.

## Inventory

| component | state | operations | interacts with |
|---|---|---|---|
| connection pool, `grpc-quic-client/src/pool.rs` | one slot per address: `Connecting(waiters)` or `Ready(entry)`, behind an async mutex | `get_or_connect` (reuse, join, dial), the connect task it spawns, `invalidate` | called by the channel; wakes its callers through oneshot channels; dials through transport and h3 |
| channel, `grpc-quic-client/src/channel.rs` | a semaphore; per call: attempt, connection, forwarder, deadline | `call`: `parse_grpc_timeout`, permit, retry loop, request, forwarder task, response headers, `timeout_at` | pool, h3 session, `ClientRecvBody`, retry policy |
| builder and discovery, `channel.rs`, `grpc-quic-discovery` | one remote address, for good | `connect`: parse or resolve an address, take the first | channel |
| retry policy, `grpc-quic-client/src/retry.rs` | configuration | `backoff_for` | channel |
| body adapters, `grpc-quic-core/src/body.rs` | flags `data_done`, `trailers_done`, `is_closed`; an error channel; an abort handle; a deadline | `poll_frame` of `ServerRecvBody` and `ClientRecvBody`, drop | channel, request handler, h3 streams |
| h3 glue, `grpc-quic-core/src/client.rs`, `server.rs` | a driver task per client connection | session set-up, `send_request` | pool, channel, server |
| transport, `grpc-quic-transport/src/endpoint.rs`, `connection.rs` | quinn handles | `accept`, `connect`, `close`, `reject_new_connections`, `is_closed` | pool, server |
| server loop, `grpc-quic-server/src/server.rs` | join set of connection tasks, broadcast of the cancellation, global stream semaphore | start-up, accept arm, signal arm, drain under `graceful_timeout`, forced close | connection handlers |
| connection handler, `server.rs` | join set of request tasks | cancel arm, accept arm with `resolve_request`, dispatch, overload, join | server loop, request handlers |
| request handler, `grpc-quic-server/src/acceptor.rs` | one loop over the response body | service call, headers, data, trailers, finish | service, h3 stream |
| TLS configuration, `grpc-quic-transport/src/tls.rs` | a configuration for clients or for servers | `server_config`, `client_config`: the wrong kind is an error | server loop, channel |
| metrics, facade, benches, examples | configuration or counters | | |

What is hard about this code is concurrency between tasks that are spawned,
detached, joined and aborted, and futures that are dropped in the middle:

- callers, connect tasks and invalidations meet at one slot of the pool, while
  connections close under all of them;
- a deadline or a user may drop a call at any of its awaits, with a permit held,
  a dial shared, or a forwarder just spawned;
- an attempt may fail before or after the server has seen the request;
- the server's loops await inside select arms, so a handshake or a request's
  headers can keep them from whatever else is ready;
- a shutdown races connections and requests that are just arriving, waits for
  handlers that may never end, and must abort them when it may wait no longer;
- the two sides know of each other only what has arrived: a client uses, keeps or
  retries on connections of a server that has drained, crashed or come back;
- deadlines and backoffs are computed with u64s, floats and Instants that all end
  somewhere.

`PROJECT.json` lists each of these hazards at its line, with the property that
covers it or the reason why none does.

What makes the components correct, in one line each:

- pool: dials are never duplicated, waiters never forgotten, connections never
  leaked, an open entry never thrown away, every caller is answered;
- channel: permits conserved on every exit, a request sent at most once, the
  forwarder stopped with the call, retries reconnect, deadlines kept everywhere;
- exchange: neither side is told of an end that was not one, the client gets one
  status, flow control never deadlocks, nothing runs on for a body nobody has;
- server: permits conserved, connections outlive their handlers, a graceful
  shutdown destroys nothing, a forced one leaves nothing, neither hangs;
- timing: a deadline is what the header says and never later, backoffs grow to
  their cap and no further;
- together: a call is executed at most once, ends whatever the server does, and
  is answered again once the server is back.

## Modules

| module | models | checked by |
|---|---|---|
| `ConnectionPool` | `pool.rs`, all of it | `MCConnectionPool`, `ConnectionPoolProofs` |
| `QuicChannel` | `QuicChannel::call`; instantiates `ConnectionPool`, implements `ClientPromise` | `MCQuicChannel`, `QuicChannelProofs` |
| `ClientPromise` | abstract: what a channel's calls promise the server and their users | `ClientPromiseProofs`, and through `QuicChannel` and `System` |
| `CallTiming` | `QuicChannelBuilder::connect`, `StaticResolver`, `parse_grpc_timeout`, `backoff_for`, and one call's clock | `MCCallTiming`, `CallTimingProofs` |
| `RpcExchange` | one RPC on its stream: the forwarder and `recv_response` of `channel.rs`, `handle_request`, `ServerRecvBody`, `ClientRecvBody` | `MCRpcExchange`, `RpcExchangeProofs` |
| `ServerPromise` | abstract: what the server promises its clients and its owner | `ServerPromiseProofs`, and through the two below |
| `QuicServer` | `serve_with_shutdown`, `serve_with_incoming_shutdown`, `handle_connection`; implements `ServerPromise` | `MCQuicServer`, `QuicServerProofs` |
| `System` | calls that keep `ClientPromise` against a server that keeps `ServerPromise`, through crashes and restarts; instantiates both | `MCSystem`, `SystemProofs` |

Two pairs are refinements: `QuicChannel` implements `ClientPromise`
(`ClientPromised`), and `QuicServer` implements `ServerPromise` (`ServerPromised`).
That the channel's steps are steps of `ConnectionPool` or leave the pool alone is
how `QuicChannel` is written, so it is a lemma of the proofs (`StepPool`) and no
property. `System` is built on the two promises: its
client and its server take the steps of `ClientPromise` and `ServerPromise`, so that it
need not carry the permits, waiters and connect tasks of the one, nor the tasks and
select arms of the other.

A definition that begins with the comment `Mutant:` is no part of the model: it
is a plausible bug in the definition after it, kept to show that a property
notices it. `PROJECT.json` pairs each property with one.

### ConnectionPool

`map`, `want`, `pc`, `reply`, `task` and `conn` are the pool's hash map, the
argument of each invocation of `get_or_connect`, where the invocation stands,
its oneshot channel, the connect task it may have spawned, and the connection
that task may have made. Each invocation, its task and its connection share a
name. No critical section of the pool's mutex contains another await, so each
is an action: `ReuseReady`, `JoinConnecting` and `StartConnecting` are the three
outcomes of the look at the slot, `Publish` is the end of the task, `Invalidate`
the whole of `invalidate`. `DialOk/DialErr` and `SessionOk/SessionErr` are the
two awaits of the task. `Receive` ends the caller's wait, `Cancel` is the drop of
its future, `ConnClose` the peer or the network. The waiters are a set: they are
all woken under the lock, so their order cannot be observed. A dropped sender
("connection task cancelled") cannot happen in the model because the task does
not panic. A failed session drops the only handle of its connection, which
closes it.

### QuicChannel

A call goes through `idle`, `queued`, then turns of `connecting`, `sending`,
`invalidating`, `backoff`, then `awaiting` and `body`, and ends `closed`,
`failed` or `dropped`. The permit is held exactly in the states of `Holding`,
because `_permit` is a local of `rpc_future`; `free` is counted separately so
that its conservation is a property and not a definition. tokio's semaphore is
fair, hence `queue`. Turn `n` of call `r` is the pool's caller `<<r, n>>`, and
every pool step is the pool's own action. The lookup, the send and the invalidation are separate steps: other
calls act between them. `DropFuture` is what a deadline or the user does in any
state before the response: it cancels the pool wait, leaves the queue (`LeaveQueue`) or
returns the permit, and detaches the forwarder. `CloseBody` is the end of
`ClientRecvBody`, which aborts it. `draining` holds the open connections whose
server has sent GOAWAY: `is_closed` is false for them and no request succeeds on
them.

Left out here: the frames of request and response (`RpcExchange` has them) and
time: a deadline may fire in any state where it is armed.

`Conns`, `Entry`, `Stages`, `Vias` and `Wire` are the refinement mapping to
`ClientPromise`. `Stage` moves a call on when the reply of its dial is in its oneshot
channel, whether or not the call has been polled since: `Publish` is one step for all
who wait, and `Receive` is none. A backoff is part of the lookup that follows it. A
connection counts once it is published (`Seen`), as one that drains if GOAWAY has come.

### ClientPromise

The channel without permits, queue, waiters, connect tasks, forwarders and deadlines:
connections as the client sees them (`cl`), the pool's slot, and where each call stands
(`st`), with the turn of its loop and its connection. A turn is a `lookup` (`Use`, `Join`
or `Dial`), perhaps a wait (`DialOk` and `DialErr` answer all who wait), then a send.
`failing` is a turn that has failed; `Continue` is what the loop does then, invalidation
included: only what has not been sent comes there. `SendOk` puts the request on the wire,
once; what ends a call after that is a response or `Fail`, which is also what a deadline
or a drop does at any time. `OneRequest`, `AnswerAsked` and `NeverGivenClosed` are stated
beside it and proved.

### CallTiming

One channel is built and makes one call. `config`, `build` and `header` are chosen
at first: target, resolver, TLS and retry policy of the builder, whether the build
checks for overflow, and the call's `grpc-timeout`. `Connect` is
`QuicChannelBuilder::connect`, `Resolve` the static resolver: the positions of the
entries of a name, of which `Connect` takes the first. `Begin` is the head of
`call` up to `timeout_at`; `Parse` is `parse_grpc_timeout`, whose multiplications
panic in a debug build and wrap in a release build, and `now() + d` panics where no
`Instant` is so late. `Acquire`, `TrySent`, `TryFails` and `Backoff` are the awaits
of the retry loop; each takes a time from `Latency`, or, for a backoff,
`BackoffFor`, and is cut off by `Expire` when that would pass the deadline. A TLS
configuration made for servers makes every dial fail, without delay.

Durations are nanoseconds. `U64`, `InstantSecs` and the units are parameters, with
`WidthAssumption` for how they relate; the run uses small ones, the proofs any.
`ServerAssumption` says that no address is the value for "none". `BackoffFor` keeps the
truncation to whole milliseconds and the saturation of the cast, and takes the floats as
exact: their rounding is left out. `Power` is `powi`, with 1 for the power 0 of zero. A header's text is
a number and a unit; -1 stands for what is no number.

### RpcExchange

The module begins where `SendOk` of `QuicChannel` ends: the stream is split, the
forwarder is spawned, and `recv_response` is awaited. `request` and `response`
are what the two application bodies have yielded, `seen` and `got` what
`ServerRecvBody` and `ClientRecvBody` have made of it on the other side, `up` and
`down` the two directions of the stream in between. The forwarder and the
handler alternate between polling a body and writing a frame; a write waits for
flow control (`Window`), or fails once the reader is gone or the connection lost.
`PollClosed`, `PollDeadline`, `PollForwardError` and `PollStream` are the exits of
`ClientRecvBody::poll_frame` in its order, each with the negation of those
before it. `Headers`, `NoHeaders` and `CallDropped` end the wait for the headers;
only `NoHeaders`, the deadline's poll and the drop of the body abort the forwarder,
which then stops at its next await (`ForwardCancelled`), with a frame perhaps half
written.

Of the libraries the model assumes: a dropped quinn `SendStream` is finished; the
drop of a `RecvStream` stops the peer's writes, at once or after some of them; what
had arrived when a connection is lost can still be read, the rest is an error; h3
reports a frame that breaks off as an error, and trailers when the end of the
stream has arrived behind them. Users poll a body until `None` or an error, as tonic
does. The 500 of a failing service is a response whose body is `<<"error">>`. Frames
have no contents: a stream cannot reorder them, and nothing here reads them.

After the trailers a client that polls once more may get an error of the
forwarder, if the service let go of the request while it was being sent
(`OneStatus` allows it); tonic does not poll again.

### ServerPromise

The server without its tasks, permits and select arms: `phase` (off, up, draining,
down), `conn` (a connection serves, closes, is gone), and the requests that are
running, have ever been admitted, or were killed. Its actions say what may happen:
`Admit` a request at most once, on a serving connection, below the limit; `Close` a
connection when none of its handlers is left; `Return` when nothing is left;
`ForcedReturn`, and only after it `Abort` and `Kill`. Its consequences
(`GracefulReturn`, `HandlersOwned`, `DrainOnlyShrinks`, `ExecutedOnce`) are stated
beside it and proved.

### QuicServer

`srv` is the serve loop, `tls` the configuration it starts with, `handshake` the
connection whose handshake the accept arm awaits, `cs` and `current` the connection
tasks and the request each is resolving, `qs` the request streams and their handlers,
`permits` the global semaphore, `link` the QUIC connection with the reason it closed.
`StartErr` stands for the three ways not to start: no TLS configuration, one of the
wrong kind, an address that cannot be bound. Each select arm is an action, and an arm
that awaits in its body has a state of its own (`handshake`, `resolving`, `joining`).
Where the code's select may find both arms ready, both actions are enabled. `Drained`
and `GraceTimeout` are the two ends of the drain; a forced return leaves tasks that
the runtime aborts one by one (`AbortConnection`, then `AbortHandler` for its request
tasks), and until then they may still act. `EndpointLost` is `accept` returning
`None`. A handler is one step that need never be taken. h3's `accept` ends with an
error or with `None`: on a connection that is lost (`AcceptLost`), or on an open one
whose client goes away (`ClientGoesAway`), which no fairness asks of it.

Two awaits are part of a step. `CancelArm` includes `shutdown(0).await`, which writes
a GOAWAY to the control stream; a peer that grants no window for it would hold the
task there as unfinished headers do in `resolving`, and the grace period ends both.
`SignalArm` refuses at once the connections that are still arriving, which quinn does
one by one after `reject_new_connections`; none of them is served in either case.

`Phase`, `Standings`, `Admitted` and `Killed` are the refinement mapping to
`ServerPromise`: a connection serves until its task leaves the loop, even while a
request is being resolved, and closes while its task joins the handlers.

### System

Client and server share no state; each has its own view of a connection (`cl` and
`conn`), and what travels between them takes a step: `GoawayArrives`,
`CloseArrives`, `Admit` (the request's arrival), `ResponseOk`. The client's steps are
those of `ClientPromise`, each when it has its cause: a dial succeeds when the server
accepts the connection (`NextConn`: the connections are numbered as they are dialled, up to
the bound of `Conn`), a call fails when its request is refused or its connection closed,
and at any await when its deadline fires or its owner drops it (`GiveUp`, recorded in
`gaveUp`; the server is told nothing by it, as the forwarder of such a call runs on).
The server's steps are those of `ServerPromise`, some with a reason (a loop
is left because of the cancellation or the loss of the connection; the client of this
repository sends no GOAWAY). `Crash` takes
connections and handlers without telling anyone: the client learns of it from the
idle timeout (`CloseArrives` of a `lost` connection). `Restart` starts another life of
the server on the same address, with `running`, `admitted` and `killed` kept over all
lives, so that `AtMostOnce` speaks of all of them. `Fault` bounds shutdowns, crashes,
losses, failures without a reason and calls given up.

## Runs

| run | instance | shows |
|---|---|---|
| `pool` | 2 addresses, 3 callers, every assignment of addresses | `SingleFlight`, `NoLostWaiter`, `OneOpenPerAddress`, `RightConnection`, `LiveEntryKept`, `SharedOutcome`, `EveryCallerAnswered` |
| `channel_sharing` | 2 calls, 2 attempts, 2 permits, symmetric | `PermitsConserved`, `ForwarderStopped`, `NoRetryOnDeadConnection`, and `ClientPromised`: the channel implements its promise, and so sends a request once |
| `channel_liveness` | 2 calls, 2 attempts, 1 permit | `EveryCallEnds`, `DeadlineHonoured` |
| `server` | 2 connections with 2 streams each, 2 permits | `PermitsConserved`, `ActiveStreamsKept`, `ShutdownEnds`, `NothingLeftBehind`, `EveryConnectionAnswered`, and `ServerPromised`: the server implements its promise |
| `exchange` | 2 data frames each way, windows of 1 frame | `ResponseWhole`, `RequestWhole`, `OneStatus`, `ErrorHasCause`, `DuplexNeverStalls`, `NothingOutlivesBody` |
| `timing` | every edge of the widths, 11 policies, 92 headers, 3 resolvers | `TimeoutHonest`, `BackoffsExact` |
| `system` | 2 calls of 2 attempts, 1 handler at a time, 2 faults | `AtMostOnce`, `FailedWhileRunning`, `EveryCallEnds`, `Recovered` |
| `channel_detached` | 2 calls, 1 permit | a disagreement, below |
| `exchange_truncated`, `exchange_hidden` | as `exchange` | disagreements, below |
| `server_stall` | 1 connection, 2 streams, the code's 64 and 4 | a disagreement, below |
| `system_tail` | as `system`, 1 fault | a disagreement, below |

Each passing run checks its module's `TypeOK` too, except `channel_liveness`, whose
instance `channel_sharing` covers.

Why these bounds are enough. In the pool, three invocations allow one to dial,
one to join and one to come after the entry has closed or the dial has failed;
the second address separates the slots. In the channel, two attempts are a
failure and a retry, two calls on two permits share dials and evict each other's
entries, and two calls on one permit queue. On the server, two permits against
four streams reach the overload, two connections let one be in its handshake or
in its drain while the other works, and two streams of one connection let one be
awaited while the other is ready. In the exchange, a window of one frame blocks both writers,
and two data frames let a body be cut before, between and after them. `Floor` and
`Factor` stand for the 64 and 4 of
`server.rs:191`, scaled to 1 and 2 in `server` so that the limit is reached.
In `timing`, `U64` is 31 and `InstantSecs` 15, with an hour of 6 seconds and a second of
8 nanoseconds, so that products overflow, wrap to something small, or miss only the
`Instant`; the policies double, grow by halves, shrink, vanish (a multiplier of 0), turn negative,
truncate and saturate, and three latencies end before, at and after the deadlines. In `system`, one
fault is a shutdown, a crash, a loss or a call given up, and the second one meets its
aftermath, in the next life of the server; two calls share a dial and a connection, or come one after the
other; one handler reaches the overload. Deadlock is checked in every run; `AllDone`, `Stopped` and
`Done` are the states in which the system may rest.

### Fairness

- Pool: the runtime polls tasks that can move; a dial ends, since quinn ends each
  handshake by success, refusal or timeout.
- Channel: `Polled` says that calls and connect tasks are polled and that a server
  ends each request or the connection dies. `DeadlineHonoured` does without it
  and assumes the timers only (`TimersFire`). No user ever has to do anything.
- Exchange: tasks that can move are polled, the service answers and its response
  body ends, the user reads the response and drops it. The request body need not
  yield and the service need not read it.
- Server: loops, tasks, aborts and timers run. `select!` polls its arms in random
  order, so an arm that stays ready is taken. Clients need not send anything and
  handlers need not end.
- System: each call is polled, dials end, a closed or lost connection is found out
  (QUIC's idle timeout), and the server's tasks go on, handlers included: a client
  without a deadline waits for as long as its handler takes. Nobody has to call, to stop
  the server or to start it again, and the grace period need not run out.
- Timing: no liveness; that a deadline ends its call is `DeadlineHonoured` of the channel.

### Where the code and its documents or tests disagree

1. `channel_detached`: a deadline before the response headers drops the handle of
   the forwarding task, and the task runs on. The test at `integration.rs:429`
   expects the abort, and gets it because its headers come first.
2. `server_stall`: `resolve_request` is awaited inside the accept arm, so a stream
   that never completes its headers stalls the others of its connection, which
   `design.md:6` says cannot happen. It also keeps the connection from seeing the
   cancellation, which is why `ShutdownEnds` rests on the grace period.
3. `exchange_truncated`: a request whose body fails, or whose response body is ended
   by its deadline or its user, is finished and not reset, so that the service sees
   the end of a complete request. `grpc-quic/src/lib.rs:24` promises unchanged gRPC
   semantics, where the service sees a cancellation. `RequestWhole` states what is
   left: an uncancelled request, or one whose body has not failed, ends whole.
4. `exchange_hidden`: a service that stops reading and answers makes the forwarder's
   next write fail, and `ClientRecvBody` takes that error before it looks at the
   response stream (`body.rs:155`), so that the status which has arrived there is
   never told. `grpc-quic/src/lib.rs:24` promises unchanged gRPC semantics, where a
   service may answer early, and `integration.rs:303` expects the early status; it
   gets it because its request writes nothing more. `ErrorHasCause` states what is
   left: an error comes of a loss, a failed body, or a service that let go of a
   request it had not read to its end.
5. `system_tail`: when its last handler has ended, a connection task of a draining
   server drops `h3_conn` (`server.rs:336`), which closes the connection and discards
   what has not been delivered. The client sees a failed call that was answered,
   where `integration.rs:580` and `589` state that an active RPC works to its clean end
   and the comment at `server.rs:289` that active streams are not destroyed.
   `ActiveStreamsKept` is what the server does keep: it waits for handlers, not for
   acknowledgements.

Read in the source and not worth a run, because each is one expression:

- A deadline before the response headers surfaces as `Unknown` (`channel.rs:311`), one
  after them as the `DeadlineExceeded` that `integration.rs:351` expects of either.
- `RetriesExhausted`, documented in `error.rs:13` for calls whose attempts are used
  up, is returned only when `max_attempts` is 0; otherwise the last error is.
- `max_concurrent_streams`, documented per connection (`server.rs:38`), sizes one
  semaphore of `max(n, 64) * 4` permits for all connections (`server.rs:191`).
- A host name given to `connect` without a resolver is always an error
  (`channel.rs:80`), also in the form the repository's `README.md:136` shows.
- The comment at `integration.rs:666` says that a closed connection in the pool is
  dropped when `send_request` fails on it; the pool asks `is_closed` before that.
- `backoff_for` works in whole milliseconds: a policy with a shorter initial backoff
  does not wait at all.

## Proofs

`ConnectionPoolProofs` proves the pool's properties for any sets of addresses
and callers, from the single assumption that the values for "no reply" and "an
error" are distinct and no callers (`ReplyAssumption`).

`SingleFlight` alone is not inductive: `Publish` must know that the slot it finds
is its own. The invariant `IInv` adds what an untouched caller has not done
(`Untouched`: an invocation that has not begun has no task, a task that has not
dialled has no connection) and that a slot holds what belongs to its address
(`SlotMatches`: a cached connection was dialled for that address by a finished
task, and waiters asked for it). `StepIInv` treats each action, and under it each
conjunct that the action can disturb; `PublisherOwnsSlot` is the argument that a
live task finds its address `Connecting` and itself the only one. From `IInv`
follow the theorems:

| theorem | states |
|---|---|
| `TypeCorrect` | `Spec => []TypeOK` |
| `SingleFlightCorrect` | `Spec => []SingleFlight` |
| `NoLostWaiterCorrect` | `Spec => []NoLostWaiter` |
| `OneOpenPerAddressCorrect` | `Spec => []OneOpenPerAddress` |
| `RightConnectionCorrect` | `Spec => []RightConnection` |
| `LiveEntryKeptCorrect` | `Spec => LiveEntryKept` |
| `SharedOutcomeCorrect` | `Spec => SharedOutcome` |

`RpcExchangeProofs` proves `OneStatusCorrect`, `Spec => []OneStatus`, for bodies and
windows of any size. `StatusInv` adds to `OneStatus` that the flags record it: after
trailers `trailersDone` holds, after the deadline's status `isClosed` does, and a
call without headers has told its user nothing. `OneMore` is the one step all
polls have in common, a frame added to what the client has been told under what
the flags allow; `StatusStep` shows that each poll keeps to that. The argument does
not look at the streams: whatever they deliver, in any order, the flags suffice.

The rest of the module looks at the streams, also for bodies and windows of any size:

| theorem | states |
|---|---|
| `ExchangeTypeCorrect` | `Spec => []TypeOK` |
| `RequestWholeCorrect` | `Spec => []RequestWhole` |
| `ResponseWholeCorrect` | `Spec => []ResponseWhole` |
| `ErrorHasCauseCorrect` | `Spec => []ErrorHasCause` |

What a reader has been told says nothing of what it will be told, so the invariants
speak of the frames in between. `Carries` says that a stream holds the frames of the
body that follow those already read, each in its place (`Fits`): in particular that the
end of a stream stands where the body has ended, which is what neither a `cut` nor a
`fin` after an abort may pretend. `Delivered` says that a reader has been told the body
frame by frame up to the first ending. `RequestInv` and `ResponseInv` join these for the
two directions, with where writer and body stand to each other (`RequestOnItsWay`,
`ResponseOnItsWay`) and which endings the flags stand for (`GotShape`); a step then
either writes behind a stream (`CarriesAppend`), reads before it (`CarriesTail`,
`DeliveredOne`), or cuts it (`CarriesCut`). The request's part holds until the client
aborts, and `RequestWhole` claims no more. `CauseInv` adds `Unbroken`: while the
connection lives the response stream has no cut, and its trailers have the end right
behind them, so that no error comes of reading it. `WriterAhead` says that a service
has not read its request to the end while the forwarder is still writing it, which
makes a failed write a sign of a service that let go; `AbortedInv`, that whoever aborts
the forwarder no longer listens to it.

`QuicChannelProofs` proves, for any number of calls and attempts and any limit, from
`ChannelAssumption`:

| theorem | states |
|---|---|
| `PermitsConservedCorrect` | `Spec => []PermitsConserved` |
| `SentOnceCorrect` | `Spec => []SentOnce` |
| `ForwarderStoppedCorrect` | `Spec => []ForwarderStopped` |
| `NoRetryOnDeadConnectionCorrect` | `Spec => NoRetryOnDeadConnection` |
| `QueueCorrect` | the semaphore's queue holds the calls that wait, and each once |
| `ChannelTypeCorrect` | `Spec => []TypeOK` |
| `ChannelSingleFlight`, `ChannelLiveEntryKept` | the pool's theorems, of the channel's pool |
| `ClientPromisedCorrect` | `Spec => ClientPromised` |
| `ChannelNeverGivenClosed` | a consequence of the promise, of the channel's calls |

`TurnInv` says that a call in its loop has a turn left, and so is a caller of the pool;
`SentInv` that it has sent nothing and has no forwarder. `StepPermitInv` sorts the
steps by what they do to the set of calls that hold a permit (`PermitTaken`,
`PermitKept`, `PermitReturned`). `StepPool` sorts them by what they do to the pool: with it
`KeptSpec` gives the channel the pool's inductive invariant, and `GivenAgain`, a lemma about the pool,
shows that a connection handed out a second time is open then. `QueueInv` is what a
dropped call relies on: it finds itself in the queue, at one place, and leaves the others
in their order (`Without`), so that no permit is handed to a call that has gone. The types
follow from all of these: those of the pool from the refinement, that of `free` from
`PermitInv`, that of the queue from `QueueInv`.

`ClientPromisedCorrect` needs to know where a call and its pool callers stand to each
other, whatever has been dropped in between: `TurnsInv` says that the turns a call has not
come to are untouched, that those behind it wait for nothing, and that the present one
waits, has been answered or has not looked, as `st` says. With the pool's own
`WaitersInv` (who is registered with a dial has begun and has no reply) a `Publish` answers in the pool exactly those that wait in the promise.
The mapping is then taken through each action: `StepPromise` sorts them into those that
move one call, those of connect tasks and connections, and those the promise does not
see. Of the permits, the queue and the forwarders it needs nothing.

`ClientPromiseProofs` proves the consequences of the promise, from `ClientAssumption` (the
value for "no connection" is none, and turns can be counted): `OneRequestCorrect`,
`AnswerAskedCorrect`, `NeverGivenClosedCorrect`. Its invariant adds that a call in a turn has
one left, holds a connection where it sends, and that what is answered or awaited is on
the wire.

`ServerPromiseProofs` proves the consequences of the promise, for any connections,
requests and limit, from `ConnOfTyped` (a request has one of the connections):
`GracefulReturnCorrect`, `HandlersOwnedCorrect`, `DrainOnlyShrinksCorrect`,
`ExecutedOnceCorrect`. Its invariant says that a running handler has a connection, which
is not gone unless the server was forced, and that a server that is off or has returned
gracefully has neither.

`QuicServerProofs` proves, for any sets of connections and streams and any limit:

| theorem | states |
|---|---|
| `TypeCorrect` | `Spec => []TypeOK` |
| `PermitsConservedCorrect` | `Spec => []PermitsConserved` |
| `ActiveStreamsKeptCorrect` | `Spec => []ActiveStreamsKept` |
| `ServerPromisedCorrect` | `Spec => ServerPromised` |
| `ServerReturnsGracefully`, `ServerDrainOnlyShrinks`, `ServerExecutesOnce` | the consequences of the promise, of the server itself |

The invariant `IInv` has four parts: types; `ResolvingInv`, that a request in
resolution belongs to the connection that resolves it and has no handler; `OwnerInv`,
that a running handler has a task which will join or abort it, and that a dropped
link has no task; `SrvInv`, that the serve loop and its tasks agree on how far they
are, in particular that a graceful return leaves none. `PermitInv` counts permits and
handlers together; it needs `FiniteSetTheorems`, and that each action starts or
ends one handler at most (`PermitTaken`, `PermitReturned`). `StepPromised` takes the
actions one by one: most change one standing or one request (`OneStanding`,
`OneRequest`) and map to one step of the promise, and the rest to none. The last
theorems apply `ServerPromiseProofs` to the mapped state. They use `ServerAssumption`
only.

`SystemProofs` proves `SystemTypeCorrect`, `AtMostOnceCorrect` and
`FailedWhileRunningCorrect`, each `Spec => []` of its property, for any number of calls,
attempts, handlers and faults. The client's half is not proved here but taken from its
promise: each step of the system is a step of `ClientPromise` or leaves the client alone
(`ClientPromiseKept`, a lemma that holds by how `System` is written), so that
`ClientPromiseProofs` applies; the
invariant is `ServerInv` for the server's half and `Promised!IInv` for the client's. For
`AtMostOnce` that is most of it: by `OneRequest` a call has one request on the wire, because
only what has not been sent is retried; the server's part is only that it admits what was
sent. `FailedWhileRunning`
needs both sides. `FailedInv`: a call that was not given up and failed with its request
sent was refused, or its connection closed under it. `LinkInv`: the client sees a connection closed only if it
was lost, or the server's task of it is gone. `GoneInv`: a task is gone under a running
handler only where the connection was lost, because the promise closes a connection after
its last handler, and a server that was forced has lost all of them.

`CallTimingProofs` proves, for any policies, headers, resolvers, latencies and widths
that satisfy `WidthAssumption`, `TimeAssumption`, `ServerAssumption` and
`PolicyAssumption`:

| theorem | states |
|---|---|
| `TimingTypeCorrect` | `Spec => []TypeOK` |
| `TimeoutHonestCorrect` | `Spec => []TimeoutHonest` |
| `BackoffsExactCorrect` | `Spec => []BackoffsExact` |

The code's widths are 2^64 - 1 for `U64`, eight digits for `SpecMax` and 2^63 - 1 seconds
or thereabouts for `InstantSecs`; `PolicyAssumption` asks of a policy what its Rust types
do, but for the multiplier, which is a fraction here and an `f64` there, and for a cap of
more than 2^64 - 1 ms. `TimeoutHonest` rests on `ParseHonest`, which takes the units one by one: a
product of `u64`s that wraps is never more than it should be (`ProductHonest`), and the
eight digits that gRPC allows never reach the widths (`WidthsHold`). `TimingInv` is the
invariant of the rest: the number of backoffs slept matches the attempt and the n-th is
`BackoffFor` of n (`TurnInv`).

What `BackoffFor` computes is about powers, which the provers know nothing of. `Induction`
is induction over the naturals in first-order form, about a set and not an operator,
derived from the well-foundedness of `<`. From it follow that `Power` is defined
(`PowersExist`, `PowersAgree`, `PowerExists`), that its laws hold (`PowerLaws`,
`PowerSigns`), that backoffs grow with the attempts while a multiplier is at least one,
through truncation, saturation and cap (`BackoffGrows`, `BackoffMonotone`), and that
nothing but truncation and the cap comes between a backoff and its formula
(`BackoffExact`). The assumption that the cap is no more than `U64` milliseconds is
needed there: otherwise the cast would saturate below the cap.

With these, each invariant that a passing run checks is a theorem, and so is each action
property and each refinement. Only model-checked is what says that something happens:
`EveryCallerAnswered`, `EveryCallEnds` (of the channel and of the system),
`DeadlineHonoured`, `DuplexNeverStalls`, `NothingOutlivesBody`, `ShutdownEnds`,
`NothingLeftBehind`, `EveryConnectionAnswered` and `Recovered`. They rest on fairness, and
so on ENABLED, which is out of the provers' reach.

## Not modelled

The metrics only count, and nothing reads them; the facade crate re-exports; the
benches, the examples and their tests are clients of the system. How `tls.rs` builds
rustls configurations and verifies certificates is sequential and keeps no state; what
other parts can tell of it, whether it fits a client or a server, is modelled. h3, quinn,
tokio and tonic are modelled from how this code uses them: a dropped `JoinHandle`
detaches and a dropped `JoinSet` aborts, a semaphore is fair, `timeout_at` drops what it
wraps and polls it before its timer, the last handle of a connection closes it, GOAWAY
makes new requests fail and leaves the connection open. The rounding of the floats in
`backoff_for` and panics of user code in connect tasks are left out.

## Plan

Done: the pool, the channel on top of it, one RPC end to end, the promises of client and
server with their refinements, timing, client and server together; and the proofs of every
safety property that the runs check.

Left: an abstract stream of frames that `RpcExchange` implements in each direction: a
prefix of the body is delivered, and a clean end only behind all of it. `Carries` and
`Delivered` are most of the proof.
