----------------------------- MODULE RpcExchange -----------------------------
(***************************************************************************)
(* One RPC from the moment send_request has opened its stream: the task    *)
(* that forwards the request body and the call that awaits the response    *)
(* (crates/grpc-quic-client/src/channel.rs), handle_request of the server  *)
(* (crates/grpc-quic-server/src/acceptor.rs), and the two bodies that wrap *)
(* the streams (crates/grpc-quic-core/src/body.rs).                        *)
(*                                                                         *)
(* A body yields data frames and then one of "end" (None), "trailers" and  *)
(* "error".  A stream is the sequence of frames its reader has yet to see; *)
(* "fin" is its clean end, "cut" an end that the reader sees as an error.  *)
(* Of the h3 and quinn libraries the model has what the code relies on:    *)
(* flow control blocks a writer, a dropped SendStream is finished, and a   *)
(* dropped RecvStream makes the peer's writes fail.                        *)
(***************************************************************************)
EXTENDS Naturals, Sequences, FiniteSets, SequencesExt

CONSTANTS Frames,  \* bound: data frames of each body
          Window   \* bound: frames that flow control lets wait in a stream

ASSUME ExchangeAssumption == Frames \in Nat /\ Window \in Nat \ {0}

VARIABLES
    request,      \* what the user's request body has yielded
    forwarder,    \* polls the body, or writes a frame, or has ended
    aborted,      \* its AbortHandle was used
    err,          \* err_tx: nothing yet, an error, an error already taken
    up,           \* the request stream
    upStopped,    \* the server has dropped its end of it
    held,         \* the service holds its ServerRecvBody
    seen,         \* what that body has yielded
    handler,      \* handle_request: calls the service, polls its response
                  \* body, or writes a frame, or has ended
    response,     \* what the service has answered
    down,         \* the response stream
    downStopped,  \* the client has dropped its end of it
    client,       \* awaits the response headers, has its body, or has ended
    deadline,     \* whether there is one, and whether it has passed
    isClosed, trailersDone,   \* of ClientRecvBody
    got,          \* what that body has yielded
    lost          \* the connection is lost

clientSide == <<request, forwarder, aborted, err>>
serverSide == <<held, seen, handler, response>>
callSide == <<client, isClosed, trailersDone, got>>
streams == <<up, upStopped, down, downStopped>>
vars == <<clientSide, serverSide, callSide, streams, deadline, lost>>

Endings == {"end", "trailers", "error"}
Writing == {"headers", "500", "data", "trailers", "finish"}

Init == /\ request = <<>> /\ forwarder = "polling" /\ aborted = FALSE /\ err = "none"
        /\ up = <<>> /\ upStopped = FALSE
        /\ held = TRUE /\ seen = <<>>
        /\ handler = "calling" /\ response = <<>>
        /\ down = <<>> /\ downStopped = FALSE
        /\ client = "awaiting" /\ isClosed = FALSE /\ trailersDone = FALSE /\ got = <<>>
        /\ deadline \in {"none", "set"}
        /\ lost = FALSE

-----------------------------------------------------------------------------
(* A body that has yielded s is at its end, and what it may yield next. *)
Exhausted(s) == s # <<>> /\ Last(s) \in Endings
Yields(s) == IF Exhausted(s) THEN {}
             ELSE Endings \cup {f \in {"data"} : Len(s) < Frames}

(* The stream when its sender is dropped, and when frames are written. *)
Finished(stream) == IF lost THEN stream ELSE Append(stream, "fin")
Room(stream) == Len(stream) < Window
Written(stream, f) == CASE f = "finish" -> Append(stream, "fin")
                        [] f \in {"trailers", "500"} -> stream \o <<f, "fin">>
                        [] OTHER -> Append(stream, f)

(* What the reader of a stream gets, and what is left.  Trailers count     *)
(* once the end of the stream is behind them.                              *)
Received(stream) ==
    CASE Head(stream) = "data" -> "data"
      [] Head(stream) = "trailers" /\ stream[2] = "fin" -> "trailers"
      [] Head(stream) = "fin" -> "end"
      [] OTHER -> "error"
Rest(stream) == IF Received(stream) \in {"data", "trailers"} THEN Tail(stream) ELSE stream

-----------------------------------------------------------------------------
(* Mutant: an error of the body is forwarded like a frame. *)
ForwardPollForwardsErrors ==
    /\ forwarder = "polling"
    /\ \E f \in Yields(request) :
          /\ request' = Append(request, f)
          /\ forwarder' = IF f = "end" THEN "finish" ELSE f
    /\ UNCHANGED <<aborted, err, up, upStopped, down, downStopped, serverSide, callSide,
                   deadline, lost>>

(* The forwarding task takes the next frame of the request body.  An error *)
(* of the body goes to err_tx, and the stream is dropped.                  *)
ForwardPoll ==
    /\ forwarder = "polling"
    /\ \E f \in Yields(request) :
          /\ request' = Append(request, f)
          /\ forwarder' = CASE f = "end" -> "finish" [] f = "error" -> "ended" [] OTHER -> f
          /\ err' = IF f = "error" THEN "error" ELSE err
          /\ up' = IF f = "error" THEN Finished(up) ELSE up
    /\ UNCHANGED <<aborted, upStopped, down, downStopped, serverSide, callSide, deadline, lost>>

(* send_data, send_trailers or finish succeeds. *)
ForwardWritten ==
    /\ forwarder \in Writing /\ ~lost
    /\ forwarder = "finish" \/ Room(up)
    /\ up' = Written(up, forwarder)
    /\ forwarder' = IF forwarder = "data" THEN "polling" ELSE "ended"
    /\ UNCHANGED <<request, aborted, err, upStopped, down, downStopped,
                   serverSide, callSide, deadline, lost>>

(* It fails: the error goes to err_tx, and the task ends. *)
ForwardFails ==
    /\ forwarder \in Writing
    /\ upStopped \/ lost
    /\ err' = "error"
    /\ forwarder' = "ended"
    /\ up' = Finished(up)
    /\ UNCHANGED <<request, aborted, upStopped, down, downStopped,
                   serverSide, callSide, deadline, lost>>

(* The runtime drops an aborted task at an await.  A frame it was writing  *)
(* may be left incomplete.                                                 *)
ForwardCancelled ==
    /\ aborted /\ forwarder # "ended"
    /\ forwarder' = "ended"
    /\ \/ up' = Finished(up)
       \/ forwarder \in Writing /\ up' = Append(up, "cut")
    /\ UNCHANGED <<request, aborted, err, upStopped, down, downStopped,
                   serverSide, callSide, deadline, lost>>

-----------------------------------------------------------------------------
(* Mutant: a read error of the request stream is taken for its end. *)
ServiceReadsLeniently ==
    /\ held /\ up # <<>>
    /\ ~Exhausted(seen)
    /\ seen' = Append(seen, IF Received(up) = "error" THEN "end" ELSE Received(up))
    /\ up' = Rest(up)
    /\ UNCHANGED <<held, handler, response, clientSide, upStopped, down, downStopped,
                   callSide, deadline, lost>>

(* ServerRecvBody::poll_frame, by the service *)
ServiceReads ==
    /\ held /\ up # <<>>
    /\ ~Exhausted(seen)
    /\ seen' = Append(seen, Received(up))
    /\ up' = Rest(up)
    /\ UNCHANGED <<held, handler, response, clientSide, upStopped, down, downStopped,
                   callSide, deadline, lost>>

(* The service may be done with the request at any time. *)
ServiceDropsBody ==
    /\ held
    /\ held' = FALSE
    /\ upStopped' = TRUE
    /\ UNCHANGED <<seen, handler, response, clientSide, up, down, downStopped,
                   callSide, deadline, lost>>

(* The service answers, or is not ready or fails and the answer is a 500. *)
Respond ==
    /\ handler = "calling"
    /\ \/ handler' = "headers" /\ UNCHANGED response
       \/ handler' = "500" /\ response' = <<"error">>
    /\ UNCHANGED <<held, seen, clientSide, callSide, streams, deadline, lost>>

(* Mutant: trailers are sent only after data, as finish is. *)
HandlerPollNeedsData ==
    /\ handler = "polling"
    /\ \E f \in Yields(response) :
          /\ response' = Append(response, f)
          /\ LET sent == f = "data" \/ (f = "trailers" /\ response # <<>>)
             IN  /\ handler' = IF sent THEN f ELSE "ended"
                 /\ down' = IF sent THEN down ELSE Finished(down)
    /\ UNCHANGED <<held, seen, clientSide, up, upStopped, downStopped,
                   callSide, deadline, lost>>

(* The loop takes the next frame of the response body.  The end and an     *)
(* error of the body both finish the stream, by finish or by the drop.     *)
HandlerPoll ==
    /\ handler = "polling"
    /\ \E f \in Yields(response) :
          /\ response' = Append(response, f)
          /\ handler' = IF f \in {"data", "trailers"} THEN f ELSE "ended"
          /\ down' = IF f \in {"data", "trailers"} THEN down ELSE Finished(down)
    /\ UNCHANGED <<held, seen, clientSide, up, upStopped, downStopped,
                   callSide, deadline, lost>>

HandlerWritten ==
    /\ handler \in Writing /\ ~lost
    /\ Room(down)
    /\ down' = Written(down, handler)
    /\ handler' = IF handler \in {"headers", "data"} THEN "polling" ELSE "ended"
    /\ UNCHANGED <<held, seen, response, clientSide, up, upStopped, downStopped,
                   callSide, deadline, lost>>

HandlerFails ==
    /\ handler \in Writing
    /\ downStopped \/ lost
    /\ handler' = "ended"
    /\ down' = Finished(down)
    /\ UNCHANGED <<held, seen, response, clientSide, up, upStopped, downStopped,
                   callSide, deadline, lost>>

-----------------------------------------------------------------------------
(* Mutant: the response is awaited once the request has been forwarded. *)
HeadersAfterRequest ==
    /\ client = "awaiting" /\ forwarder = "ended"
    /\ down # <<>> /\ Head(down) \in {"headers", "500"}
    /\ client' = "body"
    /\ down' = Tail(down)
    /\ UNCHANGED <<isClosed, trailersDone, got, clientSide, serverSide, up, upStopped,
                   downStopped, deadline, lost>>

(* recv_response returns the headers, and ClientRecvBody is made. *)
Headers ==
    /\ client = "awaiting"
    /\ down # <<>> /\ Head(down) \in {"headers", "500"}
    /\ client' = "body"
    /\ down' = Tail(down)
    /\ UNCHANGED <<isClosed, trailersDone, got, clientSide, serverSide, up, upStopped,
                   downStopped, deadline, lost>>

(* recv_response fails: the forwarder is aborted. *)
NoHeaders ==
    /\ client = "awaiting"
    /\ down # <<>> /\ Head(down) \notin {"headers", "500"}
    /\ client' = "ended"
    /\ got' = Append(got, "error")
    /\ aborted' = TRUE
    /\ downStopped' = TRUE
    /\ UNCHANGED <<isClosed, trailersDone, request, forwarder, err, serverSide,
                   up, upStopped, down, deadline, lost>>

(* The deadline passes or the user goes before there are headers: the      *)
(* future is dropped, and the forwarder is detached, not aborted.          *)
CallDropped ==
    /\ client = "awaiting"
    /\ client' = "ended"
    /\ downStopped' = TRUE
    /\ UNCHANGED <<isClosed, trailersDone, got, clientSide, serverSide, up, upStopped,
                   down, deadline, lost>>

(* The user polls ClientRecvBody until it has ended or failed. *)
Polling == client = "body" /\ ~(got # <<>> /\ Last(got) \in {"end", "error"})

PollClosed ==
    /\ Polling /\ isClosed
    /\ got' = Append(got, "end")
    /\ UNCHANGED <<client, isClosed, trailersDone, clientSide, serverSide, streams,
                   deadline, lost>>

(* Mutant: a deadline that has passed always adds its own trailers. *)
PollDeadlineAlways ==
    /\ Polling /\ ~isClosed /\ deadline = "due"
    /\ isClosed' = TRUE
    /\ aborted' = TRUE
    /\ trailersDone' = TRUE
    /\ got' = Append(got, "status4")
    /\ UNCHANGED <<client, request, forwarder, err, serverSide, streams, deadline, lost>>

(* The deadline has passed: the forwarder is aborted, and the response     *)
(* ends with grpc-status 4 unless it has its trailers.                     *)
PollDeadline ==
    /\ Polling /\ ~isClosed /\ deadline = "due"
    /\ isClosed' = TRUE
    /\ aborted' = TRUE
    /\ trailersDone' = TRUE
    /\ got' = Append(got, IF trailersDone THEN "end" ELSE "status4")
    /\ UNCHANGED <<client, request, forwarder, err, serverSide, streams, deadline, lost>>

(* Mutant: a sender dropped in silence is taken for an error. *)
PollForwardErrorOrDrop ==
    /\ Polling /\ ~isClosed /\ deadline # "due"
    /\ err = "error" \/ (forwarder = "ended" /\ err = "none")
    /\ err' = "taken"
    /\ got' = Append(got, "error")
    /\ UNCHANGED <<client, isClosed, trailersDone, request, forwarder, aborted,
                   serverSide, streams, deadline, lost>>

(* err_rx has an error: it comes before whatever the stream holds. *)
PollForwardError ==
    /\ Polling /\ ~isClosed /\ deadline # "due"
    /\ err = "error"
    /\ err' = "taken"
    /\ got' = Append(got, "error")
    /\ UNCHANGED <<client, isClosed, trailersDone, request, forwarder, aborted,
                   serverSide, streams, deadline, lost>>

(* Data and trailers of the stream; after the trailers there is no more.   *)
(* Where trailers arrive before the end behind them, data_done is set one  *)
(* poll before trailers_done, and the poll in between finds nothing.       *)
PollStream ==
    /\ Polling /\ ~isClosed /\ deadline # "due" /\ err # "error"
    /\ IF trailersDone
       THEN /\ got' = Append(got, "end")
            /\ UNCHANGED <<trailersDone, down>>
       ELSE /\ down # <<>>
            /\ got' = Append(got, Received(down))
            /\ trailersDone' = (Received(down) \in {"trailers", "end"})
            /\ down' = Rest(down)
    /\ UNCHANGED <<client, isClosed, clientSide, serverSide, up, upStopped, downStopped,
                   deadline, lost>>

(* Mutant: the body is dropped without AbortOnDrop. *)
BodyDroppedDetaches ==
    /\ client = "body"
    /\ client' = "ended"
    /\ downStopped' = TRUE
    /\ UNCHANGED <<isClosed, trailersDone, got, clientSide, serverSide,
                   up, upStopped, down, deadline, lost>>

(* The user drops the response body, at its end or before. *)
BodyDropped ==
    /\ client = "body"
    /\ client' = "ended"
    /\ aborted' = TRUE
    /\ downStopped' = TRUE
    /\ UNCHANGED <<isClosed, trailersDone, got, request, forwarder, err, serverSide,
                   up, upStopped, down, deadline, lost>>

-----------------------------------------------------------------------------
DeadlinePasses ==
    /\ deadline = "set"
    /\ deadline' = "due"
    /\ UNCHANGED <<clientSide, serverSide, callSide, streams, lost>>

(* The connection is lost: a reader gets what has arrived, then an error. *)
ConnectionLost ==
    /\ ~lost
    /\ lost' = TRUE
    /\ \E i \in 0 .. Len(up) : up' = Append(SubSeq(up, 1, i), "cut")
    /\ \E i \in 0 .. Len(down) : down' = Append(SubSeq(down, 1, i), "cut")
    /\ UNCHANGED <<clientSide, serverSide, callSide, upStopped, downStopped, deadline>>

AllDone == /\ client = "ended" /\ forwarder = "ended" /\ handler = "ended" /\ ~held
           /\ UNCHANGED vars

ForwarderStep == ForwardWritten \/ ForwardFails \/ ForwardCancelled
HandlerStep == Respond \/ HandlerPoll \/ HandlerWritten \/ HandlerFails
PollFrame == PollClosed \/ PollDeadline \/ PollForwardError \/ PollStream
ClientStep == Headers \/ NoHeaders \/ PollFrame

Next == \/ ForwardPoll \/ ForwarderStep
        \/ ServiceReads \/ ServiceDropsBody \/ HandlerStep
        \/ ClientStep \/ CallDropped \/ BodyDropped
        \/ DeadlinePasses \/ ConnectionLost
        \/ AllDone

Spec == Init /\ [][Next]_vars

(* Tasks that can move are polled; the service answers and its response    *)
(* body comes to an end; the user reads the response to its end and drops  *)
(* it.  Nothing makes the request body yield or the service read it.       *)
Fairness == /\ WF_vars(ForwarderStep)
            /\ WF_vars(HandlerStep)
            /\ WF_vars(ClientStep)
            /\ WF_vars(BodyDropped /\ ~Polling)

FairSpec == Spec /\ Fairness

-----------------------------------------------------------------------------
TypeOK == /\ request \in Seq({"data"} \cup Endings)
          /\ forwarder \in {"polling", "data", "trailers", "finish", "ended"}
          /\ err \in {"none", "error", "taken"}
          /\ up \in Seq({"data", "trailers", "fin", "cut"})
          /\ seen \in Seq({"data"} \cup Endings)
          /\ handler \in {"calling", "headers", "500", "polling", "data", "trailers", "ended"}
          /\ response \in Seq({"data"} \cup Endings)
          /\ down \in Seq({"headers", "500", "data", "trailers", "fin", "cut"})
          /\ client \in {"awaiting", "body", "ended"}
          /\ deadline \in {"none", "set", "due"}
          /\ got \in Seq({"data", "status4"} \cup Endings)
          /\ {aborted, upStopped, held, downStopped, isClosed, trailersDone, lost} \subseteq BOOLEAN

(* What reader has been told is the whole of body: all of its data, and    *)
(* then the ending it had.  An error of the body may pass for its end.     *)
Whole(reader, body) ==
    /\ body # <<>>
    /\ Front(reader) = Front(body)
    /\ \/ Last(reader) = Last(body)
       \/ Last(reader) = "end" /\ Last(body) = "error"

(* The prefixes of a reader's story that tell a clean ending. *)
CleanEndings(s) == {SubSeq(s, 1, i) : i \in {j \in DOMAIN s : s[j] \in {"end", "trailers"}
                                                /\ (j = 1 \/ s[j - 1] = "data")}}

(* However the connection dies and whoever stops first, a response that    *)
(* ends for the client without an error or a deadline is the service's.    *)
ResponseWhole == \A s \in CleanEndings(got) : Whole(s, response)

(* A request that ends for the service without an error is the user's,     *)
(* unless the client has aborted the forwarder.                            *)
RequestWhole == aborted \/ \A s \in CleanEndings(seen) : Whole(s, request)

(* A client gets one status, the server's or the deadline's, no data after *)
(* it, and nothing but the end after the deadline's.                       *)
OneStatus ==
    \A i, j \in DOMAIN got :
        /\ i < j /\ got[i] = "trailers" => got[j] \in {"end", "error"}
        /\ i < j /\ got[i] = "status4" => got[j] = "end"

(* The client sees an error only where the connection is lost, the request *)
(* body failed, or the service let go of a request that it had not read to *)
(* its end.  A service that is done with its request may drop it, whatever *)
(* the forwarder still does, and one that is slow may take its time.       *)
ErrorHasCause ==
    "error" \in ToSet(got) =>
        \/ lost
        \/ request # <<>> /\ Last(request) = "error"
        \/ upStopped /\ ~Exhausted(seen)

(* Requests and responses flow at once: whatever the windows and whoever   *)
(* stops reading, a client that keeps polling comes to an end.             *)
DuplexNeverStalls == client = "awaiting" ~> client = "ended"

(* Nothing outlives the response body: dropping it stops the forwarder,    *)
(* though the request body never yields, and the handler on the server.    *)
NothingOutlivesBody == client = "body" ~> forwarder = "ended" /\ handler = "ended"

-----------------------------------------------------------------------------
(* gRPC semantics are not changed: a service that sees its request end has *)
(* all of it.  In the code a request cut short by an error of its body, by *)
(* the deadline or by the user ends like a complete one.                   *)
CleanRequestComplete ==
    \A s \in CleanEndings(seen) : s = request

(* And the status of a call is the one that the service has given it, also *)
(* where it answers while the request is still being sent.  In the code    *)
(* the write that then fails overtakes what the response stream holds, and *)
(* hides the status that is already there.                                 *)
StatusNotHidden ==
    "error" \in ToSet(got) /\ ~lost /\ ~Exhausted(request) => "trailers" \notin ToSet(down)
=============================================================================
