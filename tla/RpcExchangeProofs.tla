-------------------------- MODULE RpcExchangeProofs --------------------------
(***************************************************************************)
(* A client is told of one RPC in order and once; what reaches the other   *)
(* end is what was sent, and an error has a cause, for bodies and windows  *)
(* of any size.                                                            *)
(***************************************************************************)
EXTENDS RpcExchange, Integers, SequenceTheorems, TLAPS

-----------------------------------------------------------------------------
(* What the client is told.                                                *)

(* What the client's state says of the frames it has been given. *)
Told == /\ got \in Seq({"data", "status4"} \cup Endings)
        /\ client = "awaiting" => got = <<>>

(* A status is on record in the flags that poll_frame asks first. *)
Recorded == \A i \in DOMAIN got :
                /\ got[i] = "trailers" => trailersDone
                /\ got[i] = "status4" => isClosed

StatusInv == Told /\ Recorded /\ OneStatus

(* One more frame keeps the order of the frames, if the flags allow it. *)
LEMMA OneMore ==
    ASSUME StatusInv,
           NEW f \in {"data", "status4"} \cup Endings,
           got' = Append(got, f),
           trailersDone => trailersDone', isClosed => isClosed',
           f = "trailers" => trailersDone', f = "status4" => isClosed',
           isClosed => f = "end",
           trailersDone => f \in {"end", "error"},
           client' # "awaiting"
    PROVE  StatusInv'
<1>1. /\ got' \in Seq({"data", "status4"} \cup Endings)
      /\ DOMAIN got' = 1 .. Len(got) + 1 /\ DOMAIN got = 1 .. Len(got)
      /\ Len(got) \in Nat
      /\ \A i \in DOMAIN got : got'[i] = got[i]
      /\ got'[Len(got) + 1] = f
  BY DEF StatusInv, Told
<1>2. Told' BY <1>1 DEF Told
<1>3. Recorded' BY <1>1 DEF StatusInv, Told, Recorded
<1>4. OneStatus'
  <2> SUFFICES ASSUME NEW i \in DOMAIN got', NEW j \in DOMAIN got', i < j
               PROVE  /\ got'[i] = "trailers" => got'[j] \in {"end", "error"}
                      /\ got'[i] = "status4" => got'[j] = "end"
    BY DEF OneStatus
  <2>1. i \in DOMAIN got BY <1>1
  <2>2. CASE j \in DOMAIN got BY <1>1, <2>1, <2>2 DEF StatusInv, OneStatus
  <2>3. CASE j = Len(got) + 1 BY <1>1, <2>1, <2>3 DEF StatusInv, Recorded
  <2> QED BY <1>1, <2>2, <2>3
<1> QED BY <1>2, <1>3, <1>4 DEF StatusInv

(* A read of a stream has one of four results. *)
LEMMA ReadResults ==
    ASSUME NEW s
    PROVE  Received(s) \in {"data"} \cup Endings
BY DEF Received, Endings

LEMMA InitStatus == Init => StatusInv
<1> SUFFICES ASSUME Init PROVE StatusInv OBVIOUS
<1>1. got = <<>> /\ DOMAIN got = {} /\ got \in Seq({"data", "status4"} \cup Endings)
  BY DEF Init
<1>2. Told BY <1>1 DEF Init, Told
<1>3. Recorded BY <1>1 DEF Recorded
<1>4. OneStatus BY <1>1 DEF OneStatus
<1> QED BY <1>2, <1>3, <1>4 DEF StatusInv

LEMMA StatusStep == StatusInv /\ [Next]_vars => StatusInv'
<1> SUFFICES ASSUME StatusInv, [Next]_vars PROVE StatusInv' OBVIOUS
<1> USE DEF Endings
<1>0. ASSUME UNCHANGED callSide PROVE StatusInv'
  BY <1>0 DEF callSide, StatusInv, Told, Recorded, OneStatus
<1>a. ASSUME client' # "awaiting", UNCHANGED <<got, isClosed, trailersDone>> PROVE StatusInv'
  BY <1>a DEF StatusInv, Told, Recorded, OneStatus
<1>1. CASE Headers BY <1>a, <1>1 DEF Headers
<1>2. CASE NoHeaders
  <2>1. got = <<>> BY <1>2 DEF NoHeaders, StatusInv, Told
  <2>2. got' = <<"error">> /\ client' # "awaiting"
    BY <1>2, <2>1 DEF NoHeaders
  <2> QED BY <1>2, <2>2 DEF NoHeaders, StatusInv, Told, Recorded, OneStatus
<1>3. CASE CallDropped BY <1>a, <1>3 DEF CallDropped
<1>4. CASE BodyDropped BY <1>a, <1>4 DEF BodyDropped
<1>5. CASE PollClosed
  BY <1>5, OneMore DEF PollClosed, Polling, StatusInv, Told
<1>6. CASE PollDeadline
  BY <1>6, OneMore DEF PollDeadline, Polling, StatusInv, Told
<1>7. CASE PollForwardError
  BY <1>7, OneMore DEF PollForwardError, Polling, StatusInv, Told
<1>8. CASE PollStream
  <2>1. CASE trailersDone
    BY <1>8, <2>1, OneMore DEF PollStream, Polling, StatusInv, Told
  <2>2. CASE ~trailersDone
    <3> DEFINE f == Received(down)
    <3>1. f \in {"data"} \cup Endings BY ReadResults
    <3>2. /\ got' = Append(got, f) /\ trailersDone' = (f \in {"trailers", "end"})
          /\ isClosed' = isClosed /\ ~isClosed /\ client' = "body"
      BY <1>8, <2>2 DEF PollStream, Polling
    <3> HIDE DEF f
    <3>3. f = "trailers" => trailersDone' BY <3>2
    <3>4. f \in {"data", "status4"} \cup Endings /\ f # "status4" BY <3>1
    <3> QED BY <3>2, <3>3, <3>4, <2>2, OneMore
  <2> QED BY <2>1, <2>2
<1>9. CASE ForwardPoll \/ ForwarderStep
  BY <1>0, <1>9 DEF ForwardPoll, ForwarderStep, ForwardWritten, ForwardFails, ForwardCancelled
<1>10. CASE ServiceReads \/ ServiceDropsBody \/ HandlerStep
  BY <1>0, <1>10 DEF ServiceReads, ServiceDropsBody, HandlerStep, Respond, HandlerPoll,
                     HandlerWritten, HandlerFails
<1>11. CASE DeadlinePasses \/ ConnectionLost
  BY <1>0, <1>11 DEF DeadlinePasses, ConnectionLost
<1>12. CASE AllDone \/ UNCHANGED vars
  BY <1>0, <1>12 DEF AllDone, vars
<1> QED
  BY <1>1, <1>2, <1>3, <1>4, <1>5, <1>6, <1>7, <1>8, <1>9, <1>10, <1>11, <1>12
     DEF Next, ClientStep, PollFrame

(* A client gets one status, the server's or the deadline's, no data after *)
(* it, and nothing but the end after the deadline's.                       *)
THEOREM OneStatusCorrect == Spec => []OneStatus
<1>1. StatusInv => OneStatus BY DEF StatusInv
<1> QED BY InitStatus, StatusStep, <1>1, PTL DEF Spec

-----------------------------------------------------------------------------
(* What reaches the other end. *)
Frame == {"data"} \cup Endings
Wire == {"headers", "500", "data", "trailers", "fin", "cut"}

-----------------------------------------------------------------------------
(* The parts of the inductive invariant.  A body's story is data up to its *)
(* last frame.                                                             *)
Story(s) == s \in Seq(Frame) /\ \A i \in DOMAIN s : i < Len(s) => s[i] = "data"

(* Frame f of a stream belongs where the k-th frame of body is: the head   *)
(* of the response at 0, and the end of the stream at the end of the body  *)
(* or behind its trailers.                                                 *)
Fits(f, k, body) ==
    /\ f \in {"headers", "500"} => k = 0
    /\ f \in {"data", "trailers"} => k \in DOMAIN body /\ body[k] = f
    /\ f = "fin" => \/ k \in DOMAIN body /\ body[k] \in {"end", "error"}
                    \/ k - 1 \in DOMAIN body /\ body[k - 1] = "trailers"

(* After n frames of the body have been read, stream s holds the next ones. *)
Carries(s, n, body) == \A i \in DOMAIN s : Fits(s[i], n + i, body)

(* What a reader is told when the frame is b. *)
Tells(f, b) == f = b \/ (f = "end" /\ b = "error")

(* Up to its first ending a reader has been told the body, frame by frame. *)
Delivered(reader, body) ==
    \A i \in DOMAIN reader :
       (\A j \in DOMAIN reader : j < i => reader[j] = "data")
          /\ reader[i] \in {"data", "end", "trailers"}
       => i \in DOMAIN body /\ Tells(reader[i], body[i])

AllData(s) == \A i \in DOMAIN s : s[i] = "data"

-----------------------------------------------------------------------------
(* A body that is not at its end may yield one more frame. *)
LEMMA StoryGrows ==
    ASSUME NEW s, Story(s), ~Exhausted(s), NEW f \in Frame
    PROVE  Story(Append(s, f))
<1>1. /\ Append(s, f) \in Seq(Frame) /\ Len(Append(s, f)) = Len(s) + 1 /\ Len(s) \in Nat
      /\ \A i \in 1 .. Len(s) : Append(s, f)[i] = s[i]
      /\ DOMAIN Append(s, f) = 1 .. Len(s) + 1
  BY AppendProperties, LenProperties DEF Story
<1>2. \A i \in 1 .. Len(s) : s[i] = "data"
  BY LenProperties DEF Story, Exhausted, Last, Frame
<1> QED BY <1>1, <1>2 DEF Story

(* What a stream carries it carries still when the body has yielded more. *)
LEMMA CarriesGrows ==
    ASSUME NEW s, NEW n, NEW body \in Seq(Frame), NEW f \in Frame, Carries(s, n, body)
    PROVE  Carries(s, n, Append(body, f))
<1>1. /\ DOMAIN body \subseteq DOMAIN Append(body, f)
      /\ \A k \in DOMAIN body : Append(body, f)[k] = body[k]
  BY AppendProperties, LenProperties
<1> QED BY <1>1 DEF Carries, Fits

(* The same holds of what has been delivered. *)
LEMMA DeliveredGrows ==
    ASSUME NEW s, NEW body \in Seq(Frame), NEW f \in Frame, Delivered(s, body)
    PROVE  Delivered(s, Append(body, f))
<1>1. /\ DOMAIN body \subseteq DOMAIN Append(body, f)
      /\ \A k \in DOMAIN body : Append(body, f)[k] = body[k]
  BY AppendProperties, LenProperties
<1> QED BY <1>1 DEF Delivered

(* A frame is written behind the others. *)
LEMMA CarriesAppend ==
    ASSUME NEW s \in Seq(Wire), NEW n \in Int, NEW body, NEW f \in Wire,
           Carries(s, n, body), Fits(f, n + Len(s) + 1, body)
    PROVE  Carries(Append(s, f), n, body)
<1>1. /\ DOMAIN s = 1 .. Len(s) /\ DOMAIN Append(s, f) = 1 .. Len(s) + 1 /\ Len(s) \in Nat
      /\ \A i \in 1 .. Len(s) : Append(s, f)[i] = s[i]
      /\ Append(s, f)[Len(s) + 1] = f
  BY AppendProperties, LenProperties
<1> SUFFICES ASSUME NEW i \in DOMAIN Append(s, f) PROVE Fits(Append(s, f)[i], n + i, body)
  BY DEF Carries
<1>2. CASE i \in DOMAIN s BY <1>1, <1>2 DEF Carries
<1>3. CASE i = Len(s) + 1
  <2>1. n + i = n + Len(s) + 1 BY <1>1, <1>3
  <2> QED BY <1>1, <1>3, <2>1
<1> QED BY <1>1, <1>2, <1>3

(* The reader has taken the first frame. *)
LEMMA CarriesTail ==
    ASSUME NEW s \in Seq(Wire), s # <<>>, NEW n \in Int, NEW body, Carries(s, n, body)
    PROVE  Carries(Tail(s), n + 1, body)
<1>1. /\ DOMAIN s = 1 .. Len(s) /\ DOMAIN Tail(s) = 1 .. Len(s) - 1 /\ Len(s) \in Nat
      /\ \A i \in 1 .. Len(s) - 1 : Tail(s)[i] = s[i + 1]
  BY HeadTailProperties, LenProperties
<1> SUFFICES ASSUME NEW i \in DOMAIN Tail(s) PROVE Fits(Tail(s)[i], n + 1 + i, body)
  BY DEF Carries
<1>2. i + 1 \in DOMAIN s /\ Tail(s)[i] = s[i + 1] /\ n + (i + 1) = n + 1 + i BY <1>1
<1>3. Fits(s[i + 1], n + (i + 1), body) BY <1>2 DEF Carries
<1> QED BY <1>2, <1>3

(* A stream cut short is a stream. *)
LEMMA CutTyped ==
    ASSUME NEW W, "cut" \in W, NEW s \in Seq(W), NEW i \in 0 .. Len(s)
    PROVE  Append(SubSeq(s, 1, i), "cut") \in Seq(W)
<1>1. Len(s) \in Nat /\ \A j \in 1 .. Len(s) : s[j] \in W BY LenProperties, ElementOfSeq
<1>2. \A j \in 1 .. i : s[j] \in W BY <1>1
<1> QED BY <1>1, <1>2, SubSeqProperties, AppendProperties

(* Nor do cuts say anything of the body. *)
LEMMA CarriesCut ==
    ASSUME NEW s \in Seq(Wire), NEW n \in Int, NEW body, Carries(s, n, body),
           NEW i \in 0 .. Len(s)
    PROVE  /\ Append(SubSeq(s, 1, i), "cut") \in Seq(Wire)
           /\ Carries(Append(SubSeq(s, 1, i), "cut"), n, body)
<1>1. /\ SubSeq(s, 1, i) \in Seq(Wire) /\ Len(SubSeq(s, 1, i)) = i
      /\ \A j \in 1 .. i : SubSeq(s, 1, i)[j] = s[j]
      /\ DOMAIN s = 1 .. Len(s) /\ Len(s) \in Nat
      /\ DOMAIN SubSeq(s, 1, i) = 1 .. i
  <2>1. Len(s) \in Nat /\ DOMAIN s = 1 .. Len(s) /\ \A j \in 1 .. Len(s) : s[j] \in Wire
    BY LenProperties, ElementOfSeq
  <2>2. \A j \in 1 .. i : s[j] \in Wire BY <2>1
  <2> QED BY <2>1, <2>2, SubSeqProperties, LenProperties
<1>2. Carries(SubSeq(s, 1, i), n, body) BY <1>1 DEF Carries
<1>3. "cut" \in Wire /\ Fits("cut", n + Len(SubSeq(s, 1, i)) + 1, body) BY DEF Wire, Fits
<1> QED BY <1>1, <1>2, <1>3, CarriesAppend, AppendProperties

(* A frame told to a reader that has had only data is the next one.  *)
LEMMA DeliveredOne ==
    ASSUME NEW s, NEW F, s \in Seq(F), NEW body, NEW f \in F, Delivered(s, body),
           AllData(s) /\ f \in {"data", "end", "trailers"}
              => Len(s) + 1 \in DOMAIN body /\ Tells(f, body[Len(s) + 1])
    PROVE  Delivered(Append(s, f), body)
<1>1. /\ DOMAIN s = 1 .. Len(s) /\ DOMAIN Append(s, f) = 1 .. Len(s) + 1 /\ Len(s) \in Nat
      /\ \A i \in 1 .. Len(s) : Append(s, f)[i] = s[i]
      /\ Append(s, f)[Len(s) + 1] = f
  BY AppendProperties, LenProperties
<1> DEFINE t == Append(s, f)
<1> SUFFICES ASSUME NEW i \in DOMAIN t, \A j \in DOMAIN t : j < i => t[j] = "data",
                    t[i] \in {"data", "end", "trailers"}
             PROVE  i \in DOMAIN body /\ Tells(t[i], body[i])
  BY DEF Delivered
<1>2. CASE i \in DOMAIN s BY <1>1, <1>2 DEF Delivered
<1>3. CASE i = Len(s) + 1 BY <1>1, <1>3 DEF AllData
<1> QED BY <1>1, <1>2, <1>3

(* What each result of a read says of the first frame.  *)
LEMMA ReadFrame ==
    ASSUME NEW s
    PROVE  \/ Head(s) = "data" /\ Received(s) = "data"
           \/ Head(s) = "trailers" /\ s[2] = "fin" /\ Received(s) = "trailers"
           \/ Head(s) = "fin" /\ Received(s) = "end"
           \/ /\ Head(s) \notin {"data", "fin"}
              /\ ~(Head(s) = "trailers" /\ s[2] = "fin")
              /\ Received(s) = "error"
<1>1. CASE Head(s) = "data" BY <1>1 DEF Received
<1>2. CASE Head(s) = "trailers" /\ s[2] = "fin" BY <1>2 DEF Received
<1>3. CASE Head(s) = "fin" BY <1>3 DEF Received
<1>4. CASE Head(s) \notin {"data", "fin"} /\ ~(Head(s) = "trailers" /\ s[2] = "fin")
  BY <1>4 DEF Received
<1> QED BY <1>1, <1>2, <1>3, <1>4

(* Reading a stream in step with the body tells its next frame: the end of *)
(* the stream behind the trailers cannot come up while only data was read. *)
LEMMA ReadsNext ==
    ASSUME NEW s, NEW n \in Nat, NEW body \in Seq(Frame), s \in Seq(Wire), s # <<>>,
           Carries(s, n, body), n > 0 => n \in DOMAIN body /\ body[n] = "data",
           Received(s) # "error"
    PROVE  n + 1 \in DOMAIN body /\ Tells(Received(s), body[n + 1])
<1>1. 1 \in DOMAIN s /\ Head(s) = s[1] BY LenProperties
<1>2. Fits(Head(s), n + 1, body) BY <1>1 DEF Carries
<1>3. \/ Head(s) = "data" /\ Received(s) = "data"
      \/ Head(s) = "trailers" /\ Received(s) = "trailers"
      \/ Head(s) = "fin" /\ Received(s) = "end"
  BY ReadFrame
<1>4. n \in DOMAIN body => n > 0 BY LenProperties
<1> QED BY <1>2, <1>3, <1>4 DEF Fits, Tells

(* A reader that has had only data knows the frame of the body it is at. *)
LEMMA InStep ==
    ASSUME NEW s, NEW F, s \in Seq(F), NEW body, Delivered(s, body), AllData(s), Len(s) > 0
    PROVE  Len(s) \in DOMAIN body /\ body[Len(s)] = "data"
<1>1. Len(s) \in DOMAIN s BY LenProperties
<1> QED BY <1>1 DEF Delivered, AllData, Tells

(* What is written of a frame. *)
LEMMA WrittenFrame ==
    ASSUME NEW s, NEW f
    PROVE  /\ f = "finish" => Written(s, f) = Append(s, "fin")
           /\ f \in {"trailers", "500"} => Written(s, f) = s \o <<f, "fin">>
           /\ f \in {"headers", "data"} => Written(s, f) = Append(s, f)
<1>1. CASE f = "finish" BY <1>1 DEF Written
<1>2. CASE f \in {"trailers", "500"} BY <1>2 DEF Written
<1>3. CASE f \in {"headers", "data"} BY <1>3 DEF Written
<1> QED BY <1>1, <1>2, <1>3

(* Two frames at once are one behind the other. *)
LEMMA TwoFrames ==
    ASSUME NEW s \in Seq(Wire), NEW f \in Wire, NEW g \in Wire
    PROVE  s \o <<f, g>> = Append(Append(s, f), g)
<1>1. /\ <<f, g>> \in Seq(Wire) /\ Len(<<f, g>>) = 2
      /\ <<f, g>>[1] = f /\ <<f, g>>[2] = g
  OBVIOUS
<1> DEFINE a == Append(s, f)
           b == Append(a, g)
           c == s \o <<f, g>>
<1>2. /\ a \in Seq(Wire) /\ Len(a) = Len(s) + 1 /\ a[Len(s) + 1] = f
      /\ \A i \in 1 .. Len(s) : a[i] = s[i]
  BY AppendProperties
<1>3. /\ b \in Seq(Wire) /\ Len(b) = Len(a) + 1 /\ b[Len(a) + 1] = g
      /\ \A i \in 1 .. Len(a) : b[i] = a[i]
  BY <1>2, AppendProperties
<1>4. /\ c \in Seq(Wire) /\ Len(c) = Len(s) + 2
      /\ \A i \in 1 .. Len(s) + 2 : c[i] = IF i <= Len(s) THEN s[i] ELSE <<f, g>>[i - Len(s)]
  BY <1>1, ConcatProperties
<1> HIDE DEF a, b, c
<1>5. Len(s) \in Nat BY LenProperties
<1>6. ASSUME NEW i \in 1 .. Len(c) PROVE c[i] = b[i]
  <2>1. CASE i <= Len(s) BY <1>2, <1>3, <1>4, <1>5, <2>1
  <2>2. CASE i = Len(s) + 1 BY <1>1, <1>2, <1>3, <1>4, <1>5, <2>2
  <2>3. CASE i = Len(s) + 2 BY <1>1, <1>2, <1>3, <1>4, <1>5, <2>3
  <2> QED BY <1>4, <1>5, <2>1, <2>2, <2>3
<1>7. Len(c) = Len(b) BY <1>2, <1>3, <1>4, <1>5
<1>8. c = b BY <1>3, <1>4, <1>6, <1>7, SeqEqual
<1> QED BY <1>8 DEF a, b, c

(* What is written to a stream is a stream. *)
LEMMA WrittenTyped ==
    ASSUME NEW W, "fin" \in W, NEW s \in Seq(W), NEW f,
           f = "finish" \/ (f \in W /\ f \in {"headers", "500", "data", "trailers"})
    PROVE  Written(s, f) \in Seq(W)
<1>1. CASE f = "finish"
  <2>1. Written(s, f) = Append(s, "fin") BY <1>1, WrittenFrame
  <2> QED BY <2>1
<1>2. CASE f \in W /\ f \in {"headers", "data"}
  <2>1. Written(s, f) = Append(s, f) BY <1>2, WrittenFrame
  <2> QED BY <1>2, <2>1
<1>3. CASE f \in W /\ f \in {"500", "trailers"}
  <2>1. <<f, "fin">> \in Seq(W) BY <1>3
  <2> QED BY <1>3, <2>1, WrittenFrame, ConcatProperties
<1> QED BY <1>1, <1>2, <1>3

-----------------------------------------------------------------------------
(* The first state is well typed. *)
LEMMA InitTypeOK == Init => TypeOK
<1> SUFFICES ASSUME Init PROVE TypeOK OBVIOUS
<1>1. \A S : <<>> \in Seq(S) BY EmptySeq
<1>2. {aborted, upStopped, held, downStopped, isClosed, trailersDone, lost} \subseteq BOOLEAN
  BY DEF Init
<1> QED BY <1>1, <1>2 DEF Init, TypeOK

(* A step of the request's side keeps every variable within its type. *)
LEMMA RequestTypes ==
    ASSUME TypeOK, ForwardPoll \/ ForwarderStep \/ ServiceReads \/ ServiceDropsBody
    PROVE  TypeOK'
<1> USE DEF Endings
<1>1. CASE ForwardPoll
  <2> PICK f \in Yields(request) :
        /\ request' = Append(request, f)
        /\ forwarder' = CASE f = "end" -> "finish" [] f = "error" -> "ended" [] OTHER -> f
        /\ err' = (IF f = "error" THEN "error" ELSE err)
        /\ up' = (IF f = "error" THEN Finished(up) ELSE up)
    BY <1>1 DEF ForwardPoll
  <2>1. f \in {"data", "end", "trailers", "error"} BY DEF Yields
  <2>2. forwarder' \in {"data", "trailers", "finish", "ended"}
    <3>1. CASE f = "end" BY <3>1
    <3>2. CASE f = "error" BY <3>2
    <3>3. CASE f \in {"data", "trailers"} BY <3>3
    <3> QED BY <2>1, <3>1, <3>2, <3>3
  <2>3. request' \in Seq({"data"} \cup Endings) BY <2>1 DEF TypeOK
  <2>4. up' \in Seq({"data", "trailers", "fin", "cut"}) BY DEF TypeOK, Finished
  <2>5. err' \in {"none", "error", "taken"} BY DEF TypeOK
  <2> QED
    BY <1>1, <2>2, <2>3, <2>4, <2>5
       DEF ForwardPoll, TypeOK, serverSide, callSide
<1>2. CASE ForwardWritten
  <2>1. forwarder \in {"data", "trailers", "finish"} BY <1>2 DEF ForwardWritten, TypeOK, Writing
  <2>2. up' \in Seq({"data", "trailers", "fin", "cut"})
    BY <1>2, <2>1, WrittenTyped DEF ForwardWritten, TypeOK
  <2> QED BY <1>2, <2>2 DEF ForwardWritten, TypeOK, serverSide, callSide
<1>3. CASE ForwardFails
  BY <1>3 DEF ForwardFails, Finished, TypeOK, serverSide, callSide
<1>4. CASE ForwardCancelled
  <2>1. up' \in Seq({"data", "trailers", "fin", "cut"})
    <3>1. /\ up \in Seq({"data", "trailers", "fin", "cut"})
          /\ up' \in {up, Append(up, "fin"), Append(up, "cut")}
      BY <1>4 DEF ForwardCancelled, Finished, TypeOK
    <3> QED BY <3>1
  <2> QED BY <1>4, <2>1 DEF ForwardCancelled, TypeOK, serverSide, callSide
<1>5. CASE ServiceReads
  <2>1. Received(up) \in {"data"} \cup Endings BY ReadResults
  <2>2. seen' \in Seq({"data"} \cup Endings) /\ up' \in Seq({"data", "trailers", "fin", "cut"})
    BY <1>5, <2>1 DEF ServiceReads, Rest, TypeOK
  <2> QED BY <1>5, <2>2 DEF ServiceReads, TypeOK, clientSide, callSide
<1>6. CASE ServiceDropsBody BY <1>6 DEF ServiceDropsBody, TypeOK, clientSide, callSide
<1> QED BY <1>1, <1>2, <1>3, <1>4, <1>5, <1>6 DEF ForwarderStep

(* So does a step of the handler. *)
LEMMA HandlerTypes == ASSUME TypeOK, HandlerStep PROVE TypeOK'
<1> USE DEF Endings
<1>1. CASE Respond
  <2>1. response' \in Seq({"data"} \cup Endings) /\ handler' \in {"headers", "500"}
    <3>1. <<"error">> \in Seq({"data"} \cup Endings) OBVIOUS
    <3> QED BY <1>1, <3>1 DEF Respond, TypeOK
  <2> QED BY <1>1, <2>1 DEF Respond, TypeOK, clientSide, callSide, streams
<1>2. CASE HandlerPoll
  <2> PICK f \in Yields(response) :
        /\ response' = Append(response, f)
        /\ handler' = (IF f \in {"data", "trailers"} THEN f ELSE "ended")
        /\ down' = (IF f \in {"data", "trailers"} THEN down ELSE Finished(down))
    BY <1>2 DEF HandlerPoll
  <2>1. f \in {"data", "end", "trailers", "error"} BY DEF Yields
  <2>2. /\ response' \in Seq({"data"} \cup Endings)
        /\ handler' \in {"data", "trailers", "ended"}
    BY <2>1 DEF TypeOK
  <2>3. down' \in Seq({"headers", "500", "data", "trailers", "fin", "cut"}) BY DEF TypeOK, Finished
  <2> QED BY <1>2, <2>2, <2>3 DEF HandlerPoll, TypeOK, clientSide, callSide
<1>3. CASE HandlerWritten
  <2>1. handler \in {"headers", "500", "data", "trailers"}
    BY <1>3 DEF HandlerWritten, TypeOK, Writing
  <2>2. down' \in Seq({"headers", "500", "data", "trailers", "fin", "cut"})
    BY <1>3, <2>1, WrittenTyped DEF HandlerWritten, TypeOK
  <2> QED BY <1>3, <2>2 DEF HandlerWritten, TypeOK, clientSide, callSide
<1>4. CASE HandlerFails BY <1>4 DEF HandlerFails, Finished, TypeOK, clientSide, callSide
<1> QED BY <1>1, <1>2, <1>3, <1>4 DEF HandlerStep

(* And a step of the client, the clock or the network. *)
LEMMA ClientTypes ==
    ASSUME TypeOK, \/ ClientStep \/ CallDropped \/ BodyDropped
                   \/ DeadlinePasses \/ ConnectionLost \/ AllDone \/ UNCHANGED vars
    PROVE  TypeOK'
<1> USE DEF Endings
<1>0. /\ got \in Seq({"data", "status4"} \cup Endings)
      /\ \A f \in {"end", "error", "status4"} :
            Append(got, f) \in Seq({"data", "status4"} \cup Endings)
  BY AppendProperties DEF TypeOK
<1>1. CASE Headers \/ NoHeaders \/ CallDropped \/ BodyDropped
  <2>1. /\ got' \in Seq({"data", "status4"} \cup Endings)
        /\ down' \in Seq({"headers", "500", "data", "trailers", "fin", "cut"})
        /\ client' \in {"awaiting", "body", "ended"}
    BY <1>0, <1>1, HeadTailProperties
       DEF Headers, NoHeaders, CallDropped, BodyDropped, TypeOK
  <2> QED
    BY <1>1, <2>1 DEF Headers, NoHeaders, CallDropped, BodyDropped, TypeOK, clientSide, serverSide
<1>2. CASE PollClosed \/ PollDeadline \/ PollForwardError
  <2>1. got' \in Seq({"data", "status4"} \cup Endings)
    BY <1>0, <1>2 DEF PollClosed, PollDeadline, PollForwardError
  <2> QED
    BY <1>2, <2>1
       DEF PollClosed, PollDeadline, PollForwardError, TypeOK, clientSide, serverSide, streams
<1>3. CASE PollStream
  <2>1. Received(down) \in {"data"} \cup Endings BY ReadResults
  <2>2. /\ got' \in Seq({"data", "status4"} \cup Endings) /\ trailersDone' \in BOOLEAN
        /\ down' \in Seq({"headers", "500", "data", "trailers", "fin", "cut"})
    <3>1. CASE trailersDone BY <1>0, <1>3, <3>1 DEF PollStream, TypeOK
    <3>2. CASE ~trailersDone
      <4>1. down # <<>> /\ got' = Append(got, Received(down)) /\ down' = Rest(down)
            /\ trailersDone' \in BOOLEAN
        BY <1>3, <3>2 DEF PollStream
      <4> QED BY <1>0, <2>1, <4>1, AppendProperties, HeadTailProperties DEF Rest, TypeOK
    <3> QED BY <3>1, <3>2
  <2> QED BY <1>3, <2>2 DEF PollStream, TypeOK, clientSide, serverSide
<1>4. CASE DeadlinePasses
  BY <1>4 DEF DeadlinePasses, TypeOK, clientSide, serverSide, callSide, streams
<1>5. CASE ConnectionLost
  <2>1. /\ up' \in Seq({"data", "trailers", "fin", "cut"})
        /\ down' \in Seq({"headers", "500", "data", "trailers", "fin", "cut"})
    <3>1. /\ up \in Seq({"data", "trailers", "fin", "cut"})
          /\ down \in Seq({"headers", "500", "data", "trailers", "fin", "cut"})
      BY DEF TypeOK
    <3>2. PICK i \in 0 .. Len(up) : up' = Append(SubSeq(up, 1, i), "cut")
      BY <1>5 DEF ConnectionLost
    <3>3. PICK j \in 0 .. Len(down) : down' = Append(SubSeq(down, 1, j), "cut")
      BY <1>5 DEF ConnectionLost
    <3>4. up' \in Seq({"data", "trailers", "fin", "cut"}) BY <3>1, <3>2, CutTyped
    <3>5. down' \in Seq({"headers", "500", "data", "trailers", "fin", "cut"})
      BY <3>1, <3>3, CutTyped
    <3> QED BY <3>4, <3>5
  <2> QED BY <1>5, <2>1 DEF ConnectionLost, TypeOK, clientSide, serverSide, callSide
<1>6. CASE AllDone \/ UNCHANGED vars
  BY <1>6 DEF AllDone, vars, TypeOK, clientSide, serverSide, callSide, streams
<1> QED BY <1>1, <1>2, <1>3, <1>4, <1>5, <1>6 DEF ClientStep, PollFrame

(* Every step keeps the types. *)
LEMMA TypeStep == TypeOK /\ [Next]_vars => TypeOK'
BY RequestTypes, HandlerTypes, ClientTypes DEF Next

(* Every variable of the exchange stays within its type. *)
THEOREM ExchangeTypeCorrect == Spec => []TypeOK
BY InitTypeOK, TypeStep, PTL DEF Spec

-----------------------------------------------------------------------------
(* The request.  While the service reads data and nobody has aborted the   *)
(* forwarder, the frames read, those in the stream and the one in hand are *)
(* what the body has yielded.                                              *)
Serving == held /\ ~aborted /\ AllData(seen)

RequestShape ==
    /\ Story(request) /\ Story(seen)
    /\ forwarder \in {"data", "trailers"} => request # <<>> /\ Last(request) = forwarder
    /\ forwarder = "finish" => request # <<>> /\ Last(request) = "end"
    /\ upStopped => ~held

RequestOnItsWay ==
    Serving =>
       /\ Carries(up, Len(seen), request)
       /\ ~lost /\ forwarder = "polling" => Len(seen) + Len(up) = Len(request)
       /\ ~lost /\ forwarder \in {"data", "trailers", "finish"}
          => Len(seen) + Len(up) + 1 = Len(request)

RequestInv == TypeOK /\ RequestShape /\ RequestOnItsWay /\ (aborted \/ Delivered(seen, request))

(* The next frame of the body is where the stream goes on. *)
LEMMA NextFrame ==
    ASSUME NEW body, NEW f \in Frame, Story(body), ~Exhausted(body)
    PROVE  /\ Story(Append(body, f)) /\ Len(Append(body, f)) = Len(body) + 1
           /\ Append(body, f) # <<>> /\ Last(Append(body, f)) = f
           /\ Len(body) \in Nat
           /\ Len(body) + 1 \in DOMAIN Append(body, f) /\ Append(body, f)[Len(body) + 1] = f
<1>1. /\ Append(body, f) \in Seq(Frame) /\ Len(Append(body, f)) = Len(body) + 1
      /\ Append(body, f) # <<>> /\ Append(body, f)[Len(body) + 1] = f
      /\ DOMAIN Append(body, f) = 1 .. Len(body) + 1 /\ Len(body) \in Nat
  BY AppendProperties, LenProperties DEF Story
<1>2. Last(Append(body, f)) = f BY <1>1 DEF Last
<1> QED BY <1>1, <1>2, StoryGrows

(* The last frame of a story is the one of its length. *)
LEMMA LastFrame ==
    ASSUME NEW body, Story(body), body # <<>>
    PROVE  Len(body) \in DOMAIN body /\ Len(body) \in Nat /\ Last(body) = body[Len(body)]
BY LenProperties, EmptySeq DEF Story, Last

(* Nothing of the request is on its way yet. *)
LEMMA InitRequest == Init => RequestInv
<1> SUFFICES ASSUME Init PROVE RequestInv OBVIOUS
<1>1. /\ request = <<>> /\ seen = <<>> /\ up = <<>> /\ forwarder = "polling" /\ ~upStopped
      /\ <<>> \in Seq(Frame) /\ Len(<<>>) = 0 /\ \A i \in DOMAIN <<>> : FALSE
  BY DEF Init
<1>2. RequestShape BY <1>1 DEF RequestShape, Story
<1>3. RequestOnItsWay BY <1>1 DEF RequestOnItsWay, Carries
<1>4. Delivered(seen, request) BY <1>1 DEF Delivered
<1> QED BY <1>2, <1>3, <1>4, InitTypeOK DEF RequestInv

(* The forwarder takes a frame of the request body. *)
LEMMA RequestPolled == ASSUME RequestInv, TypeOK', ForwardPoll PROVE RequestInv'
<1>0. PICK f \in Yields(request) :
        /\ request' = Append(request, f)
        /\ forwarder' = CASE f = "end" -> "finish" [] f = "error" -> "ended" [] OTHER -> f
        /\ up' = (IF f = "error" THEN Finished(up) ELSE up)
  BY DEF ForwardPoll
<1>a. request' = Append(request, f) /\ up' = (IF f = "error" THEN Finished(up) ELSE up)
  BY <1>0
<1>1. /\ UNCHANGED <<aborted, upStopped, held, seen, lost>> /\ forwarder = "polling"
  BY DEF ForwardPoll, serverSide
<1>2. f \in Frame /\ ~Exhausted(request) BY DEF Yields, Frame, Endings
<1>3. \/ f \in {"data", "trailers"} /\ forwarder' = f
      \/ f = "end" /\ forwarder' = "finish"
      \/ f = "error" /\ forwarder' = "ended"
  <2>1. CASE f = "end" BY <1>0, <2>1
  <2>2. CASE f = "error" BY <1>0, <2>2
  <2>3. CASE f \in {"data", "trailers"} BY <1>0, <2>3
  <2> QED BY <1>2, <2>1, <2>2, <2>3 DEF Frame, Endings
<1>4. Story(request) /\ Story(seen) BY DEF RequestInv, RequestShape
<1>5. /\ Story(request') /\ request' # <<>> /\ Last(request') = f
      /\ Len(request') = Len(request) + 1 /\ Len(request) \in Nat
      /\ Len(request') \in DOMAIN request' /\ request'[Len(request')] = f
  BY <1>a, <1>2, <1>4, NextFrame
<1>6. RequestShape' BY <1>1, <1>3, <1>4, <1>5 DEF RequestShape, RequestInv
<1>7. aborted' \/ Delivered(seen', request')
  BY <1>1, <1>2, <1>4, <1>a, DeliveredGrows DEF RequestInv, Story
<1>8. RequestOnItsWay'
  <2> SUFFICES ASSUME Serving' PROVE RequestOnItsWay' BY DEF RequestOnItsWay
  <2> DEFINE n == Len(seen)
             body == request'
  <2>1. /\ Carries(up, n, request)
        /\ ~lost => n + Len(up) = Len(request)
    BY <1>1 DEF RequestInv, RequestOnItsWay, Serving, AllData
  <2>2. Carries(up, n, body) BY <1>2, <1>4, <1>a, <2>1, CarriesGrows DEF Story
  <2>3. /\ n \in Nat /\ Len(up) \in Nat /\ up \in Seq(Wire)
    <3>1. up \in Seq({"data", "trailers", "fin", "cut"}) BY DEF RequestInv, TypeOK
    <3> QED BY <1>4, <3>1, LenProperties, SeqMonotonic DEF Story, Wire
  <2>4. CASE f # "error" \/ lost
    BY <1>1, <1>3, <1>5, <1>a, <2>1, <2>2, <2>3, <2>4 DEF RequestOnItsWay, Finished
  <2>5. CASE f = "error" /\ ~lost
    <3>1. up' = Append(up, "fin") /\ forwarder' = "ended" /\ n + Len(up) + 1 = Len(body)
      BY <1>3, <1>5, <1>a, <2>1, <2>5 DEF Finished
    <3>2. Fits("fin", n + Len(up) + 1, body) /\ "fin" \in Wire
      BY <1>5, <2>5, <3>1 DEF Fits, Wire
    <3> HIDE DEF n, body
    <3>3. Carries(up', n, body) BY <2>2, <2>3, <3>1, <3>2, CarriesAppend
    <3> QED BY <1>1, <3>1, <3>3 DEF RequestOnItsWay, n, body
  <2> QED BY <2>4, <2>5
<1> QED BY <1>6, <1>7, <1>8 DEF RequestInv

(* The forwarder writes the frame it has in hand. *)
LEMMA RequestWritten == ASSUME RequestInv, TypeOK', ForwardWritten PROVE RequestInv'
<1>1. /\ UNCHANGED <<request, aborted, upStopped, held, seen, lost>> /\ ~lost
      /\ up' = Written(up, forwarder)
      /\ forwarder' = (IF forwarder = "data" THEN "polling" ELSE "ended")
      /\ forwarder \in {"data", "trailers", "finish"}
  BY DEF ForwardWritten, serverSide, Writing, RequestInv, TypeOK
<1>2. RequestShape' BY <1>1 DEF RequestShape, RequestInv
<1>3. aborted' \/ Delivered(seen', request') BY <1>1 DEF RequestInv
<1>4. RequestOnItsWay'
  <2> SUFFICES ASSUME Serving' PROVE RequestOnItsWay' BY DEF RequestOnItsWay
  <2> DEFINE n == Len(seen)
  <2>1. /\ Carries(up, n, request) /\ n + Len(up) + 1 = Len(request)
    BY <1>1 DEF RequestInv, RequestOnItsWay, Serving, AllData
  <2>2. /\ n \in Nat /\ Len(up) \in Nat /\ up \in Seq(Wire)
    <3>1. up \in Seq({"data", "trailers", "fin", "cut"}) BY DEF RequestInv, TypeOK
    <3> QED BY <3>1, LenProperties, SeqMonotonic DEF RequestInv, RequestShape, Story, Wire
  <2>3. /\ Len(request) \in DOMAIN request /\ request[Len(request)] = Last(request)
        /\ Last(request) = IF forwarder = "finish" THEN "end" ELSE forwarder
    BY <1>1, LastFrame DEF RequestInv, RequestShape
  <2> HIDE DEF n
  <2>4. CASE forwarder = "data"
    <3>1. up' = Append(up, "data") BY <1>1, <2>4, WrittenFrame
    <3>2. Fits("data", n + Len(up) + 1, request) /\ "data" \in Wire
      BY <2>1, <2>3, <2>4 DEF Fits, Wire
    <3>3. Carries(up', n, request) BY <2>1, <2>2, <3>1, <3>2, CarriesAppend
    <3>4. Len(up') = Len(up) + 1 BY <2>2, <3>1
    <3> QED BY <1>1, <2>1, <2>2, <2>4, <3>3, <3>4 DEF RequestOnItsWay, n
  <2>5. CASE forwarder = "finish"
    <3>1. up' = Append(up, "fin") BY <1>1, <2>5, WrittenFrame
    <3>2. Fits("fin", n + Len(up) + 1, request) /\ "fin" \in Wire
      BY <2>1, <2>3, <2>5 DEF Fits, Wire
    <3>3. Carries(up', n, request) BY <2>1, <2>2, <3>1, <3>2, CarriesAppend
    <3> QED BY <1>1, <2>5, <3>3 DEF RequestOnItsWay, n
  <2>6. CASE forwarder = "trailers"
    <3> DEFINE a == Append(up, "trailers")
    <3>1. up' = Append(a, "fin")
      BY <1>1, <2>2, <2>6, WrittenFrame, TwoFrames DEF Wire
    <3>2. Fits("trailers", n + Len(up) + 1, request) /\ "trailers" \in Wire /\ "fin" \in Wire
      BY <2>1, <2>3, <2>6 DEF Fits, Wire
    <3>3. /\ Carries(a, n, request) /\ a \in Seq(Wire)
          /\ Len(a) = Len(up) + 1
      BY <2>1, <2>2, <3>2, CarriesAppend, AppendProperties
    <3> HIDE DEF a
    <3>4. Fits("fin", n + Len(a) + 1, request)
      <4> DEFINE k == n + Len(a) + 1
      <4>1. k - 1 = Len(request) BY <2>1, <2>2, <3>3
      <4> HIDE DEF k
      <4>2. Fits("fin", k, request) BY <2>3, <2>6, <4>1 DEF Fits
      <4> QED BY <4>2 DEF k
    <3>5. Carries(Append(a, "fin"), n, request)
      <4>1. n \in Int BY <2>2
      <4> HIDE DEF n
      <4> QED BY <3>2, <3>3, <3>4, <4>1, CarriesAppend
    <3>6. Carries(up', n, request) BY <3>1, <3>5
    <3> QED BY <1>1, <2>6, <3>6 DEF RequestOnItsWay, n
  <2> QED BY <1>1, <2>4, <2>5, <2>6
<1> QED BY <1>2, <1>3, <1>4 DEF RequestInv

(* The forwarder ends with a failure or because it is aborted: in either   *)
(* case nobody reads on, or the connection is lost.                        *)
LEMMA RequestEnds == ASSUME RequestInv, TypeOK', ForwardFails \/ ForwardCancelled PROVE RequestInv'
<1>1. /\ UNCHANGED <<request, aborted, upStopped, held, seen, lost>> /\ forwarder' = "ended"
      /\ aborted \/ ((upStopped \/ lost) /\ up' = Finished(up))
  BY DEF ForwardFails, ForwardCancelled, serverSide
<1>2. RequestShape' BY <1>1 DEF RequestShape, RequestInv
<1>3. aborted' \/ Delivered(seen', request') BY <1>1 DEF RequestInv
<1>4. RequestOnItsWay'
  <2> SUFFICES ASSUME Serving' PROVE RequestOnItsWay' BY DEF RequestOnItsWay
  <2>1. Serving /\ lost /\ up' = up
    BY <1>1 DEF Serving, AllData, RequestInv, RequestShape, Finished
  <2> QED BY <1>1, <2>1 DEF RequestOnItsWay, RequestInv
<1> QED BY <1>2, <1>3, <1>4 DEF RequestInv

(* The service reads a frame of the request. *)
LEMMA RequestRead == ASSUME RequestInv, TypeOK', ServiceReads PROVE RequestInv'
<1> DEFINE f == Received(up)
           n == Len(seen)
<1>1. /\ UNCHANGED <<request, forwarder, aborted, upStopped, held, lost>> /\ held
      /\ seen' = Append(seen, f) /\ up' = Rest(up) /\ up # <<>> /\ ~Exhausted(seen)
  BY DEF ServiceReads, clientSide
<1>2. Story(request) /\ Story(seen) /\ f \in Frame
  BY ReadResults DEF RequestInv, RequestShape, Frame
<1>3. /\ n \in Nat /\ Len(up) \in Nat /\ up \in Seq(Wire)
  <2>1. up \in Seq({"data", "trailers", "fin", "cut"}) BY DEF RequestInv, TypeOK
  <2> QED BY <1>2, <2>1, LenProperties, SeqMonotonic DEF Story, Wire
<1>4. AllData(seen) => (n > 0 => n \in DOMAIN request /\ request[n] = "data") \/ aborted
  BY <1>2, InStep DEF RequestInv, Story
<1>5. Story(seen') /\ Len(seen') = n + 1 BY <1>1, <1>2, NextFrame
<1>6. RequestShape' BY <1>1, <1>5 DEF RequestShape, RequestInv
<1>7. aborted' \/ Delivered(seen', request')
  <2> SUFFICES ASSUME ~aborted PROVE Delivered(Append(seen, f), request) BY <1>1
  <2>1. ASSUME AllData(seen), f \in {"data", "end", "trailers"}
        PROVE  n + 1 \in DOMAIN request /\ Tells(f, request[n + 1])
    <3>1. Carries(up, n, request) BY <1>1, <2>1 DEF RequestInv, RequestOnItsWay, Serving
    <3>2. request \in Seq(Frame) BY <1>2 DEF Story
    <3>3. f # "error" BY <2>1
    <3> QED BY <1>1, <1>3, <1>4, <2>1, <3>1, <3>2, <3>3, ReadsNext
  <2> HIDE DEF f, n
  <2>2. Delivered(seen, request) /\ seen \in Seq(Frame) BY <1>2 DEF RequestInv, Story
  <2> QED BY <1>2, <2>1, <2>2, DeliveredOne DEF n
<1>8. RequestOnItsWay'
  <2> SUFFICES ASSUME Serving' PROVE RequestOnItsWay' BY DEF RequestOnItsWay
  <2>1. AllData(seen) /\ f = "data"
    <3> HIDE DEF f
    <3>1. /\ DOMAIN seen = 1 .. n /\ DOMAIN seen' = 1 .. n + 1 /\ seen'[n + 1] = f
          /\ \A i \in 1 .. n : seen'[i] = seen[i]
      BY <1>1, <1>2, <1>3, AppendProperties, LenProperties DEF Story
    <3>2. \A i \in DOMAIN seen' : seen'[i] = "data" BY DEF Serving, AllData
    <3> QED BY <1>3, <3>1, <3>2 DEF AllData
  <2>2. Serving BY <1>1, <2>1 DEF Serving
  <2>3. up' = Tail(up) /\ Len(up') = Len(up) - 1
    BY <1>1, <1>3, <2>1, HeadTailProperties DEF Rest
  <2>4. Carries(up', n + 1, request)
    <3>1. Carries(up, n, request) BY <2>2 DEF RequestInv, RequestOnItsWay
    <3>2. up # <<>> /\ up \in Seq(Wire) /\ n \in Int /\ up' = Tail(up) BY <1>1, <1>3, <2>3
    <3> HIDE DEF n, f
    <3>3. Carries(Tail(up), n + 1, request) BY <3>1, <3>2, CarriesTail
    <3> QED BY <3>2, <3>3
  <2> HIDE DEF n, f
  <2>5. Len(seen') + Len(up') = n + Len(up)
    <3>1. Len(seen') = n + 1 /\ Len(up') = Len(up) - 1 BY <1>5, <2>3
    <3> QED BY <1>3, <3>1
  <2> QED BY <1>1, <1>5, <2>2, <2>4, <2>5 DEF RequestInv, RequestOnItsWay, n
<1> QED BY <1>6, <1>7, <1>8 DEF RequestInv

(* The connection is lost: what is left of the stream still fits. *)
LEMMA RequestCut == ASSUME RequestInv, TypeOK', ConnectionLost PROVE RequestInv'
<1>1. /\ UNCHANGED <<request, forwarder, aborted, upStopped, held, seen>> /\ lost'
      /\ \E i \in 0 .. Len(up) : up' = Append(SubSeq(up, 1, i), "cut")
  BY DEF ConnectionLost, clientSide, serverSide
<1>2. RequestShape' BY <1>1 DEF RequestShape, RequestInv
<1>3. aborted' \/ Delivered(seen', request') BY <1>1 DEF RequestInv
<1>4. RequestOnItsWay'
  <2> SUFFICES ASSUME Serving' PROVE RequestOnItsWay' BY DEF RequestOnItsWay
  <2>1. Carries(up, Len(seen), request)
    BY <1>1 DEF RequestInv, RequestOnItsWay, Serving, AllData
  <2>2. Len(seen) \in Int /\ up \in Seq(Wire)
    <3>1. up \in Seq({"data", "trailers", "fin", "cut"}) BY DEF RequestInv, TypeOK
    <3> QED BY <3>1, LenProperties, SeqMonotonic DEF RequestInv, RequestShape, Story, Wire
  <2>3. Carries(up', Len(seen), request) BY <1>1, <2>1, <2>2, CarriesCut
  <2> QED BY <1>1, <2>3 DEF RequestOnItsWay
<1> QED BY <1>2, <1>3, <1>4 DEF RequestInv

(* The other steps leave the request alone, or abort it or let go of it. *)
LEMMA RequestOthers ==
    ASSUME RequestInv, TypeOK', UNCHANGED <<request, forwarder, seen, up, lost>>,
           aborted => aborted', held' => held, upStopped' => upStopped \/ ~held'
    PROVE  RequestInv'
<1>1. RequestShape' BY DEF RequestShape, RequestInv
<1>2. aborted' \/ Delivered(seen', request') BY DEF RequestInv
<1>3. Serving' => Serving BY DEF Serving, AllData
<1>4. RequestOnItsWay' BY <1>3 DEF RequestInv, RequestOnItsWay
<1> QED BY <1>1, <1>2, <1>4 DEF RequestInv

(* Every step keeps the invariant of the request. *)
LEMMA RequestStep == RequestInv /\ [Next]_vars => RequestInv'
<1> SUFFICES ASSUME RequestInv, [Next]_vars PROVE RequestInv' OBVIOUS
<1>1. TypeOK' BY TypeStep DEF RequestInv
<1>2. CASE ForwardPoll BY <1>1, <1>2, RequestPolled
<1>3. CASE ForwarderStep
  BY <1>1, <1>3, RequestWritten, RequestEnds DEF ForwarderStep
<1>4. CASE ServiceReads BY <1>1, <1>4, RequestRead
<1>5. CASE ConnectionLost BY <1>1, <1>5, RequestCut
<1>6. CASE ServiceDropsBody
  BY <1>1, <1>6, RequestOthers DEF ServiceDropsBody, clientSide
<1>7. CASE HandlerStep
  BY <1>1, <1>7, RequestOthers
     DEF HandlerStep, Respond, HandlerPoll, HandlerWritten, HandlerFails, clientSide, streams
<1>8. CASE ClientStep \/ CallDropped \/ BodyDropped
  BY <1>1, <1>8, RequestOthers
     DEF ClientStep, Headers, NoHeaders, PollFrame, PollClosed, PollDeadline, PollForwardError,
         PollStream, CallDropped, BodyDropped, clientSide, serverSide, streams
<1>9. CASE DeadlinePasses \/ AllDone \/ UNCHANGED vars
  BY <1>1, <1>9, RequestOthers
     DEF DeadlinePasses, AllDone, vars, clientSide, serverSide, streams
<1> QED BY <1>2, <1>3, <1>4, <1>5, <1>6, <1>7, <1>8, <1>9 DEF Next

(* A story that reaches a clean ending has been told to its end. *)
LEMMA DeliveredWhole ==
    ASSUME NEW body, Story(body), NEW F, NEW reader \in Seq(F), Delivered(reader, body),
           \A i, j \in DOMAIN reader : i < j /\ reader[j] = "data" => reader[i] = "data"
    PROVE  \A s \in CleanEndings(reader) : Whole(s, body)
<1>1. /\ DOMAIN reader = 1 .. Len(reader) /\ Len(reader) \in Nat
      /\ \A k \in 1 .. Len(reader) : reader[k] \in F
      /\ DOMAIN body = 1 .. Len(body) /\ Len(body) \in Nat
  BY LenProperties, ElementOfSeq DEF Story
<1> SUFFICES ASSUME NEW j \in DOMAIN reader, reader[j] \in {"end", "trailers"},
                    j = 1 \/ reader[j - 1] = "data"
             PROVE  Whole(SubSeq(reader, 1, j), body)
  BY DEF CleanEndings
<1> DEFINE s == SubSeq(reader, 1, j)
<1>2. \A i \in DOMAIN reader : i < j => reader[i] = "data"
  <2> SUFFICES ASSUME NEW i \in DOMAIN reader, i < j PROVE reader[i] = "data" OBVIOUS
  <2>1. j - 1 \in DOMAIN reader /\ reader[j - 1] = "data" /\ (i = j - 1 \/ i < j - 1)
    BY <1>1
  <2> QED BY <2>1
<1>3. j \in DOMAIN body /\ Tells(reader[j], body[j]) BY <1>2 DEF Delivered
<1>4. body[j] # "data" BY <1>3 DEF Tells
<1>5. j = Len(body) BY <1>1, <1>3, <1>4 DEF Story
<1>6. /\ s \in Seq(F) /\ Len(s) = j /\ \A i \in 1 .. j : s[i] = reader[i]
  <2>1. \A k \in 1 .. j : reader[k] \in F BY <1>1
  <2> QED BY <1>1, <2>1, SubSeqProperties
<1>7. body # <<>> /\ Last(s) = reader[j] /\ Last(body) = body[j]
  BY <1>1, <1>5, <1>6, EmptySeq DEF Last
<1> HIDE DEF s
<1>8. \A i \in 1 .. j - 1 : s[i] = "data" /\ body[i] = "data"
  <2> SUFFICES ASSUME NEW i \in 1 .. j - 1 PROVE s[i] = "data" /\ body[i] = "data" OBVIOUS
  <2>1. i \in 1 .. j /\ i \in DOMAIN reader /\ i < j /\ i \in DOMAIN body /\ i < Len(body)
    BY <1>1, <1>5
  <2>2. s[i] = "data" BY <1>2, <1>6, <2>1
  <2>3. body[i] = "data" BY <2>1 DEF Story
  <2> QED BY <2>2, <2>3
<1>9. Front(s) = Front(body)
  <2>1. Front(s) = SubSeq(s, 1, j - 1) /\ Front(body) = SubSeq(body, 1, j - 1)
    BY <1>5, <1>6 DEF Front
  <2>2. j - 1 \in Int BY <1>1
  <2> DEFINE D == {"data"}
  <2>3. /\ SubSeq(s, 1, j - 1) \in Seq(D)
        /\ Len(SubSeq(s, 1, j - 1)) = IF 1 <= j - 1 THEN j - 1 ELSE 0
        /\ \A i \in 1 .. j - 1 : SubSeq(s, 1, j - 1)[i] = "data"
    BY <1>8, <2>2, SubSeqProperties
  <2>4. /\ SubSeq(body, 1, j - 1) \in Seq(D)
        /\ Len(SubSeq(body, 1, j - 1)) = IF 1 <= j - 1 THEN j - 1 ELSE 0
        /\ \A i \in 1 .. j - 1 : SubSeq(body, 1, j - 1)[i] = "data"
    BY <1>8, <2>2, SubSeqProperties
  <2> HIDE DEF D
  <2>5. \A i \in 1 .. Len(SubSeq(s, 1, j - 1)) : SubSeq(s, 1, j - 1)[i] = SubSeq(body, 1, j - 1)[i]
    BY <2>2, <2>3, <2>4
  <2>6. SubSeq(s, 1, j - 1) = SubSeq(body, 1, j - 1)
    BY <2>3, <2>4, <2>5, SeqEqual
  <2> QED BY <2>1, <2>6
<1> QED BY <1>3, <1>7, <1>9 DEF Whole, Tells, s

(* A request that ends for the service without an error is the user's,     *)
(* unless the client has aborted the forwarder.                            *)
THEOREM RequestWholeCorrect == Spec => []RequestWhole
<1>1. ASSUME RequestInv PROVE RequestWhole
  <2> SUFFICES ASSUME ~aborted PROVE \A s \in CleanEndings(seen) : Whole(s, request)
    BY DEF RequestWhole
  <2>1. Story(request) /\ Story(seen) /\ Delivered(seen, request)
    BY <1>1 DEF RequestInv, RequestShape
  <2>2. \A i, j \in DOMAIN seen : i < j /\ seen[j] = "data" => seen[i] = "data"
    BY <2>1, LenProperties DEF Story
  <2> QED BY <2>1, <2>2, DeliveredWhole DEF Story
<1> QED BY InitRequest, RequestStep, <1>1, PTL DEF Spec

-----------------------------------------------------------------------------
(* The response.  While the client has had nothing but data, the frames it *)
(* has read, those in the stream and the one in hand are what the service  *)
(* has answered; the head of the response counts as frame 0.               *)
Listening == client # "ended" /\ AllData(got)
Heard == IF client = "awaiting" THEN 0 - 1 ELSE Len(got)

ResponseShape ==
    /\ Story(response)
    /\ handler \in {"calling", "headers"} => response = <<>>
    /\ handler = "500" => response = <<"error">>
    /\ handler \in {"data", "trailers"} => response # <<>> /\ Last(response) = handler
    /\ downStopped => client = "ended"

ResponseOnItsWay ==
    Listening =>
       /\ Carries(down, Heard, response)
       /\ ~lost /\ handler \in {"calling", "headers", "500"} => Heard + Len(down) + 1 = 0
       /\ ~lost /\ handler = "polling" => Heard + Len(down) = Len(response)
       /\ ~lost /\ handler \in {"data", "trailers"} => Heard + Len(down) + 1 = Len(response)

(* Data comes first, the end and an error last, and the flags of           *)
(* ClientRecvBody say so of the frames they stand for.                     *)
GotShape ==
    /\ \A i \in DOMAIN got : i < Len(got) => got[i] \notin {"end", "error"}
    /\ \A i, j \in DOMAIN got : i < j /\ got[j] = "data" => got[i] = "data"
    /\ isClosed => got # <<>> /\ Last(got) \in {"end", "status4"}
    /\ trailersDone => got # <<>> /\ Last(got) # "data"

ResponseInv ==
    /\ TypeOK /\ StatusInv
    /\ ResponseShape /\ ResponseOnItsWay
    /\ GotShape /\ Delivered(got, response)

(* Nothing of the response is on its way yet. *)
LEMMA InitResponse == Init => ResponseInv
<1> SUFFICES ASSUME Init PROVE ResponseInv OBVIOUS
<1>1. /\ response = <<>> /\ got = <<>> /\ down = <<>> /\ handler = "calling" /\ ~downStopped
      /\ client = "awaiting" /\ ~isClosed /\ ~trailersDone
      /\ <<>> \in Seq(Frame) /\ Len(<<>>) = 0 /\ \A i \in DOMAIN <<>> : FALSE
  BY DEF Init
<1>2. ResponseShape BY <1>1 DEF ResponseShape, Story
<1>3. ResponseOnItsWay BY <1>1 DEF ResponseOnItsWay, Carries, Heard
<1>4. GotShape BY <1>1 DEF GotShape
<1>5. Delivered(got, response) BY <1>1 DEF Delivered
<1> QED BY <1>2, <1>3, <1>4, <1>5, InitTypeOK, InitStatus DEF ResponseInv

(* How far the client has read, and the stream, in numbers. *)
LEMMA ResponseNumbers ==
    ASSUME ResponseInv
    PROVE  /\ Heard \in Int /\ Len(down) \in Nat /\ Len(response) \in Nat
           /\ down \in Seq(Wire) /\ response \in Seq(Frame)
           /\ got \in Seq({"data", "status4"} \cup Endings) /\ Len(got) \in Nat
BY LenProperties DEF ResponseInv, TypeOK, ResponseShape, Story, Heard, Wire, Frame

(* What a step of the handler leaves alone. *)
LEMMA ClientKept ==
    ASSUME ResponseInv, UNCHANGED <<callSide, downStopped, lost>>
    PROVE  /\ GotShape' /\ (Listening' <=> Listening) /\ Heard' = Heard
BY DEF ResponseInv, callSide, GotShape, Listening, AllData, Heard

(* The service answers, or a 500 takes its place. *)
LEMMA Responded == ASSUME ResponseInv, TypeOK', StatusInv', Respond PROVE ResponseInv'
<1>1. /\ UNCHANGED <<callSide, down, downStopped, lost>> /\ handler = "calling"
      /\ \/ handler' = "headers" /\ response' = response
         \/ handler' = "500" /\ response' = <<"error">>
  BY DEF Respond, streams
<1>2. response = <<>> /\ <<"error">> = Append(response, "error") /\ ~Exhausted(response)
  BY <1>1 DEF ResponseInv, ResponseShape, Exhausted
<1>3. "error" \in Frame /\ Story(response) /\ response \in Seq(Frame)
  BY DEF ResponseInv, ResponseShape, Story, Frame, Endings
<1>4. Story(response') BY <1>1, <1>2, <1>3, NextFrame
<1>5. ResponseShape' BY <1>1, <1>2, <1>4 DEF ResponseInv, ResponseShape, callSide
<1>6. Delivered(got', response')
  <2>1. Delivered(got, response) /\ got' = got BY <1>1 DEF ResponseInv, callSide
  <2> QED BY <1>1, <1>2, <1>3, <2>1, DeliveredGrows
<1>7. ResponseOnItsWay'
  <2> SUFFICES ASSUME Listening PROVE ResponseOnItsWay' BY <1>1, ClientKept DEF ResponseOnItsWay
  <2>1. Carries(down, Heard, response) /\ (~lost => Heard + Len(down) + 1 = 0)
    BY <1>1 DEF ResponseInv, ResponseOnItsWay
  <2> DEFINE h == Heard
  <2>2. Heard' = h BY <1>1, ClientKept
  <2> HIDE DEF h
  <2>3. Carries(down, h, response') BY <1>1, <1>2, <1>3, <2>1, CarriesGrows DEF h
  <2> QED BY <1>1, <2>1, <2>2, <2>3 DEF ResponseOnItsWay, h
<1> QED BY <1>1, <1>5, <1>6, <1>7, ClientKept DEF ResponseInv

(* The handler takes a frame of the response body. *)
LEMMA ResponsePolled == ASSUME ResponseInv, TypeOK', StatusInv', HandlerPoll PROVE ResponseInv'
<1>1. PICK f \in Yields(response) :
        /\ response' = Append(response, f)
        /\ handler' = (IF f \in {"data", "trailers"} THEN f ELSE "ended")
        /\ down' = (IF f \in {"data", "trailers"} THEN down ELSE Finished(down))
  BY DEF HandlerPoll
<1>2. UNCHANGED <<callSide, downStopped, lost>> /\ handler = "polling" BY DEF HandlerPoll
<1>3. f \in Frame /\ f \in {"data", "trailers", "end", "error"} /\ ~Exhausted(response)
  BY DEF Yields, Frame, Endings
<1>4. Story(response) /\ response \in Seq(Frame) BY DEF ResponseInv, ResponseShape, Story
<1> DEFINE body == response'
           h == Heard
<1>5. /\ Story(body) /\ body # <<>> /\ Last(body) = f
      /\ Len(body) = Len(response) + 1 /\ Len(response) \in Nat
      /\ Len(body) \in DOMAIN body /\ body[Len(body)] = f
  BY <1>1, <1>3, <1>4, NextFrame
<1>6. ResponseShape' BY <1>1, <1>2, <1>3, <1>5 DEF ResponseInv, ResponseShape, callSide
<1>7. Delivered(got', response')
  <2>1. Delivered(got, response) /\ got' = got BY <1>2 DEF ResponseInv, callSide
  <2> QED BY <1>1, <1>3, <1>4, <2>1, DeliveredGrows
<1>8. ResponseOnItsWay'
  <2> SUFFICES ASSUME Listening PROVE ResponseOnItsWay' BY <1>2, ClientKept DEF ResponseOnItsWay
  <2>1. /\ Carries(down, h, response)
        /\ ~lost => h + Len(down) = Len(response)
    BY <1>2 DEF ResponseInv, ResponseOnItsWay
  <2>2. Carries(down, h, body) BY <1>1, <1>3, <1>4, <2>1, CarriesGrows
  <2>3. h \in Int /\ Len(down) \in Nat /\ down \in Seq(Wire) BY ResponseNumbers
  <2>4. Heard' = h BY <1>2, ClientKept
  <2>5. CASE f \in {"data", "trailers"} \/ lost
    <3>1. down' = down /\ handler' \in {"data", "trailers", "ended"}
          /\ (~lost => handler' = f)
      BY <1>1, <1>3, <2>5 DEF Finished
    <3>2. ~lost => h + Len(down) + 1 = Len(body) BY <1>5, <2>1, <2>3
    <3> HIDE DEF h, body
    <3> QED BY <1>2, <2>2, <2>4, <3>1, <3>2 DEF ResponseOnItsWay, body
  <2>6. CASE f \in {"end", "error"} /\ ~lost
    <3>1. down' = Append(down, "fin") /\ handler' = "ended" /\ h + Len(down) + 1 = Len(body)
      BY <1>1, <1>5, <2>1, <2>3, <2>6 DEF Finished
    <3>2. Fits("fin", h + Len(down) + 1, body) /\ "fin" \in Wire
      BY <1>5, <2>6, <3>1 DEF Fits, Wire
    <3> HIDE DEF h, body
    <3>3. Carries(down', h, body) BY <2>2, <2>3, <3>1, <3>2, CarriesAppend
    <3> QED BY <2>4, <3>1, <3>3 DEF ResponseOnItsWay, body
  <2> QED BY <1>3, <2>5, <2>6
<1> QED BY <1>2, <1>6, <1>7, <1>8, ClientKept DEF ResponseInv

(* The handler writes what it has in hand. *)
LEMMA ResponseWritten == ASSUME ResponseInv, TypeOK', StatusInv', HandlerWritten PROVE ResponseInv'
<1>1. /\ UNCHANGED <<response, callSide, downStopped, lost>> /\ ~lost
      /\ down' = Written(down, handler)
      /\ handler' = (IF handler \in {"headers", "data"} THEN "polling" ELSE "ended")
      /\ handler \in {"headers", "500", "data", "trailers"}
  BY DEF HandlerWritten, Writing, ResponseInv, TypeOK
<1>2. ResponseShape' BY <1>1 DEF ResponseInv, ResponseShape, callSide
<1>3. Delivered(got', response') BY <1>1 DEF ResponseInv, callSide
<1>4. ResponseOnItsWay'
  <2> SUFFICES ASSUME Listening PROVE ResponseOnItsWay' BY <1>1, ClientKept DEF ResponseOnItsWay
  <2> DEFINE h == Heard
  <2>1. /\ Carries(down, h, response)
        /\ handler \in {"headers", "500"} => h + Len(down) + 1 = 0
        /\ handler \in {"data", "trailers"} => h + Len(down) + 1 = Len(response)
    BY <1>1 DEF ResponseInv, ResponseOnItsWay
  <2>2. /\ h \in Int /\ Len(down) \in Nat /\ Len(response) \in Nat /\ down \in Seq(Wire)
    BY ResponseNumbers
  <2>3. /\ handler = "headers" => response = <<>>
        /\ handler = "500" => response = <<"error">>
        /\ handler \in {"data", "trailers"}
           => Len(response) \in DOMAIN response /\ response[Len(response)] = handler
    BY <1>1, LastFrame DEF ResponseInv, ResponseShape
  <2>4. Heard' = h /\ {"headers", "500", "data", "trailers", "fin"} \subseteq Wire
    BY <1>1, ClientKept DEF Wire
  <2> HIDE DEF h
  <2>5. CASE handler \in {"headers", "data"}
    <3>1. down' = Append(down, handler) BY <1>1, <2>5, WrittenFrame
    <3>2. Fits(handler, h + Len(down) + 1, response) BY <2>1, <2>3, <2>5 DEF Fits
    <3>3. Carries(down', h, response) BY <2>1, <2>2, <2>4, <2>5, <3>1, <3>2, CarriesAppend
    <3>4. Len(down') = Len(down) + 1 BY <2>2, <3>1
    <3>5. h + Len(down') = Len(response)
      <4>1. CASE handler = "headers"
        <5>1. Len(response) = 0 BY <2>3, <4>1
        <5> QED BY <2>1, <2>2, <3>4, <4>1, <5>1
      <4>2. CASE handler = "data" BY <2>1, <2>2, <3>4, <4>2
      <4> QED BY <2>5, <4>1, <4>2
    <3> QED BY <1>1, <2>4, <2>5, <3>3, <3>5 DEF ResponseOnItsWay
  <2>6. CASE handler \in {"500", "trailers"}
    <3> DEFINE a == Append(down, handler)
    <3>1. down' = Append(a, "fin")
      <4>1. down' = down \o <<handler, "fin">> BY <1>1, <2>6, WrittenFrame
      <4>2. handler \in Wire /\ "fin" \in Wire BY <2>4, <2>6
      <4>3. down \o <<handler, "fin">> = Append(a, "fin") BY <2>2, <4>2, TwoFrames
      <4> QED BY <4>1, <4>3
    <3>2. Fits(handler, h + Len(down) + 1, response) BY <2>1, <2>3, <2>6 DEF Fits
    <3>3. /\ Carries(a, h, response) /\ a \in Seq(Wire) /\ Len(a) = Len(down) + 1
      BY <2>1, <2>2, <2>4, <2>6, <3>2, CarriesAppend, AppendProperties
    <3> HIDE DEF a
    <3> DEFINE k == h + Len(a) + 1
    <3>4. Fits("fin", k, response)
      <4>1. CASE handler = "500"
        <5>1. k = 1 BY <2>1, <2>2, <3>3, <4>1
        <5>2. 1 \in DOMAIN response /\ response[1] = "error" BY <2>3, <4>1
        <5> QED BY <5>1, <5>2 DEF Fits
      <4>2. CASE handler = "trailers"
        <5>1. k - 1 = Len(response) BY <2>1, <2>2, <3>3, <4>2
        <5> HIDE DEF k
        <5> QED BY <2>3, <4>2, <5>1 DEF Fits
      <4> QED BY <2>6, <4>1, <4>2
    <3>5. Carries(down', h, response) BY <2>2, <2>4, <3>1, <3>3, <3>4, CarriesAppend
    <3> QED BY <1>1, <2>4, <2>6, <3>5 DEF ResponseOnItsWay
  <2> QED BY <1>1, <2>5, <2>6
<1> QED BY <1>1, <1>2, <1>3, <1>4, ClientKept DEF ResponseInv

(* It fails: the client is gone, or the connection is lost. *)
LEMMA ResponseFails == ASSUME ResponseInv, TypeOK', StatusInv', HandlerFails PROVE ResponseInv'
<1>1. /\ UNCHANGED <<response, callSide, downStopped, lost>>
      /\ downStopped \/ lost
      /\ handler' = "ended" /\ down' = Finished(down)
  BY DEF HandlerFails
<1>2. ResponseShape' BY <1>1 DEF ResponseInv, ResponseShape, callSide
<1>3. Delivered(got', response') BY <1>1 DEF ResponseInv, callSide
<1>4. ResponseOnItsWay'
  <2> SUFFICES ASSUME Listening PROVE ResponseOnItsWay' BY <1>1, ClientKept DEF ResponseOnItsWay
  <2>1. lost /\ down' = down
    BY <1>1 DEF ResponseInv, ResponseShape, Listening, Finished
  <2> QED BY <1>1, <2>1, ClientKept DEF ResponseInv, ResponseOnItsWay
<1> QED BY <1>1, <1>2, <1>3, <1>4, ClientKept DEF ResponseInv

(* The connection is lost: what is left of the stream still fits. *)
LEMMA ResponseCut == ASSUME ResponseInv, TypeOK', StatusInv', ConnectionLost PROVE ResponseInv'
<1>1. /\ UNCHANGED <<response, handler, callSide, downStopped>> /\ lost'
      /\ \E i \in 0 .. Len(down) : down' = Append(SubSeq(down, 1, i), "cut")
  BY DEF ConnectionLost, serverSide
<1>2. ResponseShape' BY <1>1 DEF ResponseInv, ResponseShape, callSide
<1>3. Delivered(got', response') BY <1>1 DEF ResponseInv, callSide
<1>4. GotShape' /\ (Listening' <=> Listening) /\ Heard' = Heard
  BY <1>1 DEF ResponseInv, callSide, GotShape, Listening, AllData, Heard
<1>5. ResponseOnItsWay'
  <2> SUFFICES ASSUME Listening PROVE ResponseOnItsWay' BY <1>4 DEF ResponseOnItsWay
  <2>1. Carries(down, Heard, response) BY DEF ResponseInv, ResponseOnItsWay
  <2>2. Carries(down', Heard, response) BY <1>1, <2>1, ResponseNumbers, CarriesCut
  <2> QED BY <1>1, <1>4, <2>2 DEF ResponseOnItsWay
<1> QED BY <1>2, <1>3, <1>4, <1>5 DEF ResponseInv

(* The user goes, and what the client has been told stays. *)
LEMMA ResponseDropped ==
    ASSUME ResponseInv, TypeOK', StatusInv', CallDropped \/ BodyDropped
    PROVE  ResponseInv'
<1>1. /\ UNCHANGED <<response, handler, got, isClosed, trailersDone>> /\ client' = "ended"
  BY DEF CallDropped, BodyDropped, serverSide
<1>2. ResponseShape' /\ GotShape' /\ Delivered(got', response')
  BY <1>1 DEF ResponseInv, ResponseShape, GotShape
<1>3. ResponseOnItsWay' BY <1>1 DEF ResponseOnItsWay, Listening
<1> QED BY <1>2, <1>3 DEF ResponseInv

(* The headers are read, and the body of the response is next. *)
LEMMA HeadersRead == ASSUME ResponseInv, TypeOK', StatusInv', Headers PROVE ResponseInv'
<1>1. /\ UNCHANGED <<response, handler, downStopped, got, isClosed, trailersDone, lost>>
      /\ client = "awaiting" /\ client' = "body" /\ down # <<>> /\ down' = Tail(down)
  BY DEF Headers, serverSide
<1>2. got = <<>> /\ Len(got) = 0 BY <1>1 DEF ResponseInv, StatusInv, Told
<1>3. ResponseShape' /\ GotShape' /\ Delivered(got', response')
  BY <1>1 DEF ResponseInv, ResponseShape, GotShape
<1>4. ResponseOnItsWay'
  <2>1. Listening /\ Heard + 1 = 0 /\ Heard' = 0
    BY <1>1, <1>2 DEF Listening, AllData, Heard
  <2>2. Carries(down, Heard, response) BY <2>1 DEF ResponseInv, ResponseOnItsWay
  <2>3. Carries(down', 0, response)
    <3> DEFINE h == Heard
    <3>1. h \in Int /\ h + 1 = 0 /\ down \in Seq(Wire) BY <2>1, ResponseNumbers
    <3> HIDE DEF h
    <3>2. Carries(Tail(down), h + 1, response) BY <1>1, <2>2, <3>1, CarriesTail DEF h
    <3> QED BY <1>1, <3>1, <3>2
  <2>4. Len(down') = Len(down) - 1
    BY <1>1, ResponseNumbers, HeadTailProperties
  <2>5. /\ Heard + Len(down) + 1 = Heard' + Len(down') + 1
        /\ Heard + Len(down) = Heard' + Len(down')
    <3>1. Heard \in Int /\ Len(down) \in Int BY ResponseNumbers
    <3>2. Heard + 1 = 0 /\ Heard' = 0 BY <2>1
    <3> QED BY <2>4, <3>1, <3>2
  <2> QED BY <1>1, <2>1, <2>3, <2>5 DEF ResponseInv, ResponseOnItsWay
<1> QED BY <1>3, <1>4 DEF ResponseInv

(* A client that is still being told has had only data, if no flag is set. *)
LEMMA PollingData ==
    ASSUME ResponseInv, Polling, ~isClosed, ~trailersDone
    PROVE  Listening /\ Heard = Len(got)
<1>1. client = "body" /\ ~(got # <<>> /\ Last(got) \in {"end", "error"}) BY DEF Polling
<1>2. AllData(got)
  <2> SUFFICES ASSUME NEW i \in DOMAIN got PROVE got[i] = "data" BY DEF AllData
  <2>1. /\ got \in Seq({"data", "status4"} \cup Endings) /\ i \in 1 .. Len(got) /\ Len(got) \in Nat
        /\ got # <<>>
    BY ResponseNumbers, LenProperties
  <2>2. got[i] \in {"data", "status4", "end", "trailers", "error"}
    BY <2>1, ElementOfSeq DEF Endings
  <2>3. got[i] # "status4" /\ got[i] # "trailers" BY DEF ResponseInv, StatusInv, Recorded
  <2>4. got[i] \notin {"end", "error"}
    <3>1. CASE i < Len(got) BY <3>1 DEF ResponseInv, GotShape
    <3>2. CASE i = Len(got) BY <1>1, <2>1, <3>2 DEF Last
    <3> QED BY <2>1, <3>1, <3>2
  <2> QED BY <2>2, <2>3, <2>4
<1> QED BY <1>1, <1>2 DEF Listening, Heard

(* The client is told an ending: there is nothing to come. *)
LEMMA EndingTold ==
    ASSUME ResponseInv, TypeOK', StatusInv', Polling,
           UNCHANGED <<response, handler, client, downStopped, lost>>,
           NEW f \in {"status4"} \cup Endings, got' = Append(got, f),
           isClosed' => f \in {"end", "status4"},
           AllData(got) /\ f \in {"end", "trailers"}
              => Len(got) + 1 \in DOMAIN response /\ Tells(f, response[Len(got) + 1])
    PROVE  ResponseInv'
<1> DEFINE F == {"data", "status4"} \cup Endings
<1>1. /\ got \in Seq(F) /\ Len(got) \in Nat /\ f \in F /\ f # "data"
      /\ DOMAIN got = 1 .. Len(got) /\ DOMAIN got' = 1 .. Len(got) + 1 /\ Len(got') = Len(got) + 1
      /\ got' # <<>> /\ got'[Len(got) + 1] = f /\ \A i \in 1 .. Len(got) : got'[i] = got[i]
  <2>1. got \in Seq(F) /\ Len(got) \in Nat BY ResponseNumbers
  <2>2. f \in F /\ f # "data" BY DEF Endings
  <2> HIDE DEF F
  <2> QED BY <2>1, <2>2, AppendProperties, LenProperties
<1>2. ResponseShape' BY DEF ResponseInv, ResponseShape
<1>3. ResponseOnItsWay' BY <1>1 DEF ResponseOnItsWay, Listening, AllData
<1>4. Delivered(got', response')
  <2> HIDE DEF F
  <2> QED BY <1>1, DeliveredOne DEF ResponseInv
<1>5. GotShape'
  <2>1. Last(got') = f BY <1>1 DEF Last
  <2>2. ~(got # <<>> /\ Last(got) \in {"end", "error"}) BY DEF Polling
  <2>3. \A i \in DOMAIN got' : i < Len(got') => got'[i] \notin {"end", "error"}
    <3> SUFFICES ASSUME NEW i \in 1 .. Len(got) PROVE got[i] \notin {"end", "error"} BY <1>1
    <3>1. CASE i < Len(got) BY <1>1, <3>1 DEF ResponseInv, GotShape
    <3>2. CASE i = Len(got)
      <4>1. got # <<>> /\ Last(got) = got[i] BY <1>1, <3>2, EmptySeq DEF Last
      <4> QED BY <2>2, <4>1
    <3>3. i < Len(got) \/ i = Len(got)
      <4>1. Len(got) \in Nat BY ResponseNumbers
      <4> QED BY <4>1
    <3> QED BY <3>1, <3>2, <3>3
  <2>4. \A i, j \in DOMAIN got' : i < j /\ got'[j] = "data" => got'[i] = "data"
    <3> SUFFICES ASSUME NEW i \in DOMAIN got', NEW j \in DOMAIN got', i < j, got'[j] = "data"
                 PROVE  got'[i] = "data"
      OBVIOUS
    <3>1. i \in DOMAIN got /\ j \in DOMAIN got /\ got[j] = "data" BY <1>1
    <3> QED BY <1>1, <3>1 DEF ResponseInv, GotShape
  <2> QED BY <1>1, <2>1, <2>3, <2>4 DEF GotShape
<1> QED BY <1>2, <1>3, <1>4, <1>5 DEF ResponseInv

(* The client is told data: it is the next of the response. *)
LEMMA DataTold ==
    ASSUME ResponseInv, TypeOK', StatusInv', Listening, client = "body", Heard = Len(got),
           ~isClosed,
           UNCHANGED <<response, handler, client, downStopped, lost, isClosed>>, ~trailersDone',
           down # <<>>, Received(down) = "data",
           got' = Append(got, "data"), down' = Tail(down)
    PROVE  ResponseInv'
<1> DEFINE F == {"data", "status4"} \cup Endings
           n == Len(got)
<1>1. /\ got \in Seq(F) /\ n \in Nat /\ "data" \in F /\ AllData(got)
      /\ DOMAIN got = 1 .. n /\ DOMAIN got' = 1 .. n + 1 /\ Len(got') = n + 1
      /\ got'[n + 1] = "data" /\ \A i \in 1 .. n : got'[i] = got[i]
  <2>1. got \in Seq(F) /\ n \in Nat BY ResponseNumbers
  <2>2. "data" \in F OBVIOUS
  <2> HIDE DEF F
  <2> QED BY <2>1, <2>2, AppendProperties, LenProperties DEF Listening
<1>2. AllData(got') BY <1>1 DEF AllData
<1>3. ResponseShape' BY DEF ResponseInv, ResponseShape
<1>4. Carries(down, n, response) BY DEF ResponseInv, ResponseOnItsWay
<1>5. Delivered(got', response')
  <2>1. n > 0 => n \in DOMAIN response /\ response[n] = "data"
    <3> HIDE DEF F
    <3> QED BY <1>1, InStep DEF ResponseInv
  <2>2. n + 1 \in DOMAIN response /\ Tells("data", response[n + 1])
    BY <1>1, <1>4, <2>1, ResponseNumbers, ReadsNext
  <2> HIDE DEF F
  <2> QED BY <1>1, <2>2, DeliveredOne DEF ResponseInv
<1>6. GotShape' BY <1>1, <1>2 DEF GotShape, AllData
<1>7. ResponseOnItsWay'
  <2>1. down \in Seq(Wire) /\ Len(down) \in Nat BY ResponseNumbers
  <2>2. Carries(down', n + 1, response)
    <3> HIDE DEF n, F
    <3>1. Carries(Tail(down), n + 1, response) BY <1>1, <1>4, <2>1, CarriesTail
    <3> QED BY <3>1
  <2>3. Heard' = n + 1 BY <1>1 DEF Heard
  <2>4. Len(down') = Len(down) - 1 BY <2>1, HeadTailProperties
  <2>5. /\ Heard' + Len(down') = Heard + Len(down)
        /\ Heard' + Len(down') + 1 = Heard + Len(down) + 1
    <3>1. n \in Int /\ Len(down) \in Int /\ Heard = n BY <1>1, <2>1
    <3> HIDE DEF n, F
    <3> QED BY <2>3, <2>4, <3>1
  <2> QED BY <2>2, <2>3, <2>5 DEF ResponseInv, ResponseOnItsWay
<1> QED BY <1>3, <1>5, <1>6, <1>7 DEF ResponseInv

(* A story whose last frame is no data is not all data. *)
LEMMA NotAllData ==
    ASSUME ResponseInv, got # <<>>, Last(got) # "data"
    PROVE  ~AllData(got)
<1>1. /\ Len(got) \in DOMAIN got /\ Last(got) = got[Len(got)]
  BY ResponseNumbers, LenProperties, EmptySeq DEF Last
<1> QED BY <1>1 DEF AllData

(* No headers have come: an error is all the client is told. *)
LEMMA NoHeadersTold == ASSUME ResponseInv, TypeOK', StatusInv', NoHeaders PROVE ResponseInv'
<1>1. /\ UNCHANGED <<response, handler, isClosed, trailersDone>> /\ client = "awaiting"
      /\ client' = "ended" /\ got' = Append(got, "error")
  BY DEF NoHeaders, serverSide
<1>2. got = <<>> BY <1>1 DEF ResponseInv, StatusInv, Told
<1>3. got' = <<"error">> BY <1>1, <1>2
<1>4. ~isClosed /\ ~trailersDone BY <1>2 DEF ResponseInv, GotShape
<1>5. ResponseShape' BY <1>1 DEF ResponseInv, ResponseShape
<1>6. ResponseOnItsWay' BY <1>1 DEF ResponseOnItsWay, Listening
<1>7. GotShape'
  <2>1. Len(got') = 1 /\ \A i \in DOMAIN got' : i = 1 /\ got'[i] = "error" BY <1>3
  <2> QED BY <1>1, <1>4, <2>1 DEF GotShape
<1>8. Delivered(got', response') BY <1>3 DEF Delivered
<1> QED BY <1>5, <1>6, <1>7, <1>8 DEF ResponseInv

(* A read of the stream tells the client what is next. *)
LEMMA StreamRead == ASSUME ResponseInv, TypeOK', StatusInv', PollStream PROVE ResponseInv'
<1>1. /\ UNCHANGED <<response, handler, client, downStopped, lost, isClosed>>
      /\ Polling /\ ~isClosed /\ client = "body"
  BY DEF PollStream, Polling, serverSide
<1>2. CASE trailersDone
  <2>1. got' = Append(got, "end") BY <1>2 DEF PollStream
  <2>2. ~AllData(got) BY <1>2, NotAllData DEF ResponseInv, GotShape
  <2> QED BY <1>1, <2>1, <2>2, EndingTold DEF Endings
<1>3. CASE ~trailersDone
  <2> DEFINE f == Received(down)
  <2>1. /\ down # <<>> /\ got' = Append(got, f) /\ down' = Rest(down)
        /\ trailersDone' = (f \in {"trailers", "end"})
    BY <1>3 DEF PollStream
  <2>2. Listening /\ Heard = Len(got) BY <1>1, <1>3, PollingData
  <2>3. CASE f = "data"
    <3>1. down' = Tail(down) BY <2>1, <2>3 DEF Rest
    <3> QED BY <1>1, <2>1, <2>2, <2>3, <3>1, DataTold
  <2>4. CASE f # "data"
    <3>1. f \in {"status4"} \cup Endings BY <2>4, ReadResults
    <3> DEFINE n == Len(got)
    <3>2. n \in Nat /\ response \in Seq(Frame) /\ down \in Seq(Wire) BY ResponseNumbers
    <3>3. Carries(down, n, response) BY <2>2 DEF ResponseInv, ResponseOnItsWay
    <3>4. n > 0 => n \in DOMAIN response /\ response[n] = "data"
      <4> DEFINE F == {"data", "status4"} \cup Endings
      <4>1. got \in Seq(F) /\ AllData(got) /\ Delivered(got, response)
        BY <2>2, ResponseNumbers DEF ResponseInv, Listening
      <4> HIDE DEF F
      <4> QED BY <4>1, InStep
    <3>5. f # "error" => n + 1 \in DOMAIN response /\ Tells(f, response[n + 1])
      <4> HIDE DEF n
      <4> QED BY <2>1, <3>2, <3>3, <3>4, ReadsNext
    <3> HIDE DEF f
    <3> QED BY <1>1, <2>1, <3>1, <3>5, EndingTold
  <2> QED BY <2>3, <2>4
<1> QED BY <1>2, <1>3

(* The other steps leave the response alone. *)
LEMMA ResponseOthers ==
    ASSUME ResponseInv, TypeOK', StatusInv',
           UNCHANGED <<response, handler, down, downStopped, callSide, lost>>
    PROVE  ResponseInv'
<1>1. ResponseShape' /\ Delivered(got', response') BY DEF ResponseInv, ResponseShape, callSide
<1>2. ResponseOnItsWay' BY ClientKept DEF ResponseInv, ResponseOnItsWay
<1> QED BY <1>1, <1>2, ClientKept DEF ResponseInv

(* Every step keeps the invariant of the response. *)
LEMMA ResponseStep == ResponseInv /\ [Next]_vars => ResponseInv'
<1> SUFFICES ASSUME ResponseInv, [Next]_vars PROVE ResponseInv' OBVIOUS
<1>1. TypeOK' /\ StatusInv' BY TypeStep, StatusStep DEF ResponseInv
<1>2. CASE HandlerStep
  BY <1>1, <1>2, Responded, ResponsePolled, ResponseWritten, ResponseFails DEF HandlerStep
<1>3. CASE ConnectionLost BY <1>1, <1>3, ResponseCut
<1>4. CASE Headers BY <1>1, <1>4, HeadersRead
<1>5. CASE NoHeaders BY <1>1, <1>5, NoHeadersTold
<1>6. CASE CallDropped \/ BodyDropped BY <1>1, <1>6, ResponseDropped
<1>7. CASE PollStream BY <1>1, <1>7, StreamRead
<1>8. CASE PollClosed
  <2>1. ~AllData(got) BY <1>8, NotAllData DEF PollClosed, ResponseInv, GotShape
  <2>2. /\ UNCHANGED <<response, handler, client, downStopped, lost>> /\ Polling
        /\ got' = Append(got, "end")
    BY <1>8 DEF PollClosed, serverSide, streams
  <2> QED BY <1>1, <2>1, <2>2, EndingTold DEF Endings
<1>9. CASE PollDeadline
  <2> DEFINE f == IF trailersDone THEN "end" ELSE "status4"
  <2>1. /\ UNCHANGED <<response, handler, client, downStopped, lost>> /\ Polling
        /\ got' = Append(got, f)
    BY <1>9 DEF PollDeadline, serverSide, streams
  <2>2. f = "end" => ~AllData(got) BY NotAllData DEF ResponseInv, GotShape
  <2>3. f \in {"end", "status4"} OBVIOUS
  <2> HIDE DEF f
  <2> QED BY <1>1, <2>1, <2>2, <2>3, EndingTold DEF Endings
<1>10. CASE PollForwardError
  <2>1. /\ UNCHANGED <<response, handler, client, downStopped, lost>> /\ Polling
        /\ got' = Append(got, "error") /\ ~isClosed'
    BY <1>10 DEF PollForwardError, serverSide, streams
  <2> QED BY <1>1, <2>1, EndingTold DEF Endings
<1>11. CASE ForwardPoll \/ ForwarderStep
  BY <1>1, <1>11, ResponseOthers
     DEF ForwardPoll, ForwarderStep, ForwardWritten, ForwardFails, ForwardCancelled, serverSide
<1>12. CASE ServiceReads \/ ServiceDropsBody
  BY <1>1, <1>12, ResponseOthers DEF ServiceReads, ServiceDropsBody
<1>13. CASE DeadlinePasses \/ AllDone \/ UNCHANGED vars
  BY <1>1, <1>13, ResponseOthers DEF DeadlinePasses, AllDone, vars, serverSide, streams
<1> QED
  BY <1>2, <1>3, <1>4, <1>5, <1>6, <1>7, <1>8, <1>9, <1>10, <1>11, <1>12, <1>13
     DEF Next, ClientStep, PollFrame

(* However the connection dies and whoever stops first, a response that    *)
(* ends for the client without an error or a deadline is the service's.    *)
THEOREM ResponseWholeCorrect == Spec => []ResponseWhole
<1>1. ASSUME ResponseInv PROVE ResponseWhole
  <2> DEFINE F == {"data", "status4"} \cup Endings
  <2>1. /\ Story(response) /\ got \in Seq(F) /\ Delivered(got, response)
        /\ \A i, j \in DOMAIN got : i < j /\ got[j] = "data" => got[i] = "data"
    BY <1>1, ResponseNumbers DEF ResponseInv, ResponseShape, GotShape
  <2> HIDE DEF F
  <2> QED BY <2>1, DeliveredWhole DEF ResponseWhole
<1> QED BY InitResponse, ResponseStep, <1>1, PTL DEF Spec

-----------------------------------------------------------------------------
(* Where errors come from. *)
Cause == \/ lost
         \/ request # <<>> /\ Last(request) = "error"
         \/ upStopped /\ ~Exhausted(seen)

(* While the forwarder has something to write, the request has no end for  *)
(* the service, neither in the stream nor in what it has read.             *)
WriterAhead == ~aborted /\ ~lost /\ forwarder # "ended" => AllData(up) /\ ~Exhausted(seen)

(* A forwarder is aborted by those who listen to its errors no more. *)
AbortedInv == aborted => client = "ended" \/ isClosed

(* A stream that nothing has broken has no cut in it, and its trailers have *)
(* the end behind them.                                                     *)
Unbroken(s) == \A i \in DOMAIN s : /\ s[i] # "cut"
                                   /\ s[i] = "trailers" => i + 1 \in DOMAIN s /\ s[i + 1] = "fin"

CauseInv == /\ RequestInv /\ ResponseInv
            /\ ErrorHasCause
            /\ WriterAhead /\ AbortedInv
            /\ err = "error" /\ ~aborted => Cause
            /\ lost \/ Unbroken(down)

(* A frame that is neither a cut nor trailers breaks no stream. *)
LEMMA UnbrokenAppend ==
    ASSUME NEW s \in Seq(Wire), Unbroken(s), NEW f \in Wire \ {"cut", "trailers"}
    PROVE  Unbroken(Append(s, f))
<1>1. /\ DOMAIN s = 1 .. Len(s) /\ DOMAIN Append(s, f) = 1 .. Len(s) + 1 /\ Len(s) \in Nat
      /\ \A i \in 1 .. Len(s) : Append(s, f)[i] = s[i]
      /\ Append(s, f)[Len(s) + 1] = f
  BY AppendProperties, LenProperties
<1> DEFINE t == Append(s, f)
<1> SUFFICES ASSUME NEW i \in DOMAIN t
             PROVE  t[i] # "cut" /\ (t[i] = "trailers" => i + 1 \in DOMAIN t /\ t[i + 1] = "fin")
  BY DEF Unbroken
<1>2. CASE i \in DOMAIN s
  <2>1. t[i] = s[i] /\ s[i] # "cut" BY <1>1, <1>2 DEF Unbroken
  <2>2. ASSUME s[i] = "trailers" PROVE i + 1 \in DOMAIN t /\ t[i + 1] = "fin"
    <3>1. i + 1 \in DOMAIN s /\ s[i + 1] = "fin" BY <1>2, <2>2 DEF Unbroken
    <3> QED BY <1>1, <3>1
  <2> QED BY <2>1, <2>2
<1>3. CASE i = Len(s) + 1 BY <1>1, <1>3
<1> QED BY <1>1, <1>2, <1>3

(* Trailers are written with the end behind them. *)
LEMMA UnbrokenTrailers ==
    ASSUME NEW s \in Seq(Wire), Unbroken(s)
    PROVE  Unbroken(Append(Append(s, "trailers"), "fin"))
<1> DEFINE a == Append(s, "trailers")
           b == Append(a, "fin")
<1>1. /\ DOMAIN s = 1 .. Len(s) /\ a \in Seq(Wire) /\ Len(a) = Len(s) + 1 /\ Len(s) \in Nat
      /\ \A i \in 1 .. Len(s) : a[i] = s[i]
      /\ a[Len(s) + 1] = "trailers"
  BY AppendProperties, LenProperties DEF Wire
<1> HIDE DEF a
<1>2. /\ DOMAIN b = 1 .. Len(a) + 1
      /\ \A i \in 1 .. Len(a) : b[i] = a[i]
      /\ b[Len(a) + 1] = "fin"
  BY <1>1, AppendProperties, LenProperties DEF Wire
<1> HIDE DEF b
<1> SUFFICES ASSUME NEW i \in DOMAIN b
             PROVE  b[i] # "cut" /\ (b[i] = "trailers" => i + 1 \in DOMAIN b /\ b[i + 1] = "fin")
  BY DEF Unbroken, a, b
<1>3. CASE i \in DOMAIN s BY <1>1, <1>2, <1>3 DEF Unbroken
<1>4. CASE i = Len(s) + 1 BY <1>1, <1>2, <1>4
<1>5. CASE i = Len(s) + 2 BY <1>1, <1>2, <1>5
<1> QED BY <1>1, <1>2, <1>3, <1>4, <1>5

(* Taking the first frame breaks no stream. *)
LEMMA UnbrokenTail ==
    ASSUME NEW s \in Seq(Wire), s # <<>>, Unbroken(s)
    PROVE  Unbroken(Tail(s))
<1>1. /\ DOMAIN s = 1 .. Len(s) /\ DOMAIN Tail(s) = 1 .. Len(s) - 1 /\ Len(s) \in Nat
      /\ \A i \in 1 .. Len(s) - 1 : Tail(s)[i] = s[i + 1]
  BY HeadTailProperties, LenProperties
<1> SUFFICES ASSUME NEW i \in DOMAIN Tail(s)
             PROVE  /\ Tail(s)[i] # "cut"
                    /\ Tail(s)[i] = "trailers" => i + 1 \in DOMAIN Tail(s) /\ Tail(s)[i + 1] = "fin"
  BY DEF Unbroken
<1>2. i + 1 \in DOMAIN s /\ Tail(s)[i] = s[i + 1] BY <1>1
<1> DEFINE k == i + 1
<1>3. s[k] # "cut" /\ (s[k] = "trailers" => k + 1 \in DOMAIN s /\ s[k + 1] = "fin")
  BY <1>2 DEF Unbroken
<1>4. k + 1 \in DOMAIN s => k \in DOMAIN Tail(s) /\ Tail(s)[k] = s[k + 1] BY <1>1
<1> QED BY <1>2, <1>3, <1>4

(* Which steps change what errors come from, and how. *)
LEMMA WhoChangesCauses ==
    ASSUME [Next]_vars
    PROVE  /\ lost => lost'
           /\ upStopped => upStopped'
           /\ aborted => aborted'
           /\ ServiceReads \/ seen' = seen
           /\ ForwardPoll \/ request' = request
           /\ ForwardPoll \/ ForwardFails \/ PollForwardError \/ err' = err
BY DEF Next, vars, ForwardPoll, ForwarderStep, ForwardWritten, ForwardFails, ForwardCancelled,
       ServiceReads, ServiceDropsBody, HandlerStep, Respond, HandlerPoll, HandlerWritten,
       HandlerFails, ClientStep, Headers, NoHeaders, PollFrame, PollClosed, PollDeadline,
       PollForwardError, PollStream, CallDropped, BodyDropped, DeadlinePasses, ConnectionLost,
       AllDone, clientSide, serverSide, streams

(* A cause stays one: a body that has failed yields no more, and a request *)
(* that the service let go of is read no more.                             *)
LEMMA CauseStays == ASSUME RequestInv, [Next]_vars, Cause PROVE Cause'
<1>1. ForwardPoll => ~(request # <<>> /\ Last(request) = "error")
  BY DEF ForwardPoll, Yields, Exhausted, Endings
<1>2. ServiceReads => ~upStopped BY DEF ServiceReads, RequestInv, RequestShape
<1>3. Exhausted(seen)' => ServiceReads \/ Exhausted(seen) BY WhoChangesCauses DEF Exhausted
<1> QED BY <1>1, <1>2, <1>3, WhoChangesCauses DEF Cause

(* A writer that is not cut short stays ahead of the service. *)
LEMMA WriterStaysAhead ==
    ASSUME CauseInv, [Next]_vars
    PROVE  WriterAhead'
<1> SUFFICES ASSUME ~aborted', ~lost', forwarder' # "ended"
             PROVE  AllData(up)' /\ ~Exhausted(seen)'
  BY DEF WriterAhead
<1>1. ~aborted /\ ~lost BY WhoChangesCauses
<1>2. TypeOK BY DEF CauseInv, RequestInv
<1>3. CASE ForwardPoll
  <2>1. forwarder # "ended" /\ UNCHANGED <<up, seen>> BY <1>3 DEF ForwardPoll, serverSide
  <2> QED BY <1>1, <2>1 DEF CauseInv, WriterAhead, AllData, Exhausted
<1>4. CASE ForwardWritten
  <2>1. forwarder = "data" /\ up' = Append(up, "data") /\ seen' = seen
    BY <1>4, WrittenFrame DEF ForwardWritten, serverSide
  <2>2. AllData(up) /\ ~Exhausted(seen) BY <1>1, <2>1 DEF CauseInv, WriterAhead
  <2>3. AllData(up') BY <1>2, <2>1, <2>2, AppendProperties, LenProperties DEF TypeOK, AllData
  <2> QED BY <2>1, <2>2, <2>3 DEF AllData, Exhausted
<1>5. CASE ForwardFails \/ ForwardCancelled BY <1>5 DEF ForwardFails, ForwardCancelled
<1>6. CASE ServiceReads
  <2>1. up # <<>> /\ forwarder # "ended" /\ seen' = Append(seen, Received(up)) /\ up' = Rest(up)
    BY <1>6 DEF ServiceReads, clientSide
  <2>2. AllData(up) /\ up \in Seq(Wire) /\ seen \in Seq(Frame)
    BY <1>1, <1>2, <2>1 DEF CauseInv, WriterAhead, RequestInv, RequestShape, Story, TypeOK, Wire
  <2>3. Head(up) = "data" BY <2>1, <2>2, LenProperties, EmptySeq DEF AllData
  <2>4. Received(up) = "data" BY <2>3, ReadFrame
  <2>5. up' = Tail(up) BY <2>1, <2>4 DEF Rest
  <2>6. AllData(up')
    <3>1. /\ DOMAIN up = 1 .. Len(up) /\ DOMAIN Tail(up) = 1 .. Len(up) - 1 /\ Len(up) \in Nat
          /\ \A i \in 1 .. Len(up) - 1 : Tail(up)[i] = up[i + 1]
      BY <2>1, <2>2, HeadTailProperties, LenProperties
    <3>2. \A i \in 1 .. Len(up) - 1 : i + 1 \in DOMAIN up BY <3>1
    <3>3. AllData(Tail(up)) BY <2>2, <3>1, <3>2 DEF AllData
    <3> QED BY <2>5, <3>3
  <2>7. Last(seen') = "data"
    <3>1. /\ Len(seen') = Len(seen) + 1 /\ Len(seen) \in Nat
          /\ seen'[Len(seen) + 1] = "data"
      BY <2>1, <2>2, <2>4, AppendProperties, LenProperties DEF Frame
    <3> QED BY <3>1 DEF Last
  <2> QED BY <2>6, <2>7 DEF AllData, Exhausted, Endings
<1>7. CASE UNCHANGED <<up, seen, forwarder>>
  BY <1>1, <1>7 DEF CauseInv, WriterAhead, AllData, Exhausted
<1> QED
  BY <1>1, <1>3, <1>4, <1>5, <1>6, <1>7
     DEF Next, vars, ForwarderStep, ServiceDropsBody, HandlerStep, Respond, HandlerPoll,
         HandlerWritten, HandlerFails, ClientStep, Headers, NoHeaders, PollFrame, PollClosed,
         PollDeadline, PollForwardError, PollStream, CallDropped, BodyDropped, DeadlinePasses,
         ConnectionLost, AllDone, clientSide, serverSide, streams

(* Who aborts the forwarder listens no more. *)
LEMMA AbortedStays == ASSUME AbortedInv, [Next]_vars PROVE AbortedInv'
BY DEF AbortedInv, Next, vars, ForwardPoll, ForwarderStep, ForwardWritten, ForwardFails,
       ForwardCancelled, ServiceReads, ServiceDropsBody, HandlerStep, Respond, HandlerPoll,
       HandlerWritten, HandlerFails, ClientStep, Headers, NoHeaders, PollFrame, PollClosed,
       PollDeadline, PollForwardError, PollStream, CallDropped, BodyDropped, DeadlinePasses,
       ConnectionLost, AllDone, clientSide, callSide

(* What the forwarder leaves in err_tx has a cause, unless it is aborted.  *)
LEMMA ForwardCause ==
    ASSUME CauseInv, [Next]_vars
    PROVE  (err = "error" /\ ~aborted => Cause)'
<1>1. CASE err' = err BY <1>1, CauseStays, WhoChangesCauses DEF CauseInv
<1>2. CASE ForwardPoll
  <2>1. PICK f \in Yields(request) :
          request' = Append(request, f) /\ err' = (IF f = "error" THEN "error" ELSE err)
    BY <1>2 DEF ForwardPoll
  <2>2. CASE f = "error"
    <3>1. /\ f \in Frame /\ ~Exhausted(request) /\ Story(request)
      BY <2>1, <2>2 DEF Yields, Frame, Endings, CauseInv, RequestInv, RequestShape
    <3>2. request' # <<>> /\ Last(request') = f BY <2>1, <3>1, NextFrame
    <3> QED BY <2>2, <3>2 DEF Cause
  <2>3. CASE f # "error" BY <1>1, <2>1, <2>3
  <2> QED BY <2>2, <2>3
<1>3. CASE ForwardFails
  <2> SUFFICES ASSUME ~aborted, ~lost PROVE upStopped' /\ ~Exhausted(seen)'
    BY <1>3, WhoChangesCauses DEF Cause
  <2>1. upStopped /\ forwarder # "ended" /\ UNCHANGED <<upStopped, seen>>
    BY <1>3 DEF ForwardFails, Writing, serverSide
  <2> QED BY <2>1 DEF CauseInv, WriterAhead, Exhausted
<1>4. CASE PollForwardError BY <1>4 DEF PollForwardError
<1> QED BY <1>1, <1>2, <1>3, <1>4, WhoChangesCauses

(* Only the loss of the connection breaks the response. *)
LEMMA UnbrokenStays ==
    ASSUME CauseInv, [Next]_vars
    PROVE  (lost \/ Unbroken(down))'
<1> SUFFICES ASSUME ~lost' PROVE Unbroken(down)' OBVIOUS
<1>1. ~lost BY WhoChangesCauses
<1>2. Unbroken(down) /\ down \in Seq(Wire) BY <1>1, ResponseNumbers DEF CauseInv
<1>3. "fin" \in Wire \ {"cut", "trailers"} BY DEF Wire
<1>4. CASE down' = down BY <1>2, <1>4
<1>5. CASE down # <<>> /\ down' = Tail(down) BY <1>2, <1>5, UnbrokenTail
<1>6. CASE down' = Append(down, "fin") BY <1>2, <1>3, <1>6, UnbrokenAppend
<1>7. CASE HandlerWritten
  <2>1. down' = Written(down, handler) /\ handler \in {"headers", "500", "data", "trailers"}
    BY <1>7 DEF HandlerWritten, Writing, CauseInv, ResponseInv, TypeOK
  <2>2. CASE handler \in {"headers", "data"}
    <3>1. down' = Append(down, handler) /\ handler \in Wire \ {"cut", "trailers"}
      BY <2>1, <2>2, WrittenFrame DEF Wire
    <3> QED BY <1>2, <3>1, UnbrokenAppend
  <2>3. CASE handler = "500"
    <3>1. down' = Append(Append(down, "500"), "fin")
      BY <1>2, <2>1, <2>3, WrittenFrame, TwoFrames DEF Wire
    <3>2. "500" \in Wire \ {"cut", "trailers"} /\ "500" \in Wire BY DEF Wire
    <3>3. Unbroken(Append(down, "500")) /\ Append(down, "500") \in Seq(Wire)
      BY <1>2, <3>2, UnbrokenAppend, AppendProperties
    <3> QED BY <1>3, <3>1, <3>3, UnbrokenAppend
  <2>4. CASE handler = "trailers"
    <3>1. down' = Append(Append(down, "trailers"), "fin")
      BY <1>2, <2>1, <2>4, WrittenFrame, TwoFrames DEF Wire
    <3> QED BY <1>2, <3>1, UnbrokenTrailers
  <2> QED BY <2>1, <2>2, <2>3, <2>4
<1>8. CASE Headers BY <1>5, <1>8 DEF Headers
<1>9. CASE HandlerPoll \/ HandlerFails
  BY <1>1, <1>4, <1>6, <1>9 DEF HandlerPoll, HandlerFails, Finished
<1>10. CASE PollStream BY <1>4, <1>5, <1>10 DEF PollStream, Rest
<1>11. CASE ConnectionLost BY <1>11 DEF ConnectionLost
<1> QED
  BY <1>4, <1>7, <1>8, <1>9, <1>10, <1>11
     DEF Next, vars, ForwardPoll, ForwarderStep, ForwardWritten, ForwardFails, ForwardCancelled,
         ServiceReads, ServiceDropsBody, HandlerStep, Respond, ClientStep, NoHeaders, PollFrame,
         PollClosed, PollDeadline, PollForwardError, CallDropped, BodyDropped, DeadlinePasses,
         AllDone, streams

(* The client is told an error: the stream is broken, or there is another  *)
(* cause in err_rx.                                                        *)
LEMMA ErrorTold ==
    ASSUME CauseInv, [Next]_vars, "error" \in ToSet(got')
    PROVE  Cause'
<1>1. CASE "error" \in ToSet(got) BY <1>1, CauseStays DEF CauseInv, ErrorHasCause, Cause
<1>2. ASSUME NEW f, got' = Append(got, f), "error" \notin ToSet(got) PROVE f = "error"
  <2>1. PICK i \in DOMAIN got' : got'[i] = "error" BY DEF ToSet
  <2>2. /\ DOMAIN got = 1 .. Len(got) /\ DOMAIN got' = 1 .. Len(got) + 1 /\ Len(got) \in Nat
        /\ \A j \in 1 .. Len(got) : got'[j] = got[j]
        /\ got'[Len(got) + 1] = f
    BY <1>2, ResponseNumbers, LenProperties, AppendProperties DEF CauseInv
  <2>3. \A j \in DOMAIN got : got[j] # "error" BY <1>2 DEF ToSet
  <2>4. i = Len(got) + 1
    <3>1. i \notin 1 .. Len(got) BY <2>1, <2>2, <2>3
    <3>2. i \in 1 .. Len(got) + 1 /\ Len(got) \in Nat BY <2>2
    <3> QED BY <3>1, <3>2
  <2> QED BY <2>1, <2>2, <2>4
<1>3. CASE NoHeaders
  <2> SUFFICES ASSUME ~lost PROVE FALSE BY WhoChangesCauses DEF Cause
  <2>1. /\ client = "awaiting" /\ down # <<>> /\ Head(down) \notin {"headers", "500"}
    BY <1>3 DEF NoHeaders
  <2>2. got = <<>> BY <2>1 DEF CauseInv, ResponseInv, StatusInv, Told
  <2>3. Listening /\ Heard + 1 = 0 BY <2>1, <2>2 DEF Listening, AllData, Heard
  <2>4. /\ Carries(down, Heard, response) /\ Unbroken(down)
        /\ down \in Seq(Wire) /\ response \in Seq(Frame)
    BY <2>3, ResponseNumbers DEF CauseInv, ResponseInv, ResponseOnItsWay
  <2>5. 1 \in DOMAIN down /\ Head(down) = down[1] /\ down[1] \in Wire
    BY <2>1, <2>4, LenProperties, EmptySeq, ElementOfSeq
  <2>6. Fits(Head(down), 0, response)
    <3>1. Fits(down[1], Heard + 1, response) BY <2>4, <2>5 DEF Carries
    <3> QED BY <2>3, <2>5, <3>1
  <2>7. Head(down) # "cut" BY <2>4, <2>5 DEF Unbroken
  <2>8. DOMAIN response = 1 .. Len(response) /\ Len(response) \in Nat BY <2>4, LenProperties
  <2> QED BY <2>1, <2>5, <2>6, <2>7, <2>8 DEF Fits, Wire
<1>4. CASE PollForwardError
  <2>1. Cause BY <1>4 DEF PollForwardError, Polling, CauseInv, AbortedInv
  <2> QED BY <2>1, CauseStays DEF CauseInv
<1>5. CASE PollStream /\ "error" \notin ToSet(got)
  <2> SUFFICES ASSUME ~lost PROVE FALSE BY WhoChangesCauses DEF Cause
  <2>1. CASE trailersDone
    <3>1. got' = Append(got, "end") BY <1>5, <2>1 DEF PollStream
    <3> QED BY <1>2, <1>5, <3>1
  <2>2. CASE ~trailersDone
    <3>1. down # <<>> /\ got' = Append(got, Received(down)) /\ Polling /\ ~isClosed
      BY <1>5, <2>2 DEF PollStream
    <3>2. Received(down) = "error" BY <1>2, <1>5, <3>1
    <3>3. Listening /\ Heard = Len(got) /\ Len(got) \in Nat
      BY <2>2, <3>1, PollingData, ResponseNumbers DEF CauseInv
    <3>4. Carries(down, Heard, response) /\ Unbroken(down) /\ down \in Seq(Wire)
      BY <3>3, ResponseNumbers DEF CauseInv, ResponseInv, ResponseOnItsWay
    <3>5. 1 \in DOMAIN down /\ Head(down) = down[1] /\ down[1] \in Wire
      BY <3>1, <3>4, LenProperties, EmptySeq, ElementOfSeq
    <3>6. Head(down) \notin {"headers", "500"}
      <4>1. Fits(down[1], Heard + 1, response) BY <3>4, <3>5 DEF Carries
      <4>2. Heard + 1 # 0 BY <3>3
      <4> QED BY <3>5, <4>1, <4>2 DEF Fits
    <3>7. Head(down) # "cut" /\ (Head(down) = "trailers" => down[2] = "fin")
      <4>1. 1 \in DOMAIN down /\ Head(down) = down[1] BY <3>5
      <4>2. Unbroken(down) BY <3>4
      <4>3. down[1] # "cut" /\ (down[1] = "trailers" => down[1 + 1] = "fin")
        BY <4>1, <4>2 DEF Unbroken
      <4> QED BY <4>1, <4>3
    <3> QED BY <3>2, <3>5, <3>6, <3>7, ReadFrame DEF Wire
  <2> QED BY <2>1, <2>2
<1>6. CASE PollClosed /\ "error" \notin ToSet(got)
  <2>1. got' = Append(got, "end") BY <1>6 DEF PollClosed
  <2> QED BY <1>2, <1>6, <2>1
<1>7. CASE PollDeadline /\ "error" \notin ToSet(got)
  <2>1. got' \in {Append(got, "end"), Append(got, "status4")} BY <1>7 DEF PollDeadline
  <2> QED BY <1>2, <1>7, <2>1
<1>8. CASE got' = got BY <1>1, <1>8
<1> QED
  BY <1>1, <1>3, <1>4, <1>5, <1>6, <1>7, <1>8
     DEF Next, vars, ForwardPoll, ForwarderStep, ForwardWritten, ForwardFails, ForwardCancelled,
         ServiceReads, ServiceDropsBody, HandlerStep, Respond, HandlerPoll, HandlerWritten,
         HandlerFails, ClientStep, Headers, PollFrame, CallDropped, BodyDropped, DeadlinePasses,
         ConnectionLost, AllDone, callSide

(* The client sees an error only where the connection is lost, the request *)
(* body failed, or the service let go of a request that it had not read to *)
(* its end.                                                                *)
THEOREM ErrorHasCauseCorrect == Spec => []ErrorHasCause
<1>1. Init => CauseInv
  <2> SUFFICES ASSUME Init PROVE CauseInv OBVIOUS
  <2>1. got = <<>> /\ down = <<>> /\ err = "none" /\ ~aborted /\ up = <<>> /\ seen = <<>>
    BY DEF Init
  <2>2. WriterAhead /\ AbortedInv BY <2>1 DEF WriterAhead, AllData, Exhausted, AbortedInv
  <2> QED BY <2>1, <2>2, InitRequest, InitResponse DEF CauseInv, ErrorHasCause, ToSet, Unbroken
<1>2. CauseInv /\ [Next]_vars => CauseInv'
  <2> SUFFICES ASSUME CauseInv, [Next]_vars PROVE CauseInv' OBVIOUS
  <2>1. RequestInv' /\ ResponseInv' BY RequestStep, ResponseStep DEF CauseInv
  <2>2. ErrorHasCause' BY ErrorTold DEF ErrorHasCause, Cause
  <2>3. WriterAhead' /\ AbortedInv' BY WriterStaysAhead, AbortedStays DEF CauseInv
  <2> QED BY <2>1, <2>2, <2>3, ForwardCause, UnbrokenStays DEF CauseInv
<1>3. CauseInv => ErrorHasCause BY DEF CauseInv
<1> QED BY <1>1, <1>2, <1>3, PTL DEF Spec
=============================================================================
