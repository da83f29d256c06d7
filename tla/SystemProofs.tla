----------------------------- MODULE SystemProofs -----------------------------
(***************************************************************************)
(* The client of the system keeps ClientPromise, so that what is proved of *)
(* the promise holds here; hence no call is executed twice, and none fails *)
(* under its handler unless it was given up or its connection was cut, for *)
(* any number of calls, attempts, handlers and faults.                     *)
(***************************************************************************)
EXTENDS System, TLAPS

(* What follows from the client's promise, proved in ClientPromiseProofs.  *)
Promised == INSTANCE ClientPromiseProofs WITH None <- 0

-----------------------------------------------------------------------------
(* Each step of the system is a step of its client, or leaves it alone.    *)
LEMMA StepClient == ASSUME [Next]_vars PROVE [Client!Next]_client
<1>1. ASSUME NEW r \in Call, Begin(r) \/ CallStep(r) \/ GiveUp(r) PROVE Client!Next
  BY <1>1 DEF Begin, CallStep, GiveUp, Lookup, SendOk, SendErr, Continue, ResponseOk, ResponseErr,
              Client!Next
<1>2. CASE Dial
  BY <1>2 DEF Dial, DialOk, DialErr, Client!Next
<1>3. ASSUME NEW k \in Conn, GoawayArrives(k) \/ CloseArrives(k) PROVE Client!Next
  BY <1>3 DEF GoawayArrives, CloseArrives, Client!Next
<1>4. ASSUME NEW k \in Conn, ConnectionLost(k) PROVE UNCHANGED client
  BY <1>4 DEF ConnectionLost
<1>5. CASE ServerStep \/ Start \/ Shutdown \/ ForcedReturn
  BY <1>5 DEF ServerStep, Start, Shutdown, ForcedReturn, Return, LeaveLoop, CloseDrained,
              AbortTask, Admit, Overloaded, HandlerEnds, AbortHandler
<1>6. CASE Crash \/ Restart \/ AllDone \/ UNCHANGED vars
  BY <1>6 DEF Crash, Restart, ProcessEnds, AllDone, vars
<1> QED BY <1>1, <1>2, <1>3, <1>4, <1>5, <1>6 DEF Next

(* The client keeps its promise whatever the server does, dead or alive.   *)
LEMMA ClientPromiseKept == Spec => Client!Spec
<1>1. Init => Client!Init BY DEF Init
<1>2. [Next]_vars => [Client!Next]_(Client!vars) BY StepClient DEF client, Client!vars
<1> QED BY <1>1, <1>2, PTL DEF Spec, Client!Spec

(* The promise, as used and as proved about, begins alike. *)
LEMMA SameInit == Client!Init => Promised!Init
BY DEF Client!Init, Promised!Init, Client!Vacant, Promised!Vacant

(* And takes the same steps. *)
LEMMA SameStep == [Client!Next]_client => [Promised!Next]_(Promised!vars)
<1> USE DEF Client!Moves, Client!Stale, Client!Waiting, Client!Vacant, Client!Dialing,
            Client!Ready, Client!Asked, Client!Live, Client!Ended,
            Promised!Moves, Promised!Stale, Promised!Waiting, Promised!Vacant,
            Promised!Dialing, Promised!Ready, Promised!Asked, Promised!Live, Promised!Ended
<1>1. ASSUME NEW r \in Call, Client!Begin(r) \/ Client!Lookup(r) PROVE Promised!Next
  BY <1>1 DEF Client!Begin, Client!Lookup, Client!Use, Client!Join, Client!Dial,
              Promised!Begin, Promised!Lookup, Promised!Use, Promised!Join, Promised!Dial,
              Promised!Next
<1>2. ASSUME NEW r \in Call,
             \/ Client!SendOk(r) \/ Client!SendErr(r) \/ Client!Continue(r)
             \/ Client!ResponseOk(r) \/ Client!Fail(r)
      PROVE  Promised!Next
  BY <1>2 DEF Client!SendOk, Client!SendErr, Client!Continue, Client!ResponseOk, Client!Fail,
              Promised!SendOk, Promised!SendErr, Promised!Continue, Promised!ResponseOk,
              Promised!Fail, Promised!Next
<1>3. CASE Client!DialErr
  BY <1>3 DEF Client!DialErr, Promised!DialErr, Promised!Next
<1>4. ASSUME NEW k \in Conn, Client!DialOk(k) \/ Client!Goaway(k) \/ Client!Close(k)
      PROVE  Promised!Next
  BY <1>4 DEF Client!DialOk, Client!Goaway, Client!Close, Promised!DialOk, Promised!Goaway,
              Promised!Close, Promised!Next
<1>5. UNCHANGED client => UNCHANGED Promised!vars BY DEF client, Promised!vars
<1> QED BY <1>1, <1>2, <1>3, <1>4, <1>5 DEF Client!Next

-----------------------------------------------------------------------------
(* What the promise does not speak of. *)
ServerInv == /\ phase \in {"off", "up", "draining", "down"} /\ forced \in BOOLEAN
             /\ conn \in [Conn -> {"none", "serving", "closing", "gone"}]
             /\ running \subseteq admitted /\ killed \subseteq admitted
             /\ admitted \subseteq sent /\ refused \subseteq sent \ admitted
             /\ lost \subseteq Conn /\ gaveUp \subseteq Call
             /\ faults \in 0 .. MaxFaults

(* A call that sends has a connection to send on. *)
ViaInv == \A r \in Call : st[r] = "sending" => via[r] \in Conn

(* A request that has been sent is the only one of its call: the call has  *)
(* left its retry loop.                                                    *)
SentInv == \A q \in sent : /\ st[CallOf(q)] \in {"awaiting", "answered", "failed"}
                           /\ q = Asked(CallOf(q))

CallInv == TypeOK /\ ViaInv /\ SentInv
IInv == ServerInv /\ Promised!IInv

LEMMA RequestParts ==
    ASSUME NEW q \in Request
    PROVE  ConnOf(q) \in Conn /\ CallOf(q) \in Call
BY DEF Request, ConnOf, CallOf

(* 0 is no connection: what the proofs of the promise assume of its None.  *)
LEMMA ClientAssumed == Promised!ClientAssumption
BY SystemAssumption DEF Promised!ClientAssumption, Conn

(* With the promise the calls are as the proofs below need them. *)
LEMMA CallFacts == IInv => CallInv
<1> SUFFICES ASSUME IInv PROVE CallInv OBVIOUS
<1>1. TypeOK
  BY DEF IInv, ServerInv, TypeOK, Promised!IInv, Promised!TypeInv, Promised!Turning,
         Promised!Ended, Promised!Live, Ended, Request, Promised!Vacant, Promised!Dialing,
         Promised!Ready, Client!Vacant, Client!Dialing
<1>2. ViaInv
  BY DEF IInv, ViaInv, Promised!IInv, Promised!TurnInv
<1>3. SentInv
  BY DEF IInv, SentInv, CallOf, Asked, Promised!IInv, Promised!OneRequest, Promised!Asked,
         Promised!Ended
<1> QED BY <1>1, <1>2, <1>3 DEF CallInv

LEMMA InitIInv == Init => IInv
<1> SUFFICES ASSUME Init PROVE IInv OBVIOUS
<1>1. Promised!IInv BY ClientAssumed, SameInit, Promised!InitIInv DEF Init
<1>2. faults \in 0 .. MaxFaults BY SystemAssumption DEF Init
<1>3. ServerInv BY <1>2 DEF Init, Server!Init, Client!Init, ServerInv
<1> QED BY <1>1, <1>3 DEF IInv

(* The bound on faults holds. *)
LEMMA FaultsBounded ==
    ASSUME ServerInv
    PROVE  /\ Fault => faults' \in 0 .. MaxFaults
           /\ \A reason \in BOOLEAN : UnlessFault(reason) => faults' \in 0 .. MaxFaults
BY SystemAssumption DEF ServerInv, Fault, UnlessFault

(* Each step of the client, the server or a fault keeps the server's part. *)
LEMMA StepServerInv == ASSUME CallInv, ServerInv, [Next]_vars PROVE ServerInv'
<1>1. ASSUME NEW r \in Call,
             Begin(r) \/ Lookup(r) \/ Continue(r) \/ ResponseOk(r) \/ ResponseErr(r)
      PROVE  ServerInv'
  BY <1>1 DEF Begin, Lookup, Continue, ResponseOk, ResponseErr, server, ServerInv,
              Client!Begin, Client!Lookup, Client!Use, Client!Join, Client!Dial,
              Client!Continue, Client!ResponseOk, Client!Fail
<1>2. ASSUME NEW r \in Call, SendOk(r) PROVE ServerInv'
  <2>1. Asked(r) \notin sent
    BY <1>2 DEF SendOk, Client!SendOk, Client!Asked, Asked
  <2> QED BY <1>2, <2>1 DEF SendOk, Client!SendOk, Client!Asked, Asked, server, ServerInv
<1>3. ASSUME NEW r \in Call, SendErr(r) PROVE ServerInv'
  BY <1>3, FaultsBounded DEF SendErr, Client!SendErr, server, ServerInv
<1>11. ASSUME NEW r \in Call, GiveUp(r) PROVE ServerInv'
  BY <1>11, FaultsBounded DEF GiveUp, Client!Fail, server, ServerInv
<1>4. CASE Dial
  <2>1. CASE DialOk
    BY <2>1 DEF DialOk, Client!DialOk, Server!Open, Server!Move, ServerInv
  <2>2. CASE DialErr
    BY <2>2, FaultsBounded DEF DialErr, Client!DialErr, server, ServerInv
  <2> QED BY <1>4, <2>1, <2>2 DEF Dial
<1>5. ASSUME NEW k \in Conn, GoawayArrives(k) \/ CloseArrives(k) \/ ConnectionLost(k)
      PROVE  ServerInv'
  BY <1>5, FaultsBounded
  DEF GoawayArrives, CloseArrives, ConnectionLost, Client!Goaway, Client!Close, server, client,
      ServerInv
<1>6. ASSUME NEW q \in sent, Admit(q) \/ Overloaded(q) \/ HandlerEnds(q) \/ AbortHandler(q)
      PROVE  ServerInv'
  BY <1>6 DEF Admit, Overloaded, HandlerEnds, AbortHandler, Server!Admit, Server!Finish,
              Server!Kill, server, client, ServerInv
<1>7. ASSUME NEW k \in Conn, LeaveLoop(k) \/ CloseDrained(k) \/ AbortTask(k) PROVE ServerInv'
  BY <1>7 DEF LeaveLoop, CloseDrained, AbortTask, Server!StopServing, Server!Close,
              Server!Abort, Server!Move, client, ServerInv
<1>8. CASE Start \/ Shutdown \/ Return \/ ForcedReturn
  BY <1>8, FaultsBounded
  DEF Start, Shutdown, Return, ForcedReturn, Server!Start, Server!Shutdown, Server!Return,
      Server!ForcedReturn, Current, client, ServerInv
<1>9. CASE Crash \/ Restart
  BY <1>9, FaultsBounded DEF Crash, Restart, ProcessEnds, Current, client, ServerInv
<1>10. CASE AllDone \/ UNCHANGED vars
  BY <1>10 DEF AllDone, vars, server, client, ServerInv
<1> QED
  BY <1>1, <1>2, <1>3, <1>4, <1>5, <1>6, <1>7, <1>8, <1>9, <1>10, <1>11 DEF Next, CallStep, ServerStep

(* The promise keeps the rest. *)
LEMMA StepIInv == ASSUME IInv, [Next]_vars PROVE IInv'
<1>1. Promised!IInv'
  BY StepClient, SameStep, ClientAssumed, Promised!StepIInv DEF IInv
<1> QED BY <1>1, CallFacts, StepServerInv DEF IInv

LEMMA Inductive == Spec => []IInv
BY InitIInv, StepIInv, PTL DEF Spec

(* Every variable of the system stays within its type. *)
THEOREM SystemTypeCorrect == Spec => []TypeOK
<1>1. CallInv => TypeOK BY DEF CallInv
<1> QED BY <1>1, CallFacts, Inductive, PTL

(* A call is executed once at most, over all its attempts, connections and *)
(* lives of the server: it has one request, and no request is admitted     *)
(* that has not been sent.                                                 *)
THEOREM AtMostOnceCorrect == Spec => []AtMostOnce
<1>1. CallInv => AtMostOnce BY DEF CallInv, TypeOK, SentInv, AtMostOnce
<1> QED BY <1>1, CallFacts, Inductive, PTL

-----------------------------------------------------------------------------
(* What the two sides may believe of each other.  A connection that the    *)
(* client takes for closed is gone or lost; one that is gone under a       *)
(* running handler was lost; and a call that nobody gave up has failed     *)
(* after it was sent only because it was turned away or its connection was *)
(* closed.                                                                 *)
LinkInv ==
    /\ \A k \in Conn : conn[k] = "none" <=> cl[k] = "none"
    /\ \A k \in Conn : cl[k] = "closed" => k \in lost \/ conn[k] = "gone"

GoneInv ==
    /\ forced => (phase = "down" /\ Current \subseteq lost)
    /\ \A q \in running : conn[ConnOf(q)] = "gone" => ConnOf(q) \in lost

FailedInv ==
    \A r \in Call \ gaveUp :
        st[r] = "failed" /\ Asked(r) \in sent
            => Asked(r) \in refused \/ cl[via[r]] = "closed"

FailureInv == CallInv /\ LinkInv /\ GoneInv /\ FailedInv

(* At first there is no connection, and no call has failed. *)
LEMMA InitFailureInv == Init => FailureInv
<1> SUFFICES ASSUME Init PROVE FailureInv OBVIOUS
<1>1. LinkInv BY DEF Init, Server!Init, Client!Init, LinkInv
<1>2. GoneInv BY DEF Init, Server!Init, GoneInv
<1>3. FailedInv BY DEF Init, Client!Init, FailedInv
<1> QED BY <1>1, <1>2, <1>3, InitIInv, CallFacts DEF FailureInv

(* Steps that leave the calls alone, and no closed connection opens.       *)
LEMMA FailedKept ==
    ASSUME FailedInv, UNCHANGED <<st, attempt, via, sent, gaveUp>>,
           refused \subseteq refused',
           \A k \in Conn : cl[k] = "closed" => cl'[k] = "closed",
           TypeOK
    PROVE  FailedInv'
<1> SUFFICES ASSUME NEW r \in Call \ gaveUp, st[r] = "failed", Asked(r) \in sent
             PROVE  Asked(r) \in refused' \/ cl'[via[r]] = "closed"
  BY DEF FailedInv, Asked
<1>1. ConnOf(Asked(r)) = via[r] BY DEF Asked, ConnOf
<1>2. via[r] \in Conn BY <1>1, RequestParts DEF TypeOK
<1> QED BY <1>2 DEF FailedInv

(* A step that moves calls which have sent nothing, or sends for one.      *)
LEMMA Unsent ==
    ASSUME CallInv, FailedInv, UNCHANGED <<refused, gaveUp>>, NEW S \in SUBSET Call,
           \A r \in S : st[r] \notin {"awaiting", "answered", "failed"},
           \A r \in Call \ S : st'[r] = st[r] /\ via'[r] = via[r] /\ attempt'[r] = attempt[r],
           sent' \in SUBSET (sent \cup {Asked(r) : r \in S}),
           \A r \in S : sent' # sent => st'[r] # "failed",
           \A k \in Conn : cl[k] = "closed" => cl'[k] = "closed"
    PROVE  FailedInv'
<1> SUFFICES ASSUME NEW r \in Call \ gaveUp, st'[r] = "failed", Asked(r)' \in sent'
             PROVE  Asked(r)' \in refused \/ cl'[via'[r]] = "closed"
  BY DEF FailedInv
<1>1. CallOf(Asked(r)') = r /\ \A p \in Call : CallOf(Asked(p)) = p BY DEF Asked, CallOf
<1>2. ASSUME r \in S PROVE FALSE
  BY <1>1, <1>2 DEF CallInv, SentInv
<1>3. Asked(r)' = Asked(r) /\ st[r] = "failed" BY <1>2 DEF Asked
<1>4. Asked(r) \in sent BY <1>1, <1>2, <1>3
<1>5. ConnOf(Asked(r)) = via[r] /\ Asked(r) \in Request BY <1>4 DEF Asked, ConnOf, CallInv, TypeOK
<1>6. via[r] \in Conn /\ via'[r] = via[r] BY <1>2, <1>5, RequestParts
<1> QED BY <1>3, <1>4, <1>6 DEF FailedInv

(* The steps of a call say nothing of the server, and fail it for cause.   *)
LEMMA CallFailure ==
    ASSUME FailureInv, NEW r \in Call, Begin(r) \/ CallStep(r)
    PROVE  (LinkInv /\ GoneInv /\ FailedInv)'
<1>0. UNCHANGED <<conn, cl, lost, forced, phase, running, refused, gaveUp>>
  BY DEF Begin, CallStep, Lookup, SendOk, SendErr, Continue, ResponseOk, ResponseErr, server,
         Client!Begin, Client!Lookup, Client!Use, Client!Join, Client!Dial, Client!SendOk,
         Client!SendErr, Client!Continue, Client!ResponseOk, Client!Fail
<1>1. LinkInv' /\ GoneInv'
  BY <1>0 DEF FailureInv, LinkInv, GoneInv, Current
<1>2. TypeOK BY DEF FailureInv, CallInv
<1>3. CASE Begin(r) \/ Lookup(r) \/ SendErr(r) \/ Continue(r)
  <2>1. /\ st[r] \notin {"awaiting", "answered", "failed"} /\ UNCHANGED sent
        /\ \A p \in Call \ {r} : /\ st'[p] = st[p] /\ via'[p] = via[p]
                                 /\ attempt'[p] = attempt[p]
    BY <1>2, <1>3
    DEF Begin, Lookup, SendErr, Continue, Client!Begin, Client!Lookup, Client!Use, Client!Join,
        Client!Dial, Client!SendErr, Client!Continue, Client!Moves, TypeOK
  <2>2. {r} \in SUBSET Call /\ sent' \in SUBSET (sent \cup {Asked(p) : p \in {r}})
    BY <2>1
  <2>3. FailedInv' BY <1>0, <2>1, <2>2, Unsent DEF FailureInv
  <2> QED BY <1>1, <2>3
<1>4. CASE SendOk(r)
  <2>1. /\ st[r] \notin {"awaiting", "answered", "failed"} /\ st'[r] # "failed"
        /\ sent' = sent \cup {Asked(r)}
        /\ \A p \in Call \ {r} : /\ st'[p] = st[p] /\ via'[p] = via[p]
                                 /\ attempt'[p] = attempt[p]
    BY <1>2, <1>4 DEF SendOk, Client!SendOk, Client!Moves, Client!Asked, Asked, TypeOK
  <2>2. {r} \in SUBSET Call /\ sent' \in SUBSET (sent \cup {Asked(p) : p \in {r}})
    BY <2>1
  <2>3. FailedInv' BY <1>0, <2>1, <2>2, Unsent DEF FailureInv
  <2> QED BY <1>1, <2>3
<1>5. CASE ResponseOk(r)
  BY <1>0, <1>1, <1>2, <1>5
  DEF ResponseOk, Client!ResponseOk, Client!Moves, FailureInv, FailedInv, TypeOK, Asked
<1>6. CASE ResponseErr(r)
  <2>1. /\ st' = [st EXCEPT ![r] = "failed"] /\ UNCHANGED <<attempt, sent>>
        /\ via' = via
        /\ Asked(r) \in refused \/ cl[via[r]] = "closed"
    BY <1>2, <1>6 DEF ResponseErr, Client!Fail, TypeOK
  <2> QED BY <1>0, <1>1, <1>2, <2>1 DEF FailureInv, FailedInv, TypeOK, Asked
<1> QED BY <1>3, <1>4, <1>5, <1>6 DEF CallStep

(* A call that is given up need not have a cause. *)
LEMMA GivenUpFailure ==
    ASSUME FailureInv, NEW r \in Call, GiveUp(r)
    PROVE  (LinkInv /\ GoneInv /\ FailedInv)'
<1>0. TypeOK BY DEF FailureInv, CallInv
<1>1. /\ UNCHANGED <<conn, cl, lost, forced, phase, running, refused, attempt, sent>>
      /\ gaveUp' = gaveUp \cup {r}
      /\ \A p \in Call \ {r} : st'[p] = st[p] /\ via'[p] = via[p]
  BY <1>0 DEF GiveUp, Client!Fail, server, TypeOK
<1>2. LinkInv' /\ GoneInv' BY <1>1 DEF FailureInv, LinkInv, GoneInv, Current
<1>3. FailedInv' BY <1>1 DEF FailureInv, FailedInv, Asked
<1> QED BY <1>2, <1>3

(* A dial ends with a connection on both sides, or on neither.             *)
LEMMA DialFailure ==
    ASSUME FailureInv, Dial
    PROVE  (LinkInv /\ GoneInv /\ FailedInv)'
<1>0. TypeOK BY DEF FailureInv, CallInv
<1> DEFINE W == Client!Waiting
<1>1. W \in SUBSET Call /\ \A r \in W : st[r] \notin {"awaiting", "answered", "failed"}
  BY DEF Client!Waiting
<1>2. CASE DialOk
  <2>1. PICK k \in Conn : Server!Open(k) /\ Client!DialOk(k) /\ cl'[k] = "open"
    BY <1>2 DEF DialOk
  <2>2. /\ conn[k] = "none" /\ cl[k] = "none" /\ phase = "up"
        /\ conn' = [conn EXCEPT ![k] = "serving"] /\ cl' = [cl EXCEPT ![k] = "open"]
        /\ UNCHANGED <<lost, refused, gaveUp, sent, running, forced, phase>>
    <3>1. /\ conn[k] = "none" /\ phase = "up" /\ conn' = [conn EXCEPT ![k] = "serving"]
          /\ UNCHANGED <<running, forced, phase>>
      BY <2>1 DEF Server!Open, Server!Move
    <3>2. cl[k] = "none" /\ cl' = [cl EXCEPT ![k] = "open"] /\ UNCHANGED sent
      BY <1>0, <2>1 DEF Client!DialOk, TypeOK
    <3> QED BY <1>2, <3>1, <3>2 DEF DialOk
  <2>3. LinkInv' BY <1>0, <2>2 DEF FailureInv, LinkInv, TypeOK
  <2>4. GoneInv' BY <1>0, <2>2 DEF FailureInv, GoneInv, TypeOK
  <2>5. \A r \in Call \ W : st'[r] = st[r] /\ via'[r] = via[r] /\ attempt'[r] = attempt[r]
    BY <2>1 DEF Client!DialOk
  <2>6. \A j \in Conn : cl[j] = "closed" => cl'[j] = "closed" BY <1>0, <2>2 DEF TypeOK
  <2>7. FailedInv' BY <1>1, <2>2, <2>5, <2>6, Unsent DEF FailureInv
  <2> QED BY <2>3, <2>4, <2>7
<1>3. CASE DialErr
  <2>1. LinkInv' /\ GoneInv'
    BY <1>3 DEF DialErr, server, FailureInv, LinkInv, GoneInv, Current
  <2>2. \A r \in Call \ W : st'[r] = st[r] /\ via'[r] = via[r] /\ attempt'[r] = attempt[r]
    BY <1>3 DEF DialErr, Client!DialErr
  <2>3. UNCHANGED <<refused, gaveUp, sent, cl>> BY <1>3 DEF DialErr, Client!DialErr
  <2>4. FailedInv' BY <1>1, <2>2, <2>3, Unsent DEF FailureInv
  <2> QED BY <2>1, <2>4
<1> QED BY <1>2, <1>3 DEF Dial

(* The client learns of what has happened only what has. *)
LEMMA ArrivalFailure ==
    ASSUME FailureInv, NEW k \in Conn,
           GoawayArrives(k) \/ CloseArrives(k) \/ ConnectionLost(k)
    PROVE  (LinkInv /\ GoneInv /\ FailedInv)'
<1>1. LinkInv'
  BY DEF GoawayArrives, CloseArrives, ConnectionLost, Client!Goaway, Client!Close, Client!Live,
         Live, server, client, FailureInv, LinkInv, CallInv, TypeOK
<1>2. GoneInv'
  BY DEF GoawayArrives, CloseArrives, ConnectionLost, server, FailureInv, GoneInv, Current
<1>3. \A j \in Conn : cl[j] = "closed" => cl'[j] = "closed"
  BY DEF GoawayArrives, CloseArrives, ConnectionLost, Client!Goaway, Client!Close, Client!Live,
         client, FailureInv, CallInv, TypeOK
<1>4. FailedInv'
  BY <1>3, FailedKept
  DEF GoawayArrives, CloseArrives, ConnectionLost, Client!Goaway, Client!Close, client,
      FailureInv, CallInv
<1> QED BY <1>1, <1>2, <1>4

(* The server lets a connection go while its handlers run only after it    *)
(* has cut it.                                                             *)
LEMMA ServerFailure ==
    ASSUME FailureInv, ServerStep \/ Start \/ Shutdown \/ ForcedReturn
    PROVE  (LinkInv /\ GoneInv /\ FailedInv)'
<1>0. UNCHANGED <<client, gaveUp>> /\ refused \subseteq refused'
  BY DEF ServerStep, Start, Shutdown, ForcedReturn, Return, LeaveLoop, CloseDrained, AbortTask,
         Admit, Overloaded, HandlerEnds, AbortHandler
<1>1. FailedInv'
  BY <1>0, FailedKept DEF client, FailureInv, CallInv
<1>2. ASSUME NEW q \in sent, Admit(q) PROVE LinkInv' /\ GoneInv'
  <2>1. LinkInv' BY <1>2 DEF Admit, Server!Admit, client, FailureInv, LinkInv
  <2>2. GoneInv' BY <1>2 DEF Admit, Server!Admit, FailureInv, GoneInv, Current
  <2> QED BY <2>1, <2>2
<1>3. ASSUME NEW q \in sent, Overloaded(q) \/ HandlerEnds(q) \/ AbortHandler(q)
      PROVE  LinkInv' /\ GoneInv'
  <2>1. UNCHANGED <<cl, conn, lost, forced, phase>> /\ running' \subseteq running
    BY <1>3
    DEF Overloaded, HandlerEnds, AbortHandler, Server!Finish, Server!Kill, client, server
  <2> QED BY <2>1 DEF FailureInv, LinkInv, GoneInv, Current
<1>4. ASSUME NEW k \in Conn, LeaveLoop(k) PROVE LinkInv' /\ GoneInv'
  <2>1. LinkInv'
    BY <1>4 DEF LeaveLoop, Server!StopServing, Server!Move, client, FailureInv, LinkInv,
                CallInv, TypeOK
  <2>2. GoneInv'
    BY <1>4 DEF LeaveLoop, Server!StopServing, Server!Move, FailureInv, GoneInv, Current,
                CallInv, TypeOK
  <2> QED BY <2>1, <2>2
<1>5. ASSUME NEW k \in Conn, CloseDrained(k) \/ AbortTask(k) PROVE LinkInv' /\ GoneInv'
  <2>1. /\ conn[k] \in {"serving", "closing"} /\ conn' = [conn EXCEPT ![k] = "gone"]
        /\ UNCHANGED <<cl, lost, forced, phase, running>>
    BY <1>5
    DEF CloseDrained, AbortTask, Server!Close, Server!Abort, Server!Move, client
  <2>2. LinkInv' BY <2>1 DEF FailureInv, LinkInv, CallInv, TypeOK
  <2>3. Current' \subseteq Current BY <2>1 DEF Current, FailureInv, CallInv, TypeOK
  <2>4. k \in lost \/ \A q \in running : ConnOf(q) # k
    BY <1>5, <2>1
    DEF CloseDrained, AbortTask, Server!Close, Server!RunningOn, Server!Abort, FailureInv,
        GoneInv, Current
  <2>5. \A q \in running : conn'[ConnOf(q)] = "gone" => ConnOf(q) \in lost
    BY <2>1, <2>4 DEF FailureInv, GoneInv, CallInv, TypeOK
  <2> QED BY <2>1, <2>2, <2>3, <2>5 DEF FailureInv, GoneInv
<1>6. CASE Start \/ Shutdown \/ Return
  <2>1. ~forced' /\ UNCHANGED <<cl, conn, lost, running>>
    BY <1>6
    DEF Start, Shutdown, Return, Server!Start, Server!Shutdown, Server!Return, client,
        FailureInv, GoneInv
  <2> QED BY <1>1, <2>1 DEF FailureInv, LinkInv, GoneInv
<1>7. CASE ForcedReturn
  <2>1. phase' = "down" /\ lost' = lost \cup Current /\ UNCHANGED <<cl, conn, running>>
    BY <1>7 DEF ForcedReturn, Server!ForcedReturn, client
  <2>2. Current' = Current BY <2>1 DEF Current
  <2> QED BY <1>1, <2>1, <2>2 DEF FailureInv, LinkInv, GoneInv
<1> QED BY <1>1, <1>2, <1>3, <1>4, <1>5, <1>6, <1>7 DEF ServerStep

(* A process that ends leaves no handler behind. *)
LEMMA ProcessFailure ==
    ASSUME FailureInv, Crash \/ Restart
    PROVE  (LinkInv /\ GoneInv /\ FailedInv)'
<1>0. ProcessEnds BY DEF Crash, Restart
<1>1. LinkInv'
  BY <1>0 DEF ProcessEnds, client, FailureInv, LinkInv, CallInv, TypeOK
<1>2. GoneInv' BY <1>0 DEF ProcessEnds, GoneInv
<1>3. FailedInv' BY <1>0, FailedKept DEF ProcessEnds, client, FailureInv, CallInv
<1> QED BY <1>1, <1>2, <1>3

(* Each step of the system keeps what the two sides may believe. *)
LEMMA StepFailureInv == ASSUME FailureInv, CallInv', [Next]_vars PROVE FailureInv'
<1>1. CASE AllDone \/ UNCHANGED vars
  <2>1. UNCHANGED vars BY <1>1 DEF AllDone
  <2>2. FailedInv' BY <2>1, FailedKept DEF vars, server, client, FailureInv, CallInv
  <2>3. LinkInv' /\ GoneInv'
    BY <2>1 DEF vars, server, client, FailureInv, LinkInv, GoneInv, Current
  <2> QED BY <2>2, <2>3 DEF FailureInv
<1>2. CASE Next /\ ~AllDone
  BY <1>2, CallFailure, GivenUpFailure, DialFailure, ArrivalFailure, ServerFailure, ProcessFailure
  DEF Next, FailureInv
<1> QED BY <1>1, <1>2

(* A call fails while its handler still runs only by its own deadline or   *)
(* owner, or where the connection was cut: by the network, a crash or a    *)
(* forced shutdown.                                                        *)
THEOREM FailedWhileRunningCorrect == Spec => []FailedWhileRunning
<1>1. FailureInv /\ IInv' /\ [Next]_vars => FailureInv' BY CallFacts, StepFailureInv, PTL
<1>2. FailureInv => FailedWhileRunning
  <2> SUFFICES ASSUME FailureInv, NEW r \in Call \ gaveUp, st[r] = "failed", Asked(r) \in running
               PROVE  via[r] \in lost
    BY DEF FailedWhileRunning
  <2>1. /\ Asked(r) \in sent /\ Asked(r) \in Request /\ Asked(r) \notin refused
    BY DEF FailureInv, CallInv, TypeOK
  <2>2. ConnOf(Asked(r)) = via[r] BY DEF Asked, ConnOf
  <2>3. via[r] \in Conn BY <2>1, <2>2, RequestParts
  <2>4. cl[via[r]] = "closed" BY <2>1 DEF FailureInv, FailedInv
  <2> QED BY <2>2, <2>3, <2>4 DEF FailureInv, LinkInv, GoneInv
<1> QED BY <1>1, <1>2, InitFailureInv, Inductive, PTL DEF Spec
=============================================================================
