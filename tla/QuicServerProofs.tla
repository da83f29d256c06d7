--------------------------- MODULE QuicServerProofs ---------------------------
(***************************************************************************)
(* The server conserves its permits and keeps ServerPromise, for any       *)
(* connections, streams and limits.                                        *)
(***************************************************************************)
EXTENDS QuicServer, FiniteSetTheorems, TLAPS

ConnState == {"none", "arriving", "handshake", "refused", "ended", "aborted"} \cup TaskRunning
StreamState == {"none", "open", "sent", "running", "done", "rejected", "aborted"}

TypeInv == /\ srv \in {"starting", "running", "draining", "returned"}
           /\ handshake \in Conn \cup {None}
           /\ cs \in [Conn -> ConnState]
           /\ link \in [Conn -> {"none", "open", "lost", "dropped", "forced"}]
           /\ current \in [Conn -> Request \cup {None}]
           /\ qs \in [Request -> StreamState]

(* A connection task that resolves a request holds it, and no other does. *)
ResolvingInv == \A c \in Conn :
                    IF cs[c] = "resolving"
                    THEN /\ current[c] \in RequestsOf(c)
                         /\ qs[current[c]] \in {"open", "sent"}
                    ELSE current[c] = None

(* A running handler has a connection task that will join or abort it, and *)
(* so its connection is not dropped.                                       *)
OwnerInv == /\ \A q \in Request :
                  qs[q] = "running" => cs[ConnOf(q)] \in {"loop", "resolving", "joining", "aborted"}
            /\ \A c \in Conn : link[c] = "dropped" => cs[c] = "ended"

(* How far the serve loop has come, its handshake and tasks know. *)
SrvInv == /\ handshake # None => cs[handshake] = "handshake"
          /\ srv = "starting" => \A c \in Conn : cs[c] \in {"none", "refused"}
          /\ srv = "returned" /\ ~forced => \A c \in Conn : cs[c] \notin TaskRunning
          /\ \A c \in Conn : cs[c] = "aborted" => srv = "returned" /\ forced

IInv == TypeInv /\ ResolvingInv /\ OwnerInv /\ SrvInv

PermitInv == /\ permits \in Nat
             /\ IsFiniteSet(AllRunning)
             /\ permits + Cardinality(AllRunning) = StreamLimit

-----------------------------------------------------------------------------
(* Requests and their connections, and that None is neither. *)
LEMMA RequestFacts ==
    /\ \A q \in Request : ConnOf(q) \in Conn /\ q \in RequestsOf(ConnOf(q))
    /\ \A c \in Conn : \A q \in RequestsOf(c) : q \in Request /\ ConnOf(q) = c
    /\ None \notin Conn /\ None \notin Request
  BY ServerAssumption DEF Request, RequestsOf, ConnOf

(* At first nothing has connected and nothing runs. *)
LEMMA InitIInv == Init => IInv
  BY RequestFacts
  DEF Init, IInv, TypeInv, ResolvingInv, OwnerInv, SrvInv, ConnState, StreamState, TaskRunning

(* Each step of the serve loop, of a connection or of a request keeps it. *)
LEMMA StepIInv == ASSUME IInv, [Next]_vars PROVE IInv'
  <1> USE RequestFacts DEF IInv, TypeInv, ResolvingInv, OwnerInv, SrvInv,
                           ConnState, StreamState, TaskRunning, serveVars
  <1>1. CASE StartOk
    BY <1>1 DEF StartOk
  <1>2. CASE StartErr
    BY <1>2 DEF StartErr
  <1>3. CASE SignalArm
    BY <1>3 DEF SignalArm
  <1>4. CASE EndpointLost
    BY <1>4 DEF EndpointLost
  <1>5. CASE Drained
    BY <1>5 DEF Drained, AllTasksEnded
  <1>6. CASE GraceTimeout
    BY <1>6 DEF GraceTimeout, AllTasksEnded
  <1>7. CASE SignalCompletes
    BY <1>7 DEF SignalCompletes
  <1>8. ASSUME NEW c \in Conn, AcceptStart(c) PROVE IInv'
    BY <1>8 DEF AcceptStart
  <1>9. ASSUME NEW c \in Conn, AcceptOk(c) PROVE IInv'
    BY <1>9 DEF AcceptOk
  <1>10. ASSUME NEW c \in Conn, AcceptErr(c) PROVE IInv'
    BY <1>10 DEF AcceptErr
  <1>11. ASSUME NEW c \in Conn, ClientConnects(c) PROVE IInv'
    BY <1>11 DEF ClientConnects
  <1>12. ASSUME NEW c \in Conn, PeerCloses(c) PROVE IInv'
    BY <1>12 DEF PeerCloses
  <1>13. ASSUME NEW c \in Conn, BuildOk(c) PROVE IInv'
    BY <1>13 DEF BuildOk
  <1>14. ASSUME NEW c \in Conn, BuildErr(c) PROVE IInv'
    BY <1>14 DEF BuildErr
  <1>15. ASSUME NEW c \in Conn, Dispatch(c) PROVE IInv'
    BY <1>15 DEF Dispatch, Back
  <1>16. ASSUME NEW c \in Conn, Overloaded(c) PROVE IInv'
    BY <1>16 DEF Overloaded, Back
  <1>17. ASSUME NEW c \in Conn, ResolveErr(c) PROVE IInv'
    BY <1>17 DEF ResolveErr, Back
  <1>18. ASSUME NEW c \in Conn, CancelArm(c) PROVE IInv'
    BY <1>18 DEF CancelArm
  <1>19. ASSUME NEW c \in Conn, AcceptEnds(c) PROVE IInv'
    BY <1>19 DEF AcceptEnds
  <1>20. ASSUME NEW c \in Conn, JoinDone(c) PROVE IInv'
    BY <1>20 DEF JoinDone, Running
  <1>21. ASSUME NEW c \in Conn, AbortConnection(c) PROVE IInv'
    BY <1>21 DEF AbortConnection
  <1>22. ASSUME NEW q \in Request, ConnAccept(q) PROVE IInv'
    BY <1>22 DEF ConnAccept
  <1>23. ASSUME NEW q \in Request, ClientOpens(q) PROVE IInv'
    BY <1>23 DEF ClientOpens
  <1>24. ASSUME NEW q \in Request, ClientSendsHeaders(q) PROVE IInv'
    BY <1>24 DEF ClientSendsHeaders
  <1>25. ASSUME NEW q \in Request, HandlerDone(q) PROVE IInv'
    BY <1>25 DEF HandlerDone
  <1>26. ASSUME NEW q \in Request, AbortHandler(q) PROVE IInv'
    BY <1>26 DEF AbortHandler
  <1>27. CASE UNCHANGED vars
    BY <1>27 DEF vars
  <1> QED
    BY <1>1, <1>2, <1>3, <1>4, <1>5, <1>6, <1>7, <1>8, <1>9,
       <1>10, <1>11, <1>12, <1>13, <1>14, <1>15, <1>16, <1>17, <1>18,
       <1>19, <1>20, <1>21, <1>22, <1>23, <1>24, <1>25, <1>26, <1>27
    DEF Next, ServeStep, ConnStep, AcceptLost, ClientGoesAway, Stopped

(* In every reachable state tasks, requests and links agree: a handler has *)
(* a connection task that owns it, and serve knows of each task.           *)
THEOREM Inductive == Spec => []IInv
  <1>1. IInv /\ [Next]_vars => IInv'
    BY StepIInv
  <1> QED
    BY <1>1, InitIInv, PTL DEF Spec

-----------------------------------------------------------------------------
(* Permits.                                                                *)

(* The limit is a number. *)
LEMMA LimitNat == StreamLimit \in Nat
  BY ServerAssumption DEF StreamLimit

HasHandler == {"running", "done", "aborted"}

(* What the change of one request does to the sets of the promise. *)
LEMMA OneRequest ==
    ASSUME TypeInv, NEW q \in Request, NEW s \in StreamState, qs' = [qs EXCEPT ![q] = s]
    PROVE  /\ s = "running" => AllRunning' = AllRunning \cup {q}
           /\ s # "running" => AllRunning' = AllRunning \ {q}
           /\ s # "running" /\ qs[q] # "running" => AllRunning' = AllRunning
           /\ s \in HasHandler => Admitted' = Admitted \cup {q}
           /\ (s \in HasHandler <=> qs[q] \in HasHandler) => Admitted' = Admitted
           /\ s = "aborted" => Killed' = Killed \cup {q}
           /\ s # "aborted" /\ qs[q] # "aborted" => Killed' = Killed
           /\ q \in AllRunning <=> qs[q] = "running"
           /\ q \in Admitted <=> qs[q] \in HasHandler
  BY DEF TypeInv, AllRunning, Admitted, Killed, StreamState, HasHandler

(* A permit is taken with each handler, and given back with it. *)
LEMMA PermitTaken ==
    ASSUME PermitInv, NEW q, q \notin AllRunning, AllRunning' = AllRunning \cup {q},
           permits > 0, permits' = permits - 1
    PROVE  PermitInv'
  <1>1. /\ IsFiniteSet(AllRunning \cup {q})
        /\ Cardinality(AllRunning \cup {q}) = Cardinality(AllRunning) + 1
    BY FS_AddElement DEF PermitInv
  <1>2. Cardinality(AllRunning) \in Nat
    BY FS_CardinalityType DEF PermitInv
  <1> QED
    BY <1>1, <1>2, LimitNat DEF PermitInv, StreamLimit

(* A permit that comes back is the ended handler's. *)
LEMMA PermitReturned ==
    ASSUME PermitInv, NEW q \in AllRunning, AllRunning' = AllRunning \ {q}, permits' = permits + 1
    PROVE  PermitInv'
  <1>1. /\ IsFiniteSet(AllRunning \ {q})
        /\ Cardinality(AllRunning \ {q}) = Cardinality(AllRunning) - 1
    BY FS_RemoveElement DEF PermitInv
  <1>2. Cardinality(AllRunning) \in Nat
    BY FS_CardinalityType DEF PermitInv
  <1> QED
    BY <1>1, <1>2, LimitNat DEF PermitInv, StreamLimit

(* At first all permits are free. *)
LEMMA InitPermitInv == Init => PermitInv
  <1> SUFFICES ASSUME Init PROVE PermitInv
    OBVIOUS
  <1>1. AllRunning = {}
    BY DEF Init, AllRunning
  <1> QED
    BY <1>1, FS_EmptySet, LimitNat DEF Init, PermitInv

(* Each step takes or gives back as many permits as it starts or ends      *)
(* handlers.                                                               *)
LEMMA StepPermitInv == ASSUME IInv, PermitInv, [Next]_vars PROVE PermitInv'
  <1>1. ASSUME AllRunning' = AllRunning, permits' = permits PROVE PermitInv'
    BY <1>1 DEF PermitInv, StreamLimit
  <1>2. ASSUME NEW c \in Conn, Dispatch(c) PROVE PermitInv'
    <2>1. current[c] \in Request /\ qs[current[c]] = "sent"
      BY <1>2, RequestFacts DEF Dispatch, IInv, ResolvingInv
    <2>2. /\ current[c] \notin AllRunning
          /\ AllRunning' = AllRunning \cup {current[c]}
      BY <1>2, <2>1, OneRequest DEF Dispatch, IInv, StreamState
    <2> QED
      BY <1>2, <2>2, PermitTaken DEF Dispatch
  <1>3. ASSUME NEW q \in Request, HandlerDone(q) \/ AbortHandler(q) PROVE PermitInv'
    <2>1. q \in AllRunning /\ AllRunning' = AllRunning \ {q}
      BY <1>3, OneRequest DEF HandlerDone, AbortHandler, IInv, StreamState
    <2> QED
      BY <1>3, <2>1, PermitReturned DEF HandlerDone, AbortHandler
  <1>4. ASSUME NEW q \in Request, ClientOpens(q) \/ ClientSendsHeaders(q) PROVE PermitInv'
    <2>1. AllRunning' = AllRunning
      BY <1>4, OneRequest DEF ClientOpens, ClientSendsHeaders, IInv, StreamState
    <2> QED
      BY <1>1, <1>4, <2>1 DEF ClientOpens, ClientSendsHeaders
  <1>5. ASSUME NEW c \in Conn, Overloaded(c) \/ ResolveErr(c) PROVE PermitInv'
    <2>1. current[c] \in Request /\ qs[current[c]] \in {"open", "sent"}
      BY <1>5, RequestFacts DEF Overloaded, ResolveErr, IInv, ResolvingInv
    <2>2. AllRunning' = AllRunning
      BY <1>5, <2>1, OneRequest DEF Overloaded, ResolveErr, IInv, StreamState
    <2> QED
      BY <1>1, <1>5, <2>2 DEF Overloaded, ResolveErr
  <1>6. ASSUME NEW c \in Conn, AbortConnection(c) PROVE PermitInv'
    <2>1. current[c] # None => current[c] \in Request /\ qs[current[c]] \in {"open", "sent"}
      BY RequestFacts DEF IInv, ResolvingInv
    <2>2. AllRunning' = AllRunning
      BY <1>6, <2>1, OneRequest DEF AbortConnection, IInv, StreamState, AllRunning
    <2> QED
      BY <1>1, <1>6, <2>2 DEF AbortConnection
  <1>7. ASSUME UNCHANGED <<qs, permits>> PROVE PermitInv'
    BY <1>1, <1>7 DEF AllRunning
  <1> QED
    BY <1>2, <1>3, <1>4, <1>5, <1>6, <1>7
    DEF Next, ServeStep, ConnStep, StartOk, StartErr, SignalArm, EndpointLost, Drained,
        GraceTimeout, SignalCompletes, AcceptStart, AcceptOk, AcceptErr, ClientConnects,
        PeerCloses, BuildOk, BuildErr, CancelArm, AcceptLost, ClientGoesAway, AcceptEnds,
        JoinDone, ConnAccept, Stopped, vars

(* Free permits and running handlers always add up to the limit. *)
THEOREM PermitInductive == Spec => []PermitInv
  <1>1. IInv /\ PermitInv /\ [Next]_vars => PermitInv'
    BY StepPermitInv
  <1> QED
    BY <1>1, InitPermitInv, Inductive, PTL DEF Spec

(* The server's variables keep their types, for any limit. *)
THEOREM TypeCorrect == Spec => []TypeOK
  <1> DEFINE Flags == /\ tls \in {None, "client", "server"}
                      /\ signal \in BOOLEAN /\ cancel \in BOOLEAN /\ forced \in BOOLEAN
  <1>1. Init => Flags
    BY DEF Init
  <1>2. Flags /\ [Next]_vars => Flags'
    <2> SUFFICES ASSUME Flags, [Next]_vars PROVE Flags'
      OBVIOUS
    <2>1. UNCHANGED tls
      BY DEF Next, ServeStep, ConnStep, StartOk, StartErr, SignalArm, EndpointLost, Drained,
             GraceTimeout, SignalCompletes, AcceptStart, AcceptOk, AcceptErr, ClientConnects,
             PeerCloses, BuildOk, BuildErr, ConnAccept, Dispatch, Overloaded, ResolveErr,
             CancelArm, AcceptLost, ClientGoesAway, AcceptEnds, JoinDone, AbortConnection,
             AbortHandler, HandlerDone, ClientOpens, ClientSendsHeaders, Stopped, vars, serveVars
    <2>2. /\ signal' = signal \/ signal' = TRUE
          /\ cancel' = cancel \/ cancel' = TRUE
          /\ forced' = forced \/ forced' = TRUE
      BY DEF Next, ServeStep, ConnStep, StartOk, StartErr, SignalArm, EndpointLost, Drained,
             GraceTimeout, SignalCompletes, AcceptStart, AcceptOk, AcceptErr, ClientConnects,
             PeerCloses, BuildOk, BuildErr, ConnAccept, Dispatch, Overloaded, ResolveErr,
             CancelArm, AcceptLost, ClientGoesAway, AcceptEnds, JoinDone, AbortConnection,
             AbortHandler, HandlerDone, ClientOpens, ClientSendsHeaders, Stopped, vars, serveVars
    <2> QED
      BY <2>1, <2>2, Zenon
  <1>3. IInv /\ PermitInv /\ Flags => TypeOK
    <2> SUFFICES ASSUME IInv, PermitInv, Flags PROVE TypeOK
      OBVIOUS
    <2>1. permits \in 0 .. StreamLimit
      BY FS_CardinalityType, LimitNat DEF PermitInv
    <2> QED
      BY <2>1 DEF IInv, TypeInv, TypeOK, ConnState, StreamState
  <1> QED
    BY <1>1, <1>2, <1>3, Inductive, PermitInductive, PTL DEF Spec

(* Every permit is free or held by one running handler, for any limit. *)
THEOREM PermitsConservedCorrect == Spec => []PermitsConserved
  <1>1. PermitInv => PermitsConserved
    BY DEF PermitInv, PermitsConserved
  <1> QED
    BY <1>1, PermitInductive, PTL

(* A graceful shutdown destroys no active stream. *)
THEOREM ActiveStreamsKeptCorrect == Spec => []ActiveStreamsKept
  <1>1. IInv => ActiveStreamsKept
    BY RequestFacts DEF IInv, TypeInv, OwnerInv, ActiveStreamsKept, Running
  <1> QED
    BY <1>1, Inductive, PTL

-----------------------------------------------------------------------------
(* The refinement: each step of the server is a step of ServerPromise or   *)
(* changes nothing that the promise speaks of.                             *)

(* What the change of one connection does to the promise. *)
LEMMA OneStanding ==
    ASSUME TypeInv, NEW c \in Conn, NEW s \in ConnState, cs' = [cs EXCEPT ![c] = s]
    PROVE  /\ Standings' = [Standings EXCEPT ![c] = Standing(s)]
           /\ Standings[c] = Standing(cs[c])
  BY DEF TypeInv, Standings

(* Steps that leave the requests alone are nothing to the promise's sets. *)
LEMMA SameRequests ==
    ASSUME UNCHANGED qs
    PROVE  UNCHANGED <<AllRunning, Admitted, Killed>>
  BY DEF AllRunning, Admitted, Killed

(* Nor are steps of others to the phase of the server. *)
LEMMA SamePhase == ASSUME UNCHANGED srv PROVE UNCHANGED Phase
  BY DEF Phase

(* Nor steps of others to the standing of the connections. *)
LEMMA SameStandings == ASSUME UNCHANGED cs PROVE UNCHANGED Standings
  BY DEF Standings

(* A connection whose standing stays what it was. *)
LEMMA StandingKept ==
    ASSUME TypeInv, NEW c \in Conn, NEW s \in ConnState,
           cs' = [cs EXCEPT ![c] = s], Standing(s) = Standing(cs[c])
    PROVE  UNCHANGED Standings
  BY DEF TypeInv, Standings

(* Both modules count with the same operator. *)
LEMMA SameCardinality == Promised!Cardinality(AllRunning) = Cardinality(AllRunning)
  BY DEF Cardinality, Promised!Cardinality

(* The initial states map to the promise's. *)
LEMMA InitPromised == Init => Promised!Init
  BY DEF Init, Promised!Init, Phase, Standings, Standing, AllRunning, Admitted, Killed

(* Requests that get no handler are nothing to the promise. *)
LEMMA RequestKept ==
    ASSUME TypeInv, NEW q \in Request, NEW s \in {"open", "sent", "rejected"},
           qs[q] \in {"none", "open", "sent"}, qs' = [qs EXCEPT ![q] = s]
    PROVE  UNCHANGED <<AllRunning, Admitted, Killed>>
  BY OneRequest DEF StreamState, HasHandler

(* Each step of the server maps to a step of the promise or to none. *)
LEMMA StepPromised ==
    ASSUME IInv, PermitInv, [Next]_vars PROVE [Promised!Next]_Promised!vars
  <1> USE DEF IInv
  <1>1. CASE StartOk \/ StartErr
    <2>1. UNCHANGED <<Standings, AllRunning, Admitted, Killed>>
      BY <1>1, SameRequests, SameStandings DEF StartOk, StartErr
    <2>2. Phase = "off" /\ Phase' \in {"up", "down"} /\ forced' = forced
      BY <1>1 DEF StartOk, StartErr, Phase
    <2> QED
      BY <2>1, <2>2 DEF Promised!Next, Promised!Start
  <1>2. CASE SignalArm \/ EndpointLost
    <2>1. UNCHANGED <<AllRunning, Admitted, Killed>>
      BY <1>2, SameRequests DEF SignalArm, EndpointLost
    <2>2. UNCHANGED Standings
      BY <1>2 DEF SignalArm, EndpointLost, Standings, Standing, TypeInv
    <2>3. Phase = "up" /\ Phase' = "draining" /\ forced' = forced
      BY <1>2 DEF SignalArm, EndpointLost, Phase
    <2> QED
      BY <2>1, <2>2, <2>3 DEF Promised!Next, Promised!Shutdown
  <1>3. CASE Drained
    <2>1. UNCHANGED <<Standings, AllRunning, Admitted, Killed>>
      BY <1>3, SameRequests, SameStandings DEF Drained
    <2>2. Phase = "draining" /\ Phase' = "down" /\ forced' = forced
      BY <1>3 DEF Drained, Phase
    <2>3. AllRunning = {}
      BY <1>3, RequestFacts DEF Drained, AllTasksEnded, AllRunning, OwnerInv, SrvInv, TaskRunning
    <2>4. \A c \in Conn : Standings[c] \in {"none", "gone"}
      BY <1>3 DEF Drained, AllTasksEnded, Standings, Standing, TaskRunning
    <2> QED
      BY <2>1, <2>2, <2>3, <2>4 DEF Promised!Next, Promised!Return
  <1>4. CASE GraceTimeout
    <2>1. UNCHANGED <<Standings, AllRunning, Admitted, Killed>>
      BY <1>4, SameRequests, SameStandings DEF GraceTimeout
    <2>2. Phase = "draining" /\ Phase' = "down" /\ forced' = TRUE
      BY <1>4 DEF GraceTimeout, Phase
    <2> QED
      BY <2>1, <2>2 DEF Promised!Next, Promised!ForcedReturn
  <1>5. ASSUME NEW c \in Conn, AcceptOk(c) PROVE Promised!Next
    <2>1. UNCHANGED <<Phase, AllRunning, Admitted, Killed>> /\ forced' = forced
      BY <1>5, SameRequests, SamePhase DEF AcceptOk
    <2>2. Phase = "up" /\ cs[c] = "handshake"
      BY <1>5, RequestFacts DEF AcceptOk, Phase, SrvInv
    <2>3. Standings' = [Standings EXCEPT ![c] = "serving"] /\ Standings[c] = "none"
      BY <1>5, <2>2, OneStanding DEF AcceptOk, Standing, ConnState, TaskRunning
    <2> QED
      BY <2>1, <2>2, <2>3 DEF Promised!Next, Promised!Open, Promised!Move
  <1>6. ASSUME NEW c \in Conn, BuildErr(c) \/ JoinDone(c) PROVE Promised!Next
    <2>1. UNCHANGED <<Phase, AllRunning, Admitted, Killed>> /\ forced' = forced
      BY <1>6, SameRequests, SamePhase DEF BuildErr, JoinDone, serveVars
    <2>2. \A q \in AllRunning : ConnOf(q) # c
      BY <1>6, RequestFacts DEF BuildErr, JoinDone, AllRunning, Running, OwnerInv
    <2>3. Standings' = [Standings EXCEPT ![c] = "gone"] /\ Standings[c] \in {"serving", "closing"}
      BY <1>6, OneStanding DEF BuildErr, JoinDone, Standing, ConnState
    <2> QED
      BY <2>1, <2>2, <2>3 DEF Promised!Next, Promised!Close, Promised!Move, Promised!RunningOn
  <1>7. ASSUME NEW c \in Conn, CancelArm(c) \/ AcceptEnds(c) PROVE Promised!Next
    <2>1. UNCHANGED <<Phase, AllRunning, Admitted, Killed>> /\ forced' = forced
      BY <1>7, SameRequests, SamePhase DEF CancelArm, AcceptEnds, serveVars
    <2>2. Standings' = [Standings EXCEPT ![c] = "closing"] /\ Standings[c] = "serving"
      BY <1>7, OneStanding DEF CancelArm, AcceptEnds, Standing, ConnState, TaskRunning
    <2> QED
      BY <2>1, <2>2 DEF Promised!Next, Promised!StopServing, Promised!Move
  <1>8. ASSUME NEW c \in Conn, Dispatch(c) PROVE Promised!Next
    <2> DEFINE q == current[c]
    <2>1. q \in Request /\ ConnOf(q) = c /\ qs[q] = "sent"
      BY <1>8, RequestFacts DEF Dispatch, ResolvingInv
    <2>2. /\ q \notin Admitted
          /\ AllRunning' = AllRunning \cup {q}
          /\ Admitted' = Admitted \cup {q}
          /\ Killed' = Killed
      BY <1>8, <2>1, OneRequest DEF Dispatch, StreamState, HasHandler
    <2>3. UNCHANGED <<Phase, Standings>> /\ forced' = forced /\ Standings[c] = "serving"
      <3>1. Standing("loop") = "serving" /\ Standing(cs[c]) = "serving"
        BY <1>8 DEF Dispatch, Standing
      <3> QED
        BY <1>8, <3>1, StandingKept, OneStanding, SamePhase
        DEF Dispatch, Back, serveVars, ConnState, TaskRunning
    <2>4. Cardinality(AllRunning) < StreamLimit
      <3>1. Cardinality(AllRunning) \in Nat
        BY FS_CardinalityType DEF PermitInv
      <3> QED
        BY <1>8, <3>1, LimitNat DEF Dispatch, PermitInv
    <2> QED
      BY <2>1, <2>2, <2>3, <2>4, SameCardinality DEF Promised!Next, Promised!Admit
  <1>9. ASSUME NEW q \in Request, HandlerDone(q) PROVE Promised!Next
    <2>1. UNCHANGED <<Phase, Standings>> /\ forced' = forced
      BY <1>9, SamePhase, SameStandings DEF HandlerDone, serveVars
    <2>2. /\ q \in AllRunning /\ AllRunning' = AllRunning \ {q}
          /\ Admitted' = Admitted /\ Killed' = Killed
      BY <1>9, OneRequest DEF HandlerDone, StreamState, HasHandler
    <2> QED
      BY <2>1, <2>2 DEF Promised!Next, Promised!Finish
  <1>10. ASSUME NEW c \in Conn, AbortConnection(c) PROVE Promised!Next
    <2>1. UNCHANGED <<AllRunning, Admitted, Killed>>
      <3>1. CASE current[c] = None
        BY <1>10, <3>1, SameRequests DEF AbortConnection
      <3>2. CASE current[c] # None
        <4>1. current[c] \in Request /\ qs[current[c]] \in {"open", "sent"}
          BY <3>2, RequestFacts DEF ResolvingInv
        <4> QED
          BY <1>10, <3>2, <4>1, RequestKept DEF AbortConnection
      <3> QED
        BY <3>1, <3>2
    <2>2. UNCHANGED Phase /\ forced' = forced /\ forced
      BY <1>10, SamePhase DEF AbortConnection, serveVars, SrvInv
    <2>3. Standings' = [Standings EXCEPT ![c] = "gone"] /\ Standings[c] \in {"serving", "closing"}
      BY <1>10, OneStanding DEF AbortConnection, Standing, ConnState, TaskRunning
    <2> QED
      BY <2>1, <2>2, <2>3 DEF Promised!Next, Promised!Abort, Promised!Move
  <1>11. ASSUME NEW q \in Request, AbortHandler(q) PROVE Promised!Next
    <2>1. UNCHANGED <<Phase, Standings>> /\ forced' = forced
      BY <1>11, SamePhase, SameStandings DEF AbortHandler, serveVars
    <2>2. forced /\ Standings[ConnOf(q)] = "gone"
      BY <1>11, RequestFacts DEF AbortHandler, SrvInv, Standings, Standing
    <2>3. /\ q \in AllRunning /\ AllRunning' = AllRunning \ {q}
          /\ Admitted' = Admitted /\ Killed' = Killed \cup {q}
      BY <1>11, OneRequest DEF AbortHandler, StreamState, HasHandler
    <2> QED
      BY <2>1, <2>2, <2>3 DEF Promised!Next, Promised!Kill
  <1>12. ASSUME NEW c \in Conn,
                \/ AcceptStart(c) \/ AcceptErr(c) \/ ClientConnects(c) \/ BuildOk(c)
                \/ \E q \in RequestsOf(c) : ConnAccept(q)
         PROVE  UNCHANGED Promised!vars
    <2>1. UNCHANGED <<Phase, AllRunning, Admitted, Killed>> /\ forced' = forced
      BY <1>12, SameRequests, SamePhase
      DEF AcceptStart, AcceptErr, ClientConnects, BuildOk, ConnAccept, serveVars
    <2>2. UNCHANGED Standings
      <3>1. CASE AcceptErr(c)
        <4>1. cs[c] = "handshake"
          BY <3>1, RequestFacts DEF AcceptErr, SrvInv
        <4> QED
          BY <3>1, <4>1, StandingKept DEF AcceptErr, Standing, ConnState
      <3>2. CASE AcceptStart(c)
        BY <3>2, StandingKept DEF AcceptStart, Standing, ConnState
      <3>3. CASE ClientConnects(c)
        BY <3>3, StandingKept DEF ClientConnects, Standing, ConnState
      <3>4. CASE BuildOk(c)
        BY <3>4, StandingKept DEF BuildOk, Standing, ConnState, TaskRunning
      <3>5. CASE \E q \in RequestsOf(c) : ConnAccept(q)
        <4>1. cs[c] = "loop" /\ cs' = [cs EXCEPT ![c] = "resolving"]
          BY <3>5, RequestFacts DEF ConnAccept
        <4> QED
          BY <4>1, StandingKept DEF Standing, ConnState, TaskRunning
      <3> QED
        BY <1>12, <3>1, <3>2, <3>3, <3>4, <3>5
    <2> QED
      BY <2>1, <2>2 DEF Promised!vars
  <1>13. ASSUME NEW c \in Conn, Overloaded(c) \/ ResolveErr(c) PROVE UNCHANGED Promised!vars
    <2>1. current[c] \in Request /\ qs[current[c]] \in {"open", "sent"}
      BY <1>13, RequestFacts DEF Overloaded, ResolveErr, ResolvingInv
    <2>2. UNCHANGED <<AllRunning, Admitted, Killed>>
      BY <1>13, <2>1, RequestKept DEF Overloaded, ResolveErr
    <2>3. Standing("loop") = Standing(cs[c])
      BY <1>13 DEF Overloaded, ResolveErr, Standing
    <2>4. UNCHANGED <<Phase, Standings>> /\ forced' = forced
      BY <1>13, <2>3, StandingKept, SamePhase
      DEF Overloaded, ResolveErr, Back, serveVars, ConnState, TaskRunning
    <2> QED
      BY <2>2, <2>4 DEF Promised!vars
  <1>14. ASSUME NEW q \in Request, ClientOpens(q) \/ ClientSendsHeaders(q)
         PROVE  UNCHANGED Promised!vars
    <2>1. UNCHANGED <<AllRunning, Admitted, Killed>>
      BY <1>14, RequestKept DEF ClientOpens, ClientSendsHeaders
    <2>2. UNCHANGED <<Phase, Standings>> /\ forced' = forced
      BY <1>14, SamePhase, SameStandings DEF ClientOpens, ClientSendsHeaders, serveVars
    <2> QED
      BY <2>1, <2>2 DEF Promised!vars
  <1>15. ASSUME UNCHANGED <<srv, forced, cs, qs>> PROVE UNCHANGED Promised!vars
    BY <1>15, SameRequests, SamePhase, SameStandings DEF Promised!vars
  <1>16. ASSUME NEW c \in Conn, PeerCloses(c) PROVE UNCHANGED Promised!vars
    BY <1>15, <1>16 DEF PeerCloses, serveVars
  <1>17. CASE SignalCompletes \/ Stopped \/ UNCHANGED vars
    BY <1>15, <1>17 DEF SignalCompletes, Stopped, vars
  <1> QED
    BY <1>1, <1>2, <1>3, <1>4, <1>5, <1>6, <1>7, <1>8, <1>9, <1>10, <1>11, <1>12, <1>13,
       <1>14, <1>16, <1>17, RequestFacts
    DEF Next, ServeStep, ConnStep, AcceptLost, ClientGoesAway

(* The server, with all its tasks, keeps its promise. *)
THEOREM ServerPromisedCorrect == Spec => ServerPromised
  <1>1. IInv /\ PermitInv /\ [Next]_vars => [Promised!Next]_Promised!vars
    BY StepPromised
  <1> QED
    BY <1>1, InitPromised, Inductive, PermitInductive, PTL DEF Spec, ServerPromised, Promised!Spec

-----------------------------------------------------------------------------
(* With the promise the server has what follows from it.                   *)

Kept == INSTANCE ServerPromiseProofs WITH
            ConnOf <- ConnOf, Limit <- StreamLimit,
            phase <- Phase, conn <- Standings,
            running <- AllRunning, admitted <- Admitted, killed <- Killed

(* The promise, as refined and as proved about, begins alike. *)
LEMMA SameInit == Promised!Init => Kept!Init
  BY DEF Promised!Init, Kept!Init

(* And takes the same steps. *)
LEMMA SameStep == [Promised!Next]_Promised!vars => [Kept!Next]_Kept!vars
  <1>1. Kept!Cardinality(AllRunning) = Promised!Cardinality(AllRunning)
    BY DEF Kept!Cardinality, Promised!Cardinality
  <1>2. ASSUME NEW q \in Request, Promised!Admit(q) PROVE Kept!Admit(q)
    BY <1>1, <1>2 DEF Promised!Admit, Kept!Admit
  <1>3. ASSUME NEW q \in Request, Promised!Finish(q) \/ Promised!Kill(q)
        PROVE  Kept!Finish(q) \/ Kept!Kill(q)
    BY <1>3 DEF Promised!Finish, Promised!Kill, Kept!Finish, Kept!Kill
  <1>4. ASSUME NEW c \in Conn, Promised!Open(c) \/ Promised!StopServing(c)
                                   \/ Promised!Close(c) \/ Promised!Abort(c)
        PROVE  Kept!Open(c) \/ Kept!StopServing(c) \/ Kept!Close(c) \/ Kept!Abort(c)
    BY <1>4 DEF Promised!Open, Promised!StopServing, Promised!Close, Promised!Abort,
                Promised!Move, Promised!RunningOn,
                Kept!Open, Kept!StopServing, Kept!Close, Kept!Abort, Kept!Move, Kept!RunningOn
  <1>5. ASSUME Promised!Start \/ Promised!Shutdown \/ Promised!Return \/ Promised!ForcedReturn
        PROVE  Kept!Start \/ Kept!Shutdown \/ Kept!Return \/ Kept!ForcedReturn
    BY <1>5 DEF Promised!Start, Promised!Shutdown, Promised!Return, Promised!ForcedReturn,
                Kept!Start, Kept!Shutdown, Kept!Return, Kept!ForcedReturn
  <1>6. UNCHANGED Promised!vars => UNCHANGED Kept!vars
    BY DEF Promised!vars, Kept!vars
  <1> QED
    BY <1>2, <1>3, <1>4, <1>5, <1>6 DEF Promised!Next, Kept!Next

(* So what is proved of the promise is true of the server. *)
LEMMA KeptSpec == Spec => Kept!Spec
  <1>1. IInv /\ PermitInv /\ [Next]_vars => [Kept!Next]_Kept!vars
    BY StepPromised, SameStep
  <1>2. Init => Kept!Init
    BY InitPromised, SameInit
  <1> QED
    BY <1>1, <1>2, Inductive, PermitInductive, PTL DEF Spec, Kept!Spec

(* Every request has one of the connections. *)
LEMMA KeptConnOf == Kept!ConnOfTyped
  BY RequestFacts DEF Kept!ConnOfTyped

(* Unless the grace period ran out, serve returns only after every handler *)
(* has ended by itself, and it aborts none.                                *)
THEOREM ServerReturnsGracefully ==
    Spec => []( ~forced => Killed = {} /\ (srv = "returned" => AllRunning = {}))
  <1>1. Kept!Spec => []Kept!GracefulReturn
    BY KeptConnOf, Kept!GracefulReturnCorrect
  <1>2. Kept!GracefulReturn => (~forced => Killed = {} /\ (srv = "returned" => AllRunning = {}))
    BY DEF Kept!GracefulReturn, Phase
  <1> QED
    BY <1>1, <1>2, KeptSpec, PTL

(* A connection task that has left its loop takes up no more requests. *)
THEOREM ServerDrainOnlyShrinks == Spec => Kept!DrainOnlyShrinks
  <1>1. Kept!Spec => Kept!DrainOnlyShrinks
    BY KeptConnOf, Kept!DrainOnlyShrinksCorrect
  <1> QED
    BY <1>1, KeptSpec, PTL

(* No request is executed twice. *)
THEOREM ServerExecutesOnce == Spec => Kept!ExecutedOnce
  <1>1. Kept!Spec => Kept!ExecutedOnce
    BY Kept!ExecutedOnceCorrect
  <1> QED
    BY <1>1, KeptSpec, PTL
=============================================================================
