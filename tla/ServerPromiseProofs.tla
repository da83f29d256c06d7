-------------------------- MODULE ServerPromiseProofs --------------------------
(***************************************************************************)
(* What follows from ServerPromise, for any connections, requests and      *)
(* limit: nothing that serve has started is lost to a graceful stop, and   *)
(* no request is executed twice.  QuicServerProofs shows that the server   *)
(* keeps the promise, and so has these properties too.                     *)
(***************************************************************************)
EXTENDS ServerPromise, TLAPS

(* A request comes on one of the connections. *)
ConnOfTyped == \A q \in Request : ConnOf(q) \in Conn

TypeInv == /\ conn \in [Conn -> {"none", "serving", "closing", "gone"}]
           /\ running \subseteq admitted
           /\ admitted \subseteq Request

(* A handler has a connection, and while nothing is forced that connection *)
(* waits for it; a server that is down of its own accord has none left.    *)
HandlerInv == /\ \A q \in running : conn[ConnOf(q)] \in {"serving", "closing", "gone"}
              /\ ~forced => \A q \in running : conn[ConnOf(q)] # "gone"

DownInv == /\ ~forced => killed = {}
           /\ phase = "off" => /\ \A c \in Conn : conn[c] = "none"
                               /\ running = {}
           /\ phase = "down" /\ ~forced => /\ \A c \in Conn : conn[c] \in {"none", "gone"}
                                           /\ running = {}

IInv == TypeInv /\ HandlerInv /\ DownInv

(* At first nothing is connected and nothing runs. *)
LEMMA InitIInv == Init => IInv
  BY DEF Init, IInv, TypeInv, HandlerInv, DownInv

(* Each step of the promise keeps the invariant. *)
LEMMA StepIInv == ASSUME ConnOfTyped, IInv, [Next]_vars PROVE IInv'
  <1> USE DEF ConnOfTyped, IInv, TypeInv, HandlerInv, DownInv
  <1>1. CASE Start
    BY <1>1 DEF Start
  <1>2. CASE Shutdown
    BY <1>2 DEF Shutdown
  <1>3. CASE Return
    BY <1>3 DEF Return
  <1>4. CASE ForcedReturn
    BY <1>4 DEF ForcedReturn
  <1>5. ASSUME NEW c \in Conn, Open(c) PROVE IInv'
    BY <1>5 DEF Open, Move
  <1>6. ASSUME NEW c \in Conn, StopServing(c) PROVE IInv'
    BY <1>6 DEF StopServing, Move
  <1>7. ASSUME NEW c \in Conn, Close(c) PROVE IInv'
    BY <1>7 DEF Close, Move, RunningOn
  <1>8. ASSUME NEW c \in Conn, Abort(c) PROVE IInv'
    BY <1>8 DEF Abort, Move
  <1>9. ASSUME NEW q \in Request, Admit(q) PROVE IInv'
    BY <1>9 DEF Admit
  <1>10. ASSUME NEW q \in Request, Finish(q) PROVE IInv'
    BY <1>10 DEF Finish
  <1>11. ASSUME NEW q \in Request, Kill(q) PROVE IInv'
    BY <1>11 DEF Kill
  <1>12. CASE UNCHANGED vars
    BY <1>12 DEF vars
  <1> QED
    BY <1>1, <1>2, <1>3, <1>4, <1>5, <1>6, <1>7, <1>8, <1>9, <1>10, <1>11, <1>12 DEF Next

(* In every reachable state handlers belong to connections that have not   *)
(* ended, and a server that is down has neither.                           *)
THEOREM Inductive == ASSUME ConnOfTyped PROVE Spec => []IInv
  <1>1. IInv /\ [Next]_vars => IInv'
    BY StepIInv
  <1> QED
    BY <1>1, InitIInv, PTL DEF Spec

(* Unless it was forced, serve returns with every handler ended by itself. *)
THEOREM GracefulReturnCorrect == ASSUME ConnOfTyped PROVE Spec => []GracefulReturn
  <1>1. IInv => GracefulReturn
    BY DEF IInv, DownInv, GracefulReturn
  <1> QED
    BY <1>1, Inductive, PTL

(* Every handler has a connection that waits for it, unless it was forced. *)
THEOREM HandlersOwnedCorrect == ASSUME ConnOfTyped PROVE Spec => []HandlersOwned
  <1>1. IInv => HandlersOwned
    BY DEF IInv, HandlerInv, HandlersOwned
  <1> QED
    BY <1>1, Inductive, PTL

(* A connection that has left its loop takes up no more requests. *)
THEOREM DrainOnlyShrinksCorrect == ASSUME ConnOfTyped PROVE Spec => DrainOnlyShrinks
  <1> DEFINE Shrinks ==
        \A c \in Conn : conn[c] \in {"closing", "gone"} => RunningOn(c)' \subseteq RunningOn(c)
  <1>1. IInv /\ [Next]_vars => [Shrinks]_vars
    <2> SUFFICES ASSUME IInv, Next PROVE Shrinks
      BY DEF vars
    <2>1. ASSUME NEW q \in Request, Admit(q) PROVE Shrinks
      BY <2>1 DEF Admit, RunningOn
    <2>2. ASSUME running' \subseteq running PROVE Shrinks
      BY <2>2 DEF RunningOn
    <2> QED
      BY <2>1, <2>2 DEF Next, Start, Shutdown, Return, ForcedReturn, Open, StopServing,
                        Close, Abort, Finish, Kill
  <1> QED
    BY <1>1, Inductive, PTL DEF Spec, DrainOnlyShrinks

(* No request is executed twice. *)
THEOREM ExecutedOnceCorrect == Spec => ExecutedOnce
  <1> DEFINE Once == \A q \in admitted \ running : q \notin running'
  <1>1. [Next]_vars => [Once]_vars
    <2> SUFFICES ASSUME Next PROVE Once
      BY DEF vars
    <2>1. ASSUME NEW q \in Request, Admit(q) PROVE Once
      BY <2>1 DEF Admit
    <2>2. ASSUME running' \subseteq running PROVE Once
      BY <2>2
    <2> QED
      BY <2>1, <2>2 DEF Next, Start, Shutdown, Return, ForcedReturn, Open, StopServing,
                        Close, Abort, Finish, Kill
  <1> QED
    BY <1>1, PTL DEF Spec, ExecutedOnce
=============================================================================
