-------------------------- MODULE ClientPromiseProofs --------------------------
(***************************************************************************)
(* What follows from ClientPromise, for any calls, connections and policy: *)
(* a call has one request on the wire at most.  QuicChannelProofs and      *)
(* SystemProofs show that the channel, and the client of the system, keep  *)
(* the promise, and so have these properties too.                          *)
(***************************************************************************)
EXTENDS ClientPromise, TLAPS

(* No connection is the value for none. *)
ClientAssumption == None \notin Conn /\ MaxAttempts \in Nat

Turning == {"lookup", "waiting", "sending", "failing", "awaiting"}

TypeInv == /\ cl \in [Conn -> Live \cup {"none", "closed"}]
           /\ slot \in {Vacant, Dialing} \cup {Ready(k) : k \in Conn}
           /\ st \in [Call -> {"idle"} \cup Turning \cup Ended]
           /\ attempt \in [Call -> 0 .. MaxAttempts]
           /\ via \in [Call -> Conn \cup {None}]
           /\ sent \subseteq Conn \X Call \X (0 .. MaxAttempts - 1)

(* A call in its loop has a turn left, and one that sends a connection.    *)
TurnInv == \A r \in Call : /\ st[r] = "idle" => attempt[r] = 0
                           /\ st[r] \in Turning => attempt[r] < MaxAttempts
                           /\ st[r] = "sending" => via[r] \in Conn

(* What waits for a response, or has had one, has asked. *)
AskedInv == \A r \in Call : st[r] \in {"awaiting", "answered"} => Asked(r) \in sent

IInv == TypeInv /\ TurnInv /\ OneRequest /\ AskedInv

(* At first nothing has been asked. *)
LEMMA InitIInv == ASSUME ClientAssumption, Init PROVE IInv
  BY DEF ClientAssumption, Init, IInv, TypeInv, TurnInv, OneRequest, AskedInv, Turning, Ended

(* A request is made of its call's connection and turn. *)
LEMMA AskedParts == \A r \in Call : Asked(r)[2] = r
  BY DEF Asked

(* A step that moves calls which have asked nothing, and sends nothing.    *)
LEMMA SilentStep ==
    ASSUME IInv, UNCHANGED sent,
           attempt' \in [Call -> 0 .. MaxAttempts], via' \in [Call -> Conn \cup {None}],
           st' \in [Call -> {"idle"} \cup Turning \cup Ended],
           \A r \in Call : st[r] \in {"awaiting"} \cup Ended =>
              /\ via'[r] = via[r] /\ attempt'[r] = attempt[r]
              /\ st'[r] = st[r] \/ (st[r] = "awaiting" /\ st'[r] \in Ended),
           \A r \in Call : st'[r] \in {"awaiting", "answered"} => st[r] \in {"awaiting", "answered"}
    PROVE  OneRequest' /\ AskedInv'
  <1>1. OneRequest'
    <2> SUFFICES ASSUME NEW q \in sent
                 PROVE  /\ st'[q[2]] \in {"awaiting"} \cup Ended
                        /\ q = <<via'[q[2]], q[2], attempt'[q[2]]>>
      BY DEF OneRequest, Asked
    <2>1. q[2] \in Call /\ st[q[2]] \in {"awaiting"} \cup Ended
          /\ q = <<via[q[2]], q[2], attempt[q[2]]>>
      BY DEF IInv, TypeInv, OneRequest, Asked
    <2> QED
      BY <2>1
  <1>2. AskedInv'
    BY DEF IInv, AskedInv, Asked, Ended
  <1> QED
    BY <1>1, <1>2

(* Each step of the promise keeps the invariant. *)
LEMMA StepIInv == ASSUME ClientAssumption, IInv, [Next]_vars PROVE IInv'
  <1>0. /\ TypeInv /\ TurnInv /\ None \notin Conn /\ MaxAttempts \in Nat
        /\ \A r \in Call : attempt[r] \in 0 .. MaxAttempts
    BY DEF ClientAssumption, IInv, TypeInv
  <1>1. ASSUME NEW r \in Call, Begin(r) PROVE IInv'
    <2>1. TypeInv' /\ TurnInv'
      BY <1>0, <1>1 DEF Begin, Moves, TypeInv, TurnInv, Turning
    <2>2. OneRequest' /\ AskedInv'
      BY <1>1, <2>1, SilentStep DEF Begin, Moves, TypeInv, Ended
    <2> QED
      BY <2>1, <2>2 DEF IInv
  <1>2. ASSUME NEW r \in Call, Lookup(r) PROVE IInv'
    <2>1. TypeInv' /\ TurnInv'
      BY <1>0, <1>2 DEF Lookup, Use, Join, Dial, Moves, TypeInv, TurnInv, Turning
    <2>2. OneRequest' /\ AskedInv'
      BY <1>0, <1>2, <2>1, SilentStep DEF Lookup, Use, Join, Dial, Moves, TypeInv, Ended
    <2> QED
      BY <2>1, <2>2 DEF IInv
  <1>3. ASSUME NEW k \in Conn, DialOk(k) PROVE IInv'
    <2>1. TypeInv' /\ TurnInv'
      BY <1>0, <1>3 DEF DialOk, Waiting, TypeInv, TurnInv, Turning
    <2>2. OneRequest' /\ AskedInv'
      BY <1>0, <1>3, <2>1, SilentStep DEF DialOk, Waiting, TypeInv, Ended
    <2> QED
      BY <2>1, <2>2 DEF IInv
  <1>4. CASE DialErr
    <2>1. TypeInv' /\ TurnInv'
      BY <1>0, <1>4 DEF DialErr, Waiting, TypeInv, TurnInv, Turning
    <2>2. OneRequest' /\ AskedInv'
      BY <1>0, <1>4, <2>1, SilentStep DEF DialErr, Waiting, TypeInv, Ended
    <2> QED
      BY <2>1, <2>2 DEF IInv
  <1>5. ASSUME NEW r \in Call, SendOk(r) PROVE IInv'
    <2>1. /\ via[r] \in Conn /\ attempt[r] \in 0 .. MaxAttempts - 1
          /\ Asked(r) \in Conn \X Call \X (0 .. MaxAttempts - 1)
      BY <1>0, <1>5 DEF SendOk, Moves, TurnInv, Turning, Asked
    <2>2. TypeInv' /\ TurnInv'
      BY <1>0, <1>5, <2>1 DEF SendOk, Moves, TypeInv, TurnInv, Turning
    <2>3. OneRequest'
      BY <1>0, <1>5, AskedParts DEF SendOk, Moves, IInv, TypeInv, OneRequest, Asked, Ended
    <2>4. AskedInv'
      BY <1>0, <1>5 DEF SendOk, Moves, IInv, TypeInv, AskedInv, Asked
    <2> QED
      BY <2>2, <2>3, <2>4 DEF IInv
  <1>6. ASSUME NEW r \in Call, SendErr(r) PROVE IInv'
    <2>1. TypeInv' /\ TurnInv'
      BY <1>0, <1>6 DEF SendErr, Moves, TypeInv, TurnInv, Turning
    <2>2. OneRequest' /\ AskedInv'
      BY <1>0, <1>6, <2>1, SilentStep DEF SendErr, Moves, TypeInv, Ended
    <2> QED
      BY <2>1, <2>2 DEF IInv
  <1>7. ASSUME NEW r \in Call, Continue(r) PROVE IInv'
    <2> DEFINE to == IF attempt[r] + 1 = MaxAttempts THEN "failed" ELSE "lookup"
    <2>1. /\ st[r] = "failing" /\ st' = [st EXCEPT ![r] = to]
          /\ attempt' = [attempt EXCEPT ![r] = @ + 1]
          /\ UNCHANGED <<cl, via, sent>> /\ slot' \in {slot, Vacant}
      BY <1>7 DEF Continue, Moves
    <2>2. /\ attempt[r] + 1 \in 0 .. MaxAttempts /\ to \in {"failed", "lookup"}
          /\ to = "lookup" => attempt[r] + 1 < MaxAttempts
      BY <1>0, <2>1 DEF TurnInv, Turning
    <2> HIDE DEF to
    <2>3. TypeInv' /\ TurnInv'
      BY <1>0, <2>1, <2>2 DEF TypeInv, TurnInv, Turning, Ended
    <2>4. OneRequest' /\ AskedInv'
      BY <1>0, <2>1, <2>2, <2>3, SilentStep DEF TypeInv, Ended
    <2> QED
      BY <2>3, <2>4 DEF IInv
  <1>8. ASSUME NEW r \in Call, ResponseOk(r) \/ Fail(r) PROVE IInv'
    <2>1. TypeInv' /\ TurnInv'
      BY <1>0, <1>8 DEF ResponseOk, Fail, Moves, TypeInv, TurnInv, Turning, Ended
    <2>2. OneRequest' /\ AskedInv'
      BY <1>0, <1>8, <2>1, SilentStep DEF ResponseOk, Fail, Moves, TypeInv, Turning, Ended
    <2> QED
      BY <2>1, <2>2 DEF IInv
  <1>9. ASSUME NEW k \in Conn, Goaway(k) \/ Close(k) PROVE IInv'
    BY <1>0, <1>9
    DEF Goaway, Close, IInv, TypeInv, TurnInv, OneRequest, AskedInv, Asked, Live
  <1>10. CASE UNCHANGED vars
    BY <1>10 DEF vars, IInv, TypeInv, TurnInv, OneRequest, AskedInv, Asked
  <1> QED
    BY <1>1, <1>2, <1>3, <1>4, <1>5, <1>6, <1>7, <1>8, <1>9, <1>10 DEF Next

(* A call that is in its loop has a turn left and nothing on the wire.     *)
THEOREM Inductive == ASSUME ClientAssumption PROVE Spec => []IInv
  <1>1. Init => IInv
    BY InitIInv
  <1>2. IInv /\ [Next]_vars => IInv'
    BY StepIInv
  <1> QED
    BY <1>1, <1>2, PTL DEF Spec

(* A call has one request on the wire at most, whatever turns it takes.    *)
THEOREM OneRequestCorrect == ASSUME ClientAssumption PROVE Spec => []OneRequest
  <1>1. Spec => []IInv
    BY Inductive
  <1>2. IInv => OneRequest
    BY DEF IInv
  <1> QED
    BY <1>1, <1>2, PTL

(* What is answered has been asked. *)
THEOREM AnswerAskedCorrect == ASSUME ClientAssumption PROVE Spec => []AnswerAsked
  <1>1. Spec => []IInv
    BY Inductive
  <1>2. IInv => AnswerAsked
    BY DEF IInv, AskedInv, AnswerAsked
  <1> QED
    BY <1>1, <1>2, PTL

(* No call is given a connection that had closed: each has been looked at, *)
(* or dialled, for that turn.                                              *)
THEOREM NeverGivenClosedCorrect == ASSUME ClientAssumption PROVE Spec => NeverGivenClosed
  <1> DEFINE Given == \A r \in Call : via'[r] \notin {via[r], None} => cl[via'[r]] # "closed"
  <1>1. IInv /\ [Next]_vars => Given
    <2> SUFFICES ASSUME IInv, [Next]_vars PROVE Given
      OBVIOUS
    <2>1. ASSUME NEW r \in Call, Lookup(r) PROVE Given
      BY <2>1 DEF Lookup, Use, Join, Dial, IInv, TypeInv
    <2>2. ASSUME NEW k \in Conn, DialOk(k) PROVE Given
      BY <2>2 DEF DialOk, IInv, TypeInv
    <2>3. ASSUME NEW r \in Call, SendErr(r) \/ Fail(r) PROVE Given
      BY <2>3 DEF SendErr, Fail, IInv, TypeInv
    <2>4. CASE UNCHANGED via
      BY <2>4
    <2> QED
      BY <2>1, <2>2, <2>3, <2>4
      DEF Next, vars, Begin, DialErr, SendOk, Continue, ResponseOk, Goaway, Close
  <1>2. Spec => []IInv
    BY Inductive
  <1>3. Spec => [][Given]_vars
    BY <1>1, <1>2, PTL DEF Spec
  <1> QED
    BY <1>3 DEF NeverGivenClosed
=============================================================================
