--------------------------- MODULE QuicChannelProofs ---------------------------
(***************************************************************************)
(* For any calls, attempts and limit, a call conserves permits, sends its  *)
(* request once, does not leave its forwarder behind where it need not,    *)
(* uses the pool as the pool's specification allows, and keeps             *)
(* ClientPromise.                                                          *)
(***************************************************************************)
EXTENDS QuicChannel, FiniteSetTheorems, SequenceTheorems, TLAPS

Held == {r \in Call : st[r] \in Holding}

TypeInv == /\ st \in [Call -> {"idle", "queued"} \cup Holding \cup Ended]
           /\ attempt \in [Call -> 0 .. MaxAttempts]
           /\ sent \in [Call -> Nat]
           /\ forwarder \in [Call -> {"none", "running", "ended", "aborted"}]
           /\ outcome \in [Call -> {"none", "server", "grpc-status 4", "StreamIo", "RequestBuild",
                                    "RequestBuild: DeadlineExceeded", "RetriesExhausted"}]

(* A call in a turn of its loop has a turn left, and so a pool caller. *)
TurnInv == \A r \in Call : st[r] \in Holding => attempt[r] < MaxAttempts

(* What has been sent has left the loop, and before it is sent there is no *)
(* forwarder.                                                              *)
SentInv == \A r \in Call :
              /\ sent[r] <= 1
              /\ st[r] \notin {"awaiting"} \cup Ended => sent[r] = 0 /\ forwarder[r] = "none"

IInv == TypeInv /\ TurnInv /\ SentInv /\ ForwarderStopped

PermitInv == /\ free \in Nat
             /\ IsFiniteSet(Held)
             /\ free + Cardinality(Held) = Limit

-----------------------------------------------------------------------------
(* At first no call has begun. *)
LEMMA InitIInv == Init => IInv
  BY ChannelAssumption
  DEF Init, IInv, TypeInv, TurnInv, SentInv, ForwarderStopped, Holding, Ended

(* A call or its body ends after the request was sent, and its forwarder   *)
(* is aborted.                                                             *)
LEMMA OverIInv ==
    ASSUME IInv, NEW r \in Call, NEW to \in Ended,
           NEW why \in {"server", "grpc-status 4", "StreamIo"},
           st[r] \in {"awaiting", "body"},
           st' = [st EXCEPT ![r] = to], outcome' = [outcome EXCEPT ![r] = why],
           forwarder' = [forwarder EXCEPT ![r] = Aborted(r)],
           UNCHANGED <<attempt, sent>>
    PROVE  IInv'
  <1>1. Aborted(r) \in {"none", "ended", "aborted"}
    BY DEF Aborted, IInv, TypeInv
  <1>2. TypeInv' /\ TurnInv'
    BY <1>1 DEF IInv, TypeInv, TurnInv, Holding, Ended
  <1>3. SentInv'
    BY DEF IInv, TypeInv, SentInv, Ended
  <1>4. ForwarderStopped'
    BY <1>1 DEF IInv, TypeInv, ForwarderStopped, Ended
  <1> QED
    BY <1>2, <1>3, <1>4 DEF IInv

(* The head of the loop, in a turn that is one of the policy's or the one  *)
(* after the last.                                                         *)
LEMMA LoopTopIInv ==
    ASSUME IInv, NEW r \in Call, st[r] \in {"queued", "invalidating"},
           NEW n \in 0 .. MaxAttempts, NEW permits, LoopTop(r, n, permits),
           UNCHANGED <<sent, forwarder>>
    PROVE  IInv'
  <1> DEFINE to == IF n = MaxAttempts THEN "failed"
                   ELSE IF n = 0 THEN "connecting" ELSE "backoff"
             why == IF n < MaxAttempts THEN outcome[r]
                    ELSE IF n = 0 THEN "RetriesExhausted" ELSE "StreamIo"
  <1>1. /\ st' = [st EXCEPT ![r] = to]
        /\ attempt' = [attempt EXCEPT ![r] = n]
        /\ outcome' = [outcome EXCEPT ![r] = why]
    <2>1. CASE n = MaxAttempts
      <3>1. ~ (n < MaxAttempts)
        BY <2>1, ChannelAssumption
      <3> QED
        BY <2>1, <3>1 DEF LoopTop, AttemptsUsedUp
    <2>2. CASE n # MaxAttempts
      <3>1. n < MaxAttempts
        BY <2>2, ChannelAssumption
      <3>2. outcome = [outcome EXCEPT ![r] = outcome[r]]
        BY DEF IInv, TypeInv
      <3> QED
        BY <2>2, <3>1, <3>2 DEF LoopTop
    <2> QED
      BY <2>1, <2>2
  <1>2. /\ to \in Holding \cup {"failed"}
        /\ to \in Holding => n < MaxAttempts
    BY ChannelAssumption DEF Holding
  <1>3. sent[r] = 0 /\ forwarder[r] = "none"
    BY DEF IInv, SentInv, Ended
  <1>4. TypeInv'
    BY <1>1, <1>2 DEF IInv, TypeInv, Ended
  <1>5. TurnInv'
    BY <1>1, <1>2 DEF IInv, TypeInv, TurnInv, Holding
  <1>6. SentInv'
    BY <1>1, <1>3 DEF IInv, TypeInv, SentInv
  <1>7. ForwarderStopped'
    BY <1>1, <1>3 DEF IInv, TypeInv, ForwarderStopped
  <1> QED
    BY <1>4, <1>5, <1>6, <1>7 DEF IInv

(* No step of a call, a task or a connection breaks it. *)
LEMMA StepIInv == ASSUME IInv, [Next]_vars PROVE IInv'
  <1>1. ASSUME NEW r \in Call, Begin(r) PROVE IInv'
    BY <1>1 DEF Begin,
       IInv, TypeInv, TurnInv, SentInv, ForwarderStopped, Holding, Ended
  <1>2. ASSUME NEW r \in Call, Acquire(r) PROVE IInv'
    <2>1. 0 \in 0 .. MaxAttempts
      BY ChannelAssumption
    <2> QED
      BY <1>2, <2>1, LoopTopIInv DEF Acquire
  <1>3. ASSUME NEW r \in Call, BackoffOver(r) PROVE IInv'
    BY <1>3 DEF BackoffOver,
       IInv, TypeInv, TurnInv, SentInv, ForwarderStopped, Holding, Ended
  <1>4. ASSUME NEW r \in Call, Lookup(r) PROVE IInv'
    BY <1>4 DEF Lookup,
       IInv, TypeInv, TurnInv, SentInv, ForwarderStopped, Holding, Ended
  <1>5. ASSUME NEW r \in Call, Connected(r) PROVE IInv'
    BY <1>5 DEF Connected,
       IInv, TypeInv, TurnInv, SentInv, ForwarderStopped, Holding, Ended
  <1>6. ASSUME NEW r \in Call, SendOk(r) PROVE IInv'
    <2>1. sent[r] = 0 /\ attempt[r] < MaxAttempts
      BY <1>6 DEF SendOk, IInv, TurnInv, SentInv, Holding, Ended
    <2>2. /\ st' = [st EXCEPT ![r] = "awaiting"]
          /\ sent' = [sent EXCEPT ![r] = 1]
          /\ forwarder' = [forwarder EXCEPT ![r] = "running"]
          /\ UNCHANGED <<attempt, outcome>>
      BY <1>6, <2>1 DEF SendOk
    <2>3. TypeInv' /\ TurnInv'
      BY <2>1, <2>2 DEF IInv, TypeInv, TurnInv, Holding
    <2>4. SentInv'
      <3> SUFFICES ASSUME NEW p \in Call
                   PROVE  /\ sent'[p] <= 1
                          /\ st'[p] \notin {"awaiting"} \cup Ended
                                => sent'[p] = 0 /\ forwarder'[p] = "none"
        BY DEF SentInv
      <3>1. CASE p = r
        <4>1. sent'[p] = 1 /\ st'[p] = "awaiting"
          BY <2>2, <3>1 DEF IInv, TypeInv
        <4> QED
          BY <4>1
      <3>2. CASE p # r
        BY <2>2, <3>2 DEF IInv, TypeInv, SentInv
      <3> QED
        BY <3>1, <3>2
    <2>5. ForwarderStopped'
      BY <2>2 DEF IInv, TypeInv, ForwarderStopped
    <2> QED
      BY <2>3, <2>4, <2>5 DEF IInv
  <1>7. ASSUME NEW r \in Call, SendErr(r) \/ BuildErr(r) PROVE IInv'
    BY <1>7 DEF SendErr, BuildErr,
       IInv, TypeInv, TurnInv, SentInv, ForwarderStopped, Holding, Ended
  <1>8. ASSUME NEW r \in Call, InvalidateAndContinue(r) PROVE IInv'
    <2>1. attempt[r] + 1 \in 0 .. MaxAttempts
      <3>1. attempt[r] \in 0 .. MaxAttempts /\ attempt[r] < MaxAttempts
        BY <1>8 DEF InvalidateAndContinue, IInv, TypeInv, TurnInv, Holding
      <3> QED
        BY <3>1, ChannelAssumption
    <2> QED
      BY <1>8, <2>1, LoopTopIInv DEF InvalidateAndContinue
  <1>9. ASSUME NEW r \in Call, ResponseOk(r) \/ ResponseErr(r) PROVE IInv'
    <2>1. CASE ResponseOk(r)
      BY <2>1 DEF ResponseOk, IInv, TypeInv, TurnInv, SentInv, ForwarderStopped, Holding, Ended
    <2>2. CASE ResponseErr(r)
      BY <2>2, OverIInv DEF ResponseErr, Ended
    <2> QED
      BY <1>9, <2>1, <2>2
  <1>10. ASSUME NEW r \in Call, DeadlineFires(r) \/ UserDrops(r) PROVE IInv'
    <2>1. \E to \in {"failed", "dropped"}, why \in {"RequestBuild: DeadlineExceeded", "none"} :
              /\ DropFuture(r, to, why)
              /\ to = "dropped" \/ why = "RequestBuild: DeadlineExceeded"
      BY <1>10 DEF DeadlineFires, UserDrops
    <2>2. PICK to \in {"failed", "dropped"}, why \in {"RequestBuild: DeadlineExceeded", "none"} :
              /\ DropFuture(r, to, why)
              /\ to = "dropped" \/ why = "RequestBuild: DeadlineExceeded"
      BY <2>1
    <2>3. /\ st' = [st EXCEPT ![r] = to]
          /\ outcome' = [outcome EXCEPT ![r] = why]
          /\ UNCHANGED <<attempt, sent, forwarder>>
      BY <2>2 DEF DropFuture
    <2>4. TypeInv' /\ TurnInv'
      BY <2>3 DEF IInv, TypeInv, TurnInv, Holding, Ended
    <2>5. SentInv' /\ ForwarderStopped'
      BY <2>2, <2>3 DEF IInv, TypeInv, SentInv, ForwarderStopped, Holding, Ended
    <2> QED
      BY <2>4, <2>5 DEF IInv
  <1>11. ASSUME NEW r \in Call, BodyDeadline(r) \/ BodyDropped(r) PROVE IInv'
    BY <1>11, OverIInv DEF BodyDeadline, BodyDropped, CloseBody, Ended
  <1>12. ASSUME NEW r \in Call, ForwarderEnds(r) PROVE IInv'
    BY <1>12 DEF ForwarderEnds,
       IInv, TypeInv, TurnInv, SentInv, ForwarderStopped, Holding, Ended
  <1>13. CASE UNCHANGED callVars
    BY <1>13 DEF callVars,
       IInv, TypeInv, TurnInv, SentInv, ForwarderStopped, Holding, Ended
  <1> QED
    BY <1>1, <1>2, <1>3, <1>4, <1>5, <1>6, <1>7, <1>8, <1>9, <1>10, <1>11, <1>12, <1>13
    DEF Next, CallStep, PoolTask, ConnClose, Goaway, AllDone, vars

(* Calls in their loop have a turn left, and have sent nothing. *)
THEOREM Inductive == Spec => []IInv
  <1>1. IInv /\ [Next]_vars => IInv'
    BY StepIInv
  <1> QED
    BY <1>1, InitIInv, PTL DEF Spec

(* A call puts its request on the wire once at most, for any policy. *)
THEOREM SentOnceCorrect == Spec => []SentOnce
  <1>1. IInv => SentOnce
    BY DEF IInv, SentInv, SentOnce
  <1> QED
    BY <1>1, Inductive, PTL

(* Whatever ends a call or its response body, other than a drop of the     *)
(* future while it awaits the headers, stops the forwarder.                *)
THEOREM ForwarderStoppedCorrect == Spec => []ForwarderStopped
  <1>1. IInv => ForwarderStopped
    BY DEF IInv
  <1> QED
    BY <1>1, Inductive, PTL

-----------------------------------------------------------------------------
(* Permits.                                                                *)

(* What the change of one call does to the set of those that hold one. *)
LEMMA OneCall ==
    ASSUME TypeInv, NEW r \in Call, NEW to, st' = [st EXCEPT ![r] = to]
    PROVE  /\ to \in Holding => Held' = Held \cup {r}
           /\ to \notin Holding => Held' = Held \ {r}
           /\ r \in Held <=> st[r] \in Holding
  BY DEF TypeInv, Held

(* A call that goes from one state without a permit to another. *)
LEMMA StillWithout ==
    ASSUME TypeInv, NEW r \in Call, NEW to, st' = [st EXCEPT ![r] = to],
           st[r] \notin Holding, to \notin Holding
    PROVE  Held' = Held
  BY DEF TypeInv, Held

(* A call that keeps its permit, or its lack of one. *)
LEMMA PermitKept ==
    ASSUME PermitInv, Held' = Held, free' = free PROVE PermitInv'
  BY DEF PermitInv

(* A call that acquires a permit. *)
LEMMA PermitTaken ==
    ASSUME PermitInv, NEW r, r \notin Held, Held' = Held \cup {r},
           free > 0, free' = free - 1
    PROVE  PermitInv'
  <1>1. /\ IsFiniteSet(Held \cup {r})
        /\ Cardinality(Held \cup {r}) = Cardinality(Held) + 1
    BY FS_AddElement DEF PermitInv
  <1>2. Cardinality(Held) \in Nat
    BY FS_CardinalityType DEF PermitInv
  <1> QED
    BY <1>1, <1>2, ChannelAssumption DEF PermitInv

(* A call whose future is done or dropped. *)
LEMMA PermitReturned ==
    ASSUME PermitInv, NEW r \in Held, Held' = Held \ {r}, free' = free + 1
    PROVE  PermitInv'
  <1>1. /\ IsFiniteSet(Held \ {r})
        /\ Cardinality(Held \ {r}) = Cardinality(Held) - 1
    BY FS_RemoveElement DEF PermitInv
  <1>2. Cardinality(Held) \in Nat
    BY FS_CardinalityType DEF PermitInv
  <1> QED
    BY <1>1, <1>2, ChannelAssumption DEF PermitInv

(* At first all permits are free. *)
LEMMA InitPermitInv == Init => PermitInv
  <1> SUFFICES ASSUME Init PROVE PermitInv
    OBVIOUS
  <1>1. Held = {}
    BY DEF Init, Held, Holding
  <1> QED
    BY <1>1, FS_EmptySet, ChannelAssumption DEF Init, PermitInv

(* Each step of a call keeps its permit, takes one or gives it back. *)
LEMMA StepPermitInv == ASSUME IInv, PermitInv, [Next]_vars PROVE PermitInv'
  <1>0. TypeInv
    BY DEF IInv
  <1>1. ASSUME NEW r \in Call, Begin(r) PROVE PermitInv'
    <2>1. st[r] \notin Holding /\ "queued" \notin Holding
      BY <1>1 DEF Begin, Holding
    <2>2. Held' = Held
      BY <1>0, <1>1, <2>1, StillWithout DEF Begin
    <2> QED
      BY <1>1, <2>2, PermitKept DEF Begin
  <1>2. ASSUME NEW r \in Call, Acquire(r) PROVE PermitInv'
    <2>1. r \notin Held /\ free > 0
      BY <1>2 DEF Acquire, Held, Holding
    <2>2. CASE MaxAttempts = 0
      <3>1. st' = [st EXCEPT ![r] = "failed"] /\ free' = (free - 1) + 1
        BY <1>2, <2>2 DEF Acquire, LoopTop, AttemptsUsedUp
      <3>2. Held' = Held
        <4>1. st[r] \notin Holding /\ "failed" \notin Holding
          BY <1>2 DEF Acquire, Holding
        <4> QED
          BY <1>0, <3>1, <4>1, StillWithout
      <3>3. free' = free
        BY <3>1 DEF PermitInv
      <3> QED
        BY <3>2, <3>3, PermitKept
    <2>3. CASE MaxAttempts # 0
      <3>1. st' = [st EXCEPT ![r] = "connecting"] /\ free' = free - 1
        BY <1>2, <2>3 DEF Acquire, LoopTop
      <3>2. Held' = Held \cup {r}
        BY <1>0, <3>1, OneCall DEF Holding
      <3> QED
        BY <2>1, <3>1, <3>2, PermitTaken
    <2> QED
      BY <2>2, <2>3
  <1>3. ASSUME NEW r \in Call, NEW to \in Holding, st[r] \in Holding,
               st' = [st EXCEPT ![r] = to], free' = free
        PROVE  PermitInv'
    <2>1. Held' = Held
      BY <1>0, <1>3, OneCall
    <2> QED
      BY <1>3, <2>1, PermitKept
  <1>4. ASSUME NEW r \in Call, NEW to \in Ended, st[r] \in Holding,
               st' = [st EXCEPT ![r] = to], free' = free + 1
        PROVE  PermitInv'
    <2>1. r \in Held /\ Held' = Held \ {r}
      BY <1>0, <1>4, OneCall DEF Holding, Ended
    <2> QED
      BY <1>4, <2>1, PermitReturned
  <1>5. ASSUME NEW r \in Call, BackoffOver(r) PROVE PermitInv'
    BY <1>3, <1>5 DEF BackoffOver, Holding
  <1>6. ASSUME NEW r \in Call, Lookup(r) PROVE PermitInv'
    <2>1. CASE st' = [st EXCEPT ![r] = "sending"]
      BY <1>3, <1>6, <2>1 DEF Lookup, Holding
    <2>2. CASE UNCHANGED st
      BY <1>6, <2>2, PermitKept DEF Lookup, Held
    <2> QED
      BY <1>6, <2>1, <2>2 DEF Lookup
  <1>7. ASSUME NEW r \in Call, Connected(r) PROVE PermitInv'
    BY <1>3, <1>7 DEF Connected, Holding
  <1>8. ASSUME NEW r \in Call, SendOk(r) \/ SendErr(r) PROVE PermitInv'
    BY <1>3, <1>8 DEF SendOk, SendErr, Holding
  <1>9. ASSUME NEW r \in Call, BuildErr(r) \/ ResponseOk(r) \/ ResponseErr(r)
        PROVE  PermitInv'
    BY <1>4, <1>9 DEF BuildErr, ResponseOk, ResponseErr, Holding, Ended
  <1>10. ASSUME NEW r \in Call, InvalidateAndContinue(r) PROVE PermitInv'
    <2>1. st[r] \in Holding /\ LoopTop(r, attempt[r] + 1, free)
      BY <1>10 DEF InvalidateAndContinue, Holding
    <2>2. CASE attempt[r] + 1 = MaxAttempts
      BY <1>4, <2>1, <2>2 DEF LoopTop, AttemptsUsedUp, Ended
    <2>3. CASE attempt[r] + 1 # MaxAttempts
      BY <1>3, <2>1, <2>3 DEF LoopTop, Holding
    <2> QED
      BY <2>2, <2>3
  <1>11. ASSUME NEW r \in Call, NEW to \in {"failed", "dropped"}, NEW why,
                DropFuture(r, to, why)
         PROVE  PermitInv'
    <2>1. CASE st[r] \in Holding
      <3>1. free' = free + 1 /\ st' = [st EXCEPT ![r] = to]
        BY <1>11, <2>1 DEF DropFuture, Holding
      <3> QED
        BY <1>4, <2>1, <3>1 DEF Ended
    <2>2. CASE st[r] = "queued"
      <3>1. st[r] \notin Holding /\ to \notin Holding
        BY <2>2 DEF Holding
      <3>2. Held' = Held
        BY <1>0, <1>11, <3>1, StillWithout DEF DropFuture
      <3> QED
        BY <1>11, <3>1, <3>2, PermitKept DEF DropFuture
    <2> QED
      BY <1>11, <2>1, <2>2 DEF DropFuture
  <1>12. ASSUME NEW r \in Call, DeadlineFires(r) \/ UserDrops(r) PROVE PermitInv'
    BY <1>11, <1>12 DEF DeadlineFires, UserDrops
  <1>13. ASSUME NEW r \in Call, BodyDeadline(r) \/ BodyDropped(r) PROVE PermitInv'
    <2>1. st[r] = "body" /\ st' = [st EXCEPT ![r] = "closed"] /\ free' = free
      BY <1>13 DEF BodyDeadline, BodyDropped, CloseBody
    <2>2. st[r] \notin Holding /\ "closed" \notin Holding
      BY <2>1 DEF Holding
    <2>3. Held' = Held
      BY <1>0, <2>1, <2>2, StillWithout
    <2> QED
      BY <2>1, <2>3, PermitKept
  <1>14. CASE UNCHANGED <<st, free>>
    BY <1>14, PermitKept DEF Held
  <1> QED
    BY <1>1, <1>2, <1>5, <1>6, <1>7, <1>8, <1>9, <1>10, <1>12, <1>13, <1>14
    DEF Next, CallStep, ForwarderEnds, PoolTask, ConnClose, Goaway, AllDone, vars, callVars

(* Permits are neither lost nor minted on any of the ways out of a call,   *)
(* for any number of calls and any limit.                                  *)
THEOREM PermitsConservedCorrect == Spec => []PermitsConserved
  <1>1. IInv /\ PermitInv /\ [Next]_vars => PermitInv'
    BY StepPermitInv
  <1>2. PermitInv => PermitsConserved
    BY DEF PermitInv, PermitsConserved, Held
  <1> QED
    BY <1>1, <1>2, InitPermitInv, Inductive, PTL DEF Spec

-----------------------------------------------------------------------------
(* The pool.                                                               *)

(* A call in a turn of its loop is a caller of the pool. *)
LEMMA TurnIsCaller ==
    ASSUME IInv, NEW r \in Call, st[r] \in Holding PROVE Turn(r) \in PoolCaller
  <1>1. attempt[r] \in 0 .. MaxAttempts /\ attempt[r] < MaxAttempts
    BY DEF IInv, TypeInv, TurnInv
  <1> QED
    BY <1>1, ChannelAssumption DEF Turn, PoolCaller

(* Each step of the channel is a step of its pool or leaves it alone. *)
LEMMA StepPool == ASSUME IInv, [Next]_vars PROVE [Pool!Next]_poolVars
  <1>1. ASSUME NEW r \in Call, Lookup(r) \/ Connected(r) PROVE Pool!Next
    <2>1. Turn(r) \in PoolCaller
      BY <1>1, TurnIsCaller DEF Lookup, Connected, Holding
    <2> QED
      BY <1>1, <2>1 DEF Lookup, Connected, Pool!Next
  <1>2. ASSUME NEW r \in Call, InvalidateAndContinue(r) PROVE Pool!Next \/ UNCHANGED poolVars
    <2>1. Turn(r) \in PoolCaller
      BY <1>2, TurnIsCaller DEF InvalidateAndContinue, Holding
    <2> QED
      BY <1>2, <2>1 DEF InvalidateAndContinue, Pool!Next
  <1>3. ASSUME NEW r \in Call, DeadlineFires(r) \/ UserDrops(r)
        PROVE  Pool!Next \/ UNCHANGED poolVars
    <2>1. st[r] = "connecting" => Turn(r) \in PoolCaller
      BY TurnIsCaller DEF Holding
    <2> QED
      BY <1>3, <2>1 DEF DeadlineFires, UserDrops, DropFuture, Pool!Next
  <1>4. ASSUME NEW k \in PoolCaller, PoolTask(k) \/ ConnClose(k) PROVE Pool!Next
    BY <1>4 DEF PoolTask, ConnClose, Pool!Next
  <1>5. ASSUME NEW r \in Call,
               \/ Begin(r) \/ Acquire(r) \/ BackoffOver(r)
               \/ SendOk(r) \/ SendErr(r) \/ BuildErr(r)
               \/ ResponseOk(r) \/ ResponseErr(r)
               \/ BodyDeadline(r) \/ BodyDropped(r) \/ ForwarderEnds(r)
        PROVE  UNCHANGED poolVars
    BY <1>5 DEF Begin, Acquire, BackoffOver, SendOk, SendErr, BuildErr, ResponseOk,
                ResponseErr, BodyDeadline, BodyDropped, CloseBody, ForwarderEnds
  <1>6. ASSUME (\E k \in PoolCaller : Goaway(k)) \/ AllDone \/ UNCHANGED vars
        PROVE  UNCHANGED poolVars
    BY <1>6 DEF Goaway, AllDone, vars
  <1> QED
    BY <1>1, <1>2, <1>3, <1>4, <1>5, <1>6 DEF Next, CallStep

-----------------------------------------------------------------------------
(* With the pool's steps the channel has what is proved of the pool.       *)

Kept == INSTANCE ConnectionPoolProofs WITH Addr <- {Remote}, Caller <- PoolCaller

(* What the proofs about the pool assume of its constants. *)
LEMMA ReplyOK == Kept!ReplyAssumption
  BY ChannelAssumption DEF Kept!ReplyAssumption

(* The pool, as used and as proved about, begins alike. *)
LEMMA SameInit == Pool!Init => Kept!Init
  BY DEF Pool!Init, Kept!Init, Pool!Vacant, Kept!Vacant

(* And takes the same steps. *)
LEMMA SameStep == [Pool!Next]_poolVars => [Kept!Next]_(Kept!vars)
  <1> USE DEF Pool!Vacant, Pool!Connecting, Pool!Ready, Pool!IsClosed, Pool!IsConnecting,
              Pool!Stale, Pool!MustDial,
              Kept!Vacant, Kept!Connecting, Kept!Ready, Kept!IsClosed, Kept!IsConnecting,
              Kept!Stale, Kept!MustDial
  <1>1. ASSUME NEW c \in PoolCaller,
               Pool!ReuseReady(c) \/ Pool!JoinConnecting(c) \/ Pool!StartConnecting(c)
        PROVE  Kept!ReuseReady(c) \/ Kept!JoinConnecting(c) \/ Kept!StartConnecting(c)
    BY <1>1 DEF Pool!ReuseReady, Pool!JoinConnecting, Pool!StartConnecting,
                Kept!ReuseReady, Kept!JoinConnecting, Kept!StartConnecting
  <1>2. ASSUME NEW c \in PoolCaller,
               Pool!Receive(c) \/ Pool!Cancel(c) \/ Pool!Invalidate(c) \/ Pool!ConnClose(c)
        PROVE  Kept!Receive(c) \/ Kept!Cancel(c) \/ Kept!Invalidate(c) \/ Kept!ConnClose(c)
    BY <1>2 DEF Pool!Receive, Pool!Cancel, Pool!Invalidate, Pool!ConnClose,
                Kept!Receive, Kept!Cancel, Kept!Invalidate, Kept!ConnClose
  <1>3. ASSUME NEW t \in PoolCaller, Pool!TaskStep(t) PROVE Kept!TaskStep(t)
    <2>1. Pool!Publish(t) => Kept!Publish(t)
      BY DEF Pool!Publish, Kept!Publish
    <2> QED
      BY <1>3, <2>1
      DEF Pool!TaskStep, Pool!DialOk, Pool!DialErr, Pool!SessionOk, Pool!SessionErr,
          Kept!TaskStep, Kept!DialOk, Kept!DialErr, Kept!SessionOk, Kept!SessionErr
  <1>4. Pool!AllDone \/ UNCHANGED poolVars => UNCHANGED Kept!vars
    BY DEF Pool!AllDone, poolVars, Pool!vars, Kept!vars
  <1> QED
    BY <1>1, <1>2, <1>3, <1>4 DEF Pool!Next, Kept!Next

(* So what is proved of the pool is true in the channel. *)
LEMMA KeptSpec == Spec => Kept!Spec
  <1>1. IInv /\ [Next]_vars => [Kept!Next]_(Kept!vars)
    BY StepPool, SameStep
  <1>2. Init => Kept!Init
    BY SameInit DEF Init
  <1> QED
    BY <1>1, <1>2, Inductive, PTL DEF Spec, Kept!Spec

(* The channel never dials twice at once, however its calls retry, time    *)
(* out and invalidate.                                                     *)
THEOREM ChannelSingleFlight == Spec => []Kept!SingleFlight
  <1>1. Kept!ReplyAssumption
    BY ReplyOK
  <1>2. Kept!Spec => []Kept!SingleFlight
    BY <1>1, Kept!SingleFlightCorrect
  <1> QED
    BY <1>2, KeptSpec, PTL

(* The calls of the channel never take an open connection from the pool.   *)
THEOREM ChannelLiveEntryKept == Spec => Kept!LiveEntryKept
  <1>1. Kept!ReplyAssumption
    BY ReplyOK
  <1>2. Kept!Spec => Kept!LiveEntryKept
    BY <1>1, Kept!LiveEntryKeptCorrect
  <1> QED
    BY <1>2, KeptSpec, PTL

(* A retry is never given a connection it has already failed on and that   *)
(* has closed since, for any number of calls and attempts.                 *)
THEOREM NoRetryOnDeadConnectionCorrect == Spec => NoRetryOnDeadConnection
  <1> DEFINE Reconnects ==
        \A r \in Call :
          LET k == reply'[Turn(r)]
              before == {reply[<<r, n>>] : n \in 0 .. (attempt[r] - 1)}
          IN  attempt[r] < MaxAttempts /\ k # Link(r) /\ k \in before \ {Err}
                  => conn[k] = "open"
  <1>1. Kept!ReplyAssumption
    BY ReplyOK
  <1>2. IInv /\ Kept!IInv /\ [Next]_vars => [Reconnects]_vars
    <2> SUFFICES ASSUME IInv, Kept!IInv, [Next]_vars,
                        NEW r \in Call, NEW n \in 0 .. (attempt[r] - 1),
                        attempt[r] < MaxAttempts,
                        reply'[Turn(r)] # reply[Turn(r)],
                        reply'[Turn(r)] = reply[<<r, n>>],
                        reply'[Turn(r)] # Err
                 PROVE  conn[reply[<<r, n>>]] = "open"
      BY DEF Link
    <2>1. attempt[r] \in 0 .. MaxAttempts /\ MaxAttempts \in Nat
      BY ChannelAssumption DEF IInv, TypeInv
    <2>2. Turn(r) \in PoolCaller /\ <<r, n>> \in PoolCaller
      BY <2>1 DEF Turn, PoolCaller
    <2>3. [Kept!Next]_(Kept!vars)
      BY StepPool, SameStep
    <2> QED
      BY <1>1, <2>2, <2>3, Kept!GivenAgain
  <1>3. Kept!Spec => []Kept!IInv
    BY <1>1, Kept!Invariance
  <1> QED
    BY <1>2, <1>3, KeptSpec, Inductive, PTL DEF Spec, NoRetryOnDeadConnection
-----------------------------------------------------------------------------
(* The semaphore's queue.                                                  *)

(* It holds the calls that wait for a permit, and no others, once each: so *)
(* a call that is dropped finds its place in it, and no permit is handed   *)
(* to a call that has gone.                                                *)
QueueInv ==
    /\ queue \in Seq(Call)
    /\ \A r \in Call : st[r] = "queued" <=> \E i \in DOMAIN queue : queue[i] = r
    /\ \A i, j \in DOMAIN queue : queue[i] = queue[j] => i = j

(* q is s without what stood at i. *)
Without(q, s, i) ==
    /\ Len(q) = Len(s) - 1
    /\ \A j \in 1 .. Len(s) - 1 : q[j] = IF j < i THEN s[j] ELSE s[j + 1]

(* RemoveAt closes the gap that it leaves. *)
LEMMA RemoveAtFacts ==
    ASSUME NEW S, NEW s \in Seq(S), NEW i \in DOMAIN s
    PROVE  RemoveAt(s, i) \in Seq(S) /\ Without(RemoveAt(s, i), s, i)
  <1> DEFINE n == Len(s)
             before == SubSeq(s, 1, i - 1)
             after == SubSeq(s, i + 1, n)
  <1>1. n \in Nat /\ i \in 1 .. n /\ \A j \in 1 .. n : s[j] \in S
    BY ElementOfSeq
  <1>2. /\ before \in Seq(S) /\ Len(before) = i - 1
        /\ \A j \in 1 .. i - 1 : before[j] = s[j]
    <2>1. \A j \in 1 .. i - 1 : s[j] \in S
      BY <1>1
    <2>2. /\ before \in Seq(S)
          /\ Len(before) = IF 1 <= i - 1 THEN (i - 1) - 1 + 1 ELSE 0
          /\ \A j \in 1 .. (i - 1) - 1 + 1 : before[j] = s[1 + j - 1]
      BY <1>1, <2>1, SubSeqProperties
    <2> QED
      BY <1>1, <2>2
  <1>3. /\ after \in Seq(S) /\ Len(after) = n - i
        /\ \A j \in 1 .. n - i : after[j] = s[i + j]
    <2>1. \A j \in i + 1 .. n : s[j] \in S
      BY <1>1
    <2>2. /\ after \in Seq(S)
          /\ Len(after) = IF i + 1 <= n THEN n - (i + 1) + 1 ELSE 0
          /\ \A j \in 1 .. n - (i + 1) + 1 : after[j] = s[(i + 1) + j - 1]
      BY <1>1, <2>1, SubSeqProperties
    <2> QED
      BY <1>1, <2>2
  <1>4. /\ before \o after \in Seq(S)
        /\ Len(before \o after) = Len(before) + Len(after)
        /\ \A j \in 1 .. Len(before) + Len(after) :
              (before \o after)[j] = IF j <= Len(before) THEN before[j]
                                     ELSE after[j - Len(before)]
    BY <1>2, <1>3, ConcatProperties
  <1>5. RemoveAt(s, i) = before \o after
    BY DEF RemoveAt
  <1> HIDE DEF before, after
  <1>6. Len(before) + Len(after) = n - 1
    BY <1>1, <1>2, <1>3
  <1>7. ASSUME NEW j \in 1 .. n - 1
        PROVE  (before \o after)[j] = IF j < i THEN s[j] ELSE s[j + 1]
    <2>1. CASE j < i
      BY <1>1, <1>2, <1>4, <1>6, <2>1
    <2>2. CASE ~(j < i)
      <3>1. /\ j - (i - 1) \in 1 .. n - i /\ i + (j - (i - 1)) = j + 1
            /\ ~(j <= i - 1)
        BY <1>1, <2>2
      <3>2. (before \o after)[j] = after[j - (i - 1)]
        BY <1>2, <1>4, <1>6, <3>1
      <3>3. after[j - (i - 1)] = s[j + 1]
        BY <1>3, <3>1
      <3> QED
        BY <2>2, <3>2, <3>3
    <2> QED
      BY <2>1, <2>2
  <1> QED
    BY <1>4, <1>5, <1>6, <1>7 DEF Without

(* At first nobody waits. *)
LEMMA InitQueueInv == Init => QueueInv
  BY DEF Init, QueueInv

(* A call joins the queue at its end. *)
LEMMA Joined ==
    ASSUME TypeInv, QueueInv, NEW r \in Call, st[r] # "queued",
           st' = [st EXCEPT ![r] = "queued"], queue' = Append(queue, r)
    PROVE  QueueInv'
  <1> DEFINE n == Len(queue)
  <1>1. /\ n \in Nat /\ DOMAIN queue = 1 .. n
        /\ queue' \in Seq(Call) /\ Len(queue') = n + 1
        /\ \A i \in 1 .. n : queue'[i] = queue[i]
        /\ queue'[n + 1] = r
    BY AppendProperties DEF QueueInv
  <1>2. DOMAIN queue' = 1 .. n + 1
    BY <1>1
  <1>3. \A i \in 1 .. n : queue[i] # r
    BY <1>1 DEF QueueInv
  <1>4. \A p \in Call : st'[p] = IF p = r THEN "queued" ELSE st[p]
    BY DEF TypeInv
  <1>5. n + 1 \in 1 .. n + 1 /\ \A i \in 1 .. n + 1 : i \in 1 .. n \/ i = n + 1
    BY <1>1
  <1>6. \A i \in 1 .. n : i \in 1 .. n + 1
    BY <1>1
  <1> HIDE DEF n
  <1>7. ASSUME NEW p \in Call
        PROVE  st'[p] = "queued" <=> \E i \in DOMAIN queue' : queue'[i] = p
    BY <1>1, <1>2, <1>4, <1>5, <1>6 DEF QueueInv
  <1>8. ASSUME NEW i \in DOMAIN queue', NEW j \in DOMAIN queue', queue'[i] = queue'[j]
        PROVE  i = j
    BY <1>1, <1>2, <1>3, <1>5, <1>8 DEF QueueInv
  <1> QED
    BY <1>1, <1>7, <1>8 DEF QueueInv

(* A call leaves it, from its head with a permit or from anywhere without. *)
LEMMA Left ==
    ASSUME TypeInv, QueueInv, NEW r \in Call, NEW to, to # "queued",
           st' = [st EXCEPT ![r] = to],
           NEW k \in DOMAIN queue, queue[k] = r,
           queue' \in Seq(Call), Without(queue', queue, k)
    PROVE  QueueInv'
  <1> DEFINE n == Len(queue)
             From(j) == IF j < k THEN j ELSE j + 1
  <1>1. n \in Nat /\ DOMAIN queue = 1 .. n /\ k \in 1 .. n
    BY DEF QueueInv
  <1>2. DOMAIN queue' = 1 .. n - 1
    BY <1>1 DEF Without
  <1>3. \A j \in 1 .. n - 1 : /\ From(j) \in 1 .. n /\ From(j) # k
                              /\ queue'[j] = queue[From(j)]
    BY <1>1 DEF Without
  <1>4. \A i, j \in 1 .. n - 1 : From(i) = From(j) => i = j
    BY <1>1
  <1>5. \A i \in 1 .. n : i # k => \E j \in 1 .. n - 1 : From(j) = i
    <2> SUFFICES ASSUME NEW i \in 1 .. n, i # k PROVE \E j \in 1 .. n - 1 : From(j) = i
      OBVIOUS
    <2>1. CASE i < k
      <3>1. i \in 1 .. n - 1 /\ From(i) = i
        BY <1>1, <2>1
      <3> QED
        BY <3>1
    <2>2. CASE i > k
      <3>1. i - 1 \in 1 .. n - 1 /\ From(i - 1) = i
        BY <1>1, <2>2
      <3> QED
        BY <3>1
    <2> QED
      BY <1>1, <2>1, <2>2
  <1>6. \A p \in Call : st'[p] = IF p = r THEN to ELSE st[p]
    BY DEF TypeInv
  <1> HIDE DEF n, From
  <1>7. ASSUME NEW p \in Call
        PROVE  st'[p] = "queued" <=> \E i \in DOMAIN queue' : queue'[i] = p
    <2>1. CASE p = r
      BY <1>1, <1>2, <1>3, <1>6, <2>1 DEF QueueInv
    <2>2. CASE p # r
      <3>1. ASSUME NEW i \in 1 .. n, queue[i] = p PROVE \E j \in 1 .. n - 1 : queue'[j] = p
        BY <1>3, <1>5, <2>2, <3>1
      <3>2. ASSUME NEW j \in 1 .. n - 1, queue'[j] = p PROVE \E i \in 1 .. n : queue[i] = p
        BY <1>3, <3>2
      <3>3. st[p] = "queued" <=> \E i \in 1 .. n : queue[i] = p
        BY <1>1 DEF QueueInv
      <3> QED
        BY <1>2, <1>6, <2>2, <3>1, <3>2, <3>3
    <2> QED
      BY <2>1, <2>2
  <1>8. ASSUME NEW i \in DOMAIN queue', NEW j \in DOMAIN queue', queue'[i] = queue'[j]
        PROVE  i = j
    BY <1>1, <1>2, <1>3, <1>4, <1>8 DEF QueueInv
  <1> QED
    BY <1>7, <1>8 DEF QueueInv

(* Steps of calls that do not wait for a permit, and go on not to. *)
LEMMA NobodyMoved ==
    ASSUME TypeInv, QueueInv, UNCHANGED queue,
           \A r \in Call : st'[r] = "queued" <=> st[r] = "queued"
    PROVE  QueueInv'
  BY DEF QueueInv

(* Each step of a call keeps it in its place, or lets it join or leave.    *)
LEMMA StepQueueInv == ASSUME IInv, QueueInv, [Next]_vars PROVE QueueInv'
  <1>0. TypeInv
    BY DEF IInv
  <1>1. ASSUME NEW r \in Call, Begin(r) PROVE QueueInv'
    BY <1>0, <1>1, Joined DEF Begin
  <1>2. ASSUME NEW r \in Call, Acquire(r) PROVE QueueInv'
    <2>1. /\ queue \in Seq(Call) /\ queue # <<>> /\ queue[1] = r
          /\ 1 \in DOMAIN queue /\ queue' = Tail(queue)
      BY <1>2 DEF Acquire, QueueInv
    <2>2. queue' \in Seq(Call) /\ Without(queue', queue, 1)
      <3>1. /\ Tail(queue) \in Seq(Call) /\ Len(Tail(queue)) = Len(queue) - 1
            /\ \A j \in 1 .. Len(Tail(queue)) : Tail(queue)[j] = queue[j + 1]
        BY <2>1, HeadTailProperties
      <3>2. \A j \in 1 .. Len(queue) - 1 : ~(j < 1)
        BY <2>1
      <3> QED
        BY <2>1, <3>1, <3>2 DEF Without
    <2>3. \E to : to # "queued" /\ st' = [st EXCEPT ![r] = to]
      BY <1>2 DEF Acquire, LoopTop, AttemptsUsedUp
    <2> QED
      BY <1>0, <2>1, <2>2, <2>3, Left
  <1>3. ASSUME NEW r \in Call, DeadlineFires(r) \/ UserDrops(r) PROVE QueueInv'
    <2>1. PICK to \in {"failed", "dropped"} : \E why : DropFuture(r, to, why)
      BY <1>3 DEF DeadlineFires, UserDrops
    <2>2. st' = [st EXCEPT ![r] = to] /\ to # "queued"
      BY <2>1 DEF DropFuture
    <2>3. CASE st[r] = "queued" /\ LeaveQueue(r)
      <3>1. PICK i \in DOMAIN queue : queue[i] = r /\ queue' = RemoveAt(queue, i)
        BY <2>3 DEF LeaveQueue
      <3>2. queue' \in Seq(Call) /\ Without(queue', queue, i)
        BY <3>1, RemoveAtFacts DEF QueueInv
      <3> QED
        BY <1>0, <2>2, <3>1, <3>2, Left
    <2>4. CASE st[r] \in Holding /\ UNCHANGED queue
      BY <1>0, <2>2, <2>4, NobodyMoved DEF TypeInv, Holding
    <2> QED
      BY <2>1, <2>3, <2>4 DEF DropFuture
  <1>4. ASSUME NEW r \in Call,
               \/ BackoffOver(r) \/ Lookup(r) \/ Connected(r)
               \/ SendOk(r) \/ SendErr(r) \/ BuildErr(r)
               \/ ResponseOk(r) \/ ResponseErr(r)
               \/ BodyDeadline(r) \/ BodyDropped(r)
        PROVE  QueueInv'
    <2>1. /\ UNCHANGED queue /\ st[r] # "queued"
          /\ UNCHANGED st \/ \E to : to # "queued" /\ st' = [st EXCEPT ![r] = to]
      BY <1>4 DEF BackoffOver, Lookup, Connected, SendOk, SendErr, BuildErr, ResponseOk,
                  ResponseErr, BodyDeadline, BodyDropped, CloseBody
    <2> QED
      BY <1>0, <2>1, NobodyMoved DEF TypeInv
  <1>5. ASSUME NEW r \in Call, InvalidateAndContinue(r) PROVE QueueInv'
    <2>1. /\ UNCHANGED queue /\ st[r] # "queued"
          /\ \E to : to # "queued" /\ st' = [st EXCEPT ![r] = to]
      BY <1>5 DEF InvalidateAndContinue, LoopTop, AttemptsUsedUp
    <2> QED
      BY <1>0, <2>1, NobodyMoved DEF TypeInv
  <1>6. CASE UNCHANGED <<st, queue>>
    BY <1>0, <1>6, NobodyMoved
  <1> QED
    BY <1>1, <1>2, <1>3, <1>4, <1>5, <1>6
    DEF Next, CallStep, ForwarderEnds, PoolTask, ConnClose, Goaway, AllDone, vars, callVars

(* The semaphore's queue is made of the calls that wait, once each: what a *)
(* deadline or a drop relies on to take a call out of it.                  *)
THEOREM QueueCorrect == Spec => []QueueInv
  <1>1. IInv /\ QueueInv /\ [Next]_vars => QueueInv'
    BY StepQueueInv
  <1> QED
    BY <1>1, InitQueueInv, Inductive, PTL DEF Spec

-----------------------------------------------------------------------------
(* Types.                                                                  *)

(* What no other invariant says of the variables. *)
RestInv == timed \in [Call -> BOOLEAN] /\ draining \subseteq PoolCaller

(* No step changes who has a deadline, and only what is open drains. *)
LEMMA StepRestInv == ASSUME RestInv, [Next]_vars PROVE RestInv'
  <1>1. ASSUME NEW r \in Call,
               \/ Begin(r) \/ CallStep(r)
               \/ DeadlineFires(r) \/ UserDrops(r)
               \/ BodyDeadline(r) \/ BodyDropped(r) \/ ForwarderEnds(r)
        PROVE  UNCHANGED <<timed, draining>>
    BY <1>1 DEF Begin, CallStep, Acquire, BackoffOver, Lookup, Connected, SendOk, SendErr,
                BuildErr, InvalidateAndContinue, ResponseOk, ResponseErr, DeadlineFires,
                UserDrops, DropFuture, BodyDeadline, BodyDropped, CloseBody, ForwarderEnds
  <1>2. ASSUME NEW k \in PoolCaller, PoolTask(k) \/ ConnClose(k) \/ Goaway(k) PROVE RestInv'
    BY <1>2 DEF PoolTask, ConnClose, Goaway, callVars, RestInv
  <1>3. CASE AllDone \/ UNCHANGED vars
    BY <1>3 DEF AllDone, vars, callVars, RestInv
  <1> QED
    BY <1>1, <1>2, <1>3 DEF Next, RestInv

(* The permits that are left are at most all of them. *)
LEMMA FreeBounded == PermitInv => free \in 0 .. Limit
  <1> SUFFICES ASSUME PermitInv PROVE free \in 0 .. Limit
    OBVIOUS
  <1>1. Cardinality(Held) \in Nat
    BY FS_CardinalityType DEF PermitInv
  <1> QED
    BY <1>1, ChannelAssumption DEF PermitInv

(* Every variable of the channel and of its pool stays within its type.    *)
THEOREM ChannelTypeCorrect == Spec => []TypeOK
  <1>1. Kept!ReplyAssumption
    BY ReplyOK
  <1>2. Kept!Spec => []Kept!TypeOK
    BY <1>1, Kept!TypeCorrect
  <1>3. Kept!TypeOK => Pool!TypeOK
    BY DEF Kept!TypeOK, Pool!TypeOK, Kept!Slot, Pool!Slot, Kept!Vacant, Pool!Vacant,
           Kept!Connecting, Pool!Connecting, Kept!Ready, Pool!Ready, Kept!Live, Pool!Live
  <1>4. Init => RestInv
    BY DEF Init, RestInv
  <1>5. RestInv /\ [Next]_vars => RestInv'
    BY StepRestInv
  <1>6. IInv /\ PermitInv /\ [Next]_vars => PermitInv'
    BY StepPermitInv
  <1>7. IInv /\ PermitInv /\ QueueInv /\ RestInv /\ Pool!TypeOK => TypeOK
    BY FreeBounded DEF IInv, TypeInv, QueueInv, RestInv, TypeOK
  <1> QED
    BY <1>2, <1>3, <1>4, <1>5, <1>6, <1>7, KeptSpec, InitPermitInv, Inductive, QueueCorrect,
       PTL DEF Spec
-----------------------------------------------------------------------------
(* The promise.                                                            *)

(* Where a call stands in its turns: in those to come it has not been to   *)
(* the pool, it waits for the pool in the one it is in at most, and what   *)
(* it sends on is what the pool returned in that one.                      *)
TurnOK(r) ==
    /\ st[r] \in {"idle", "queued"} => attempt[r] = 0
    /\ \A n \in 0 .. MaxAttempts - 1 :
          /\ n > attempt[r] => pc[<<r, n>>] = "idle"
          /\ st[r] \in {"idle", "queued", "backoff"} /\ n = attempt[r] => pc[<<r, n>>] = "idle"
          /\ pc[<<r, n>>] = "waiting" => n = attempt[r] /\ st[r] = "connecting"
    /\ st[r] = "connecting" => pc[Turn(r)] \in {"idle", "waiting"}
    /\ st[r] = "awaiting" => sent[r] = 1
    /\ st[r] \in {"sending", "awaiting"} \/ sent[r] > 0 =>
          attempt[r] < MaxAttempts /\ pc[Turn(r)] = "returned" /\ Link(r) \in PoolCaller
TurnsInv == \A r \in Call : TurnOK(r)

(* The types that the proofs below need of the channel and its pool. *)
LEMMA TurnTypes ==
    ASSUME IInv, NEW r \in Call
    PROVE  /\ MaxAttempts \in Nat /\ attempt[r] \in 0 .. MaxAttempts /\ sent[r] \in Nat
           /\ attempt[r] < MaxAttempts => Turn(r) \in PoolCaller
           /\ \A n \in 0 .. MaxAttempts - 1 : <<r, n>> \in PoolCaller
           /\ st[r] \in Holding => attempt[r] \in 0 .. MaxAttempts - 1
           /\ st[r] \notin {"awaiting"} \cup Ended => sent[r] = 0
  <1>1. MaxAttempts \in Nat /\ attempt[r] \in 0 .. MaxAttempts /\ sent[r] \in Nat
    BY ChannelAssumption DEF IInv, TypeInv
  <1>2. st[r] \in Holding => attempt[r] < MaxAttempts
    BY DEF IInv, TurnInv
  <1>3. st[r] \notin {"awaiting"} \cup Ended => sent[r] = 0
    BY DEF IInv, SentInv
  <1> QED
    BY <1>1, <1>2, <1>3 DEF Turn, PoolCaller

(* A call whose turns have not changed. *)
LEMMA TurnFrame ==
    ASSUME IInv, NEW p \in Call, TurnOK(p),
           st'[p] = st[p], attempt'[p] = attempt[p], sent'[p] = sent[p],
           \A n \in 0 .. MaxAttempts - 1 :
              /\ pc'[<<p, n>>] = pc[<<p, n>>]
              /\ pc[<<p, n>>] = "returned" => reply'[<<p, n>>] = reply[<<p, n>>]
    PROVE  TurnOK(p)'
  <1>1. /\ MaxAttempts \in Nat /\ attempt[p] \in 0 .. MaxAttempts
        /\ attempt[p] < MaxAttempts => attempt[p] \in 0 .. MaxAttempts - 1
    BY TurnTypes
  <1>2. st[p] = "connecting" => attempt[p] < MaxAttempts
    BY DEF IInv, TurnInv, Holding
  <1> QED
    BY <1>1, <1>2 DEF TurnOK, Turn, Link

(* A step of one call, in which it goes to the pool in its own name only.  *)
LEMMA TurnsStep ==
    ASSUME IInv, TurnsInv, NEW r \in Call, TurnOK(r)',
           \A p \in Call \ {r} : st'[p] = st[p] /\ attempt'[p] = attempt[p] /\ sent'[p] = sent[p],
           \A c \in PoolCaller : c[1] # r => pc'[c] = pc[c] /\ reply'[c] = reply[c]
    PROVE  TurnsInv'
  <1> SUFFICES ASSUME NEW p \in Call, p # r PROVE TurnOK(p)'
    BY DEF TurnsInv
  <1>1. \A n \in 0 .. MaxAttempts - 1 : <<p, n>> \in PoolCaller /\ <<p, n>>[1] # r
    BY TurnTypes
  <1> QED
    BY <1>1, TurnFrame DEF TurnsInv

(* At first no call has been to the pool. *)
LEMMA InitTurnsInv == Init => TurnsInv
  <1> SUFFICES ASSUME Init, NEW r \in Call PROVE TurnOK(r)
    BY DEF TurnsInv
  <1>1. \A n \in 0 .. MaxAttempts - 1 : <<r, n>> \in PoolCaller
    BY DEF PoolCaller
  <1> QED
    BY <1>1, ChannelAssumption DEF Init, Pool!Init, TurnOK

(* No step of a call, a task or a connection breaks it. *)
LEMMA StepTurnsInv ==
    ASSUME IInv, Kept!TypeOK, TurnsInv, [Next]_vars
    PROVE  TurnsInv'
  <1>0. /\ TypeInv /\ MaxAttempts \in Nat
        /\ pc \in [PoolCaller -> {"idle", "waiting", "returned", "cancelled"}]
        /\ reply \in [PoolCaller -> PoolCaller \cup {Err, NoReply}]
    BY ChannelAssumption DEF IInv, Kept!TypeOK
  <1>1. ASSUME NEW r \in Call,
               \/ Begin(r) \/ BackoffOver(r)
               \/ SendErr(r) \/ BuildErr(r) \/ ResponseOk(r) \/ ResponseErr(r)
               \/ BodyDeadline(r) \/ BodyDropped(r) \/ ForwarderEnds(r)
        PROVE  TurnsInv'
    <2>1. TurnOK(r) /\ (st[r] = "connecting" => attempt[r] < MaxAttempts)
      BY DEF TurnsInv, IInv, TurnInv, Holding
    <2>2. /\ UNCHANGED <<pc, reply, attempt, sent>>
          /\ \A p \in Call \ {r} : st'[p] = st[p]
      BY <1>0, <1>1
      DEF Begin, BackoffOver, SendErr, BuildErr, ResponseOk, ResponseErr, BodyDeadline,
          BodyDropped, CloseBody, ForwarderEnds, poolVars, TypeInv
    <2>3. \/ st'[r] = st[r]
          \/ st[r] = "idle" /\ st'[r] = "queued"
          \/ st[r] = "backoff" /\ st'[r] = "connecting"
          \/ st'[r] \in {"invalidating", "failed", "body", "closed"} /\ st[r] # "connecting"
      BY <1>0, <1>1
      DEF Begin, BackoffOver, SendErr, BuildErr, ResponseOk, ResponseErr, BodyDeadline,
          BodyDropped, CloseBody, ForwarderEnds, TypeInv
    <2>4. st[r] = "backoff" => attempt[r] \in 0 .. MaxAttempts - 1
      BY TurnTypes DEF Holding
    <2>5. TurnOK(r)'
      BY <2>1, <2>2, <2>3, <2>4 DEF TurnOK, Turn, Link
    <2> QED
      BY <2>2, <2>5, TurnsStep
  <1>2. ASSUME NEW r \in Call, Acquire(r) PROVE TurnsInv'
    <2>1. /\ UNCHANGED <<pc, reply, sent>> /\ st[r] = "queued" /\ TurnOK(r)
          /\ attempt' = [attempt EXCEPT ![r] = 0]
          /\ \E to \in {"failed", "connecting"} :
                st' = [st EXCEPT ![r] = to] /\ (to = "connecting" => MaxAttempts # 0)
      BY <1>2 DEF Acquire, LoopTop, AttemptsUsedUp, poolVars, TurnsInv
    <2>2. sent[r] = 0
      BY <2>1, TurnTypes DEF Ended
    <2>3. /\ UNCHANGED attempt /\ st'[r] \in {"failed", "connecting"} /\ attempt[r] = 0
          /\ st'[r] = "connecting" => attempt[r] \in 0 .. MaxAttempts - 1
          /\ \A p \in Call \ {r} : st'[p] = st[p]
      <3>1. attempt[r] = 0
        BY <2>1 DEF TurnOK
      <3>2. attempt' = attempt
        BY <1>0, <2>1, <3>1 DEF TypeInv
      <3>3. MaxAttempts # 0 => 0 \in 0 .. MaxAttempts - 1
        BY <1>0
      <3> QED
        BY <1>0, <2>1, <3>1, <3>2, <3>3 DEF TypeInv
    <2>4. TurnOK(r)'
      BY <2>1, <2>2, <2>3 DEF TurnOK, Turn, Link
    <2> QED
      BY <2>1, <2>3, <2>4, TurnsStep
  <1>3. ASSUME NEW r \in Call, Lookup(r) \/ Connected(r) PROVE TurnsInv'
    <2>1. /\ st[r] = "connecting" /\ UNCHANGED <<attempt, sent>> /\ TurnOK(r)
          /\ attempt[r] \in 0 .. MaxAttempts - 1 /\ Turn(r) \in PoolCaller
          /\ sent[r] = 0
          /\ \A p \in Call \ {r} : st'[p] = st[p]
      <3>1. st[r] = "connecting" /\ UNCHANGED <<attempt, sent>> /\ TurnOK(r)
        BY <1>3 DEF Lookup, Connected, TurnsInv
      <3>2. \A p \in Call \ {r} : st'[p] = st[p]
        BY <1>0, <1>3 DEF Lookup, Connected, TypeInv
      <3> QED
        BY <3>1, <3>2, TurnTypes, TurnIsCaller DEF Holding, Ended
    <2>2. \E c, k : /\ pc' = [pc EXCEPT ![Turn(r)] = c]
                    /\ reply' = [reply EXCEPT ![Turn(r)] = k]
                    /\ \/ c = "waiting" /\ st'[r] = "connecting"
                       \/ c = "returned" /\ st'[r] = "invalidating"
                       \/ c = "returned" /\ st'[r] = "sending" /\ k \in PoolCaller
      <3>1. CASE Lookup(r)
        <4>1. CASE Pool!ReuseReady(Turn(r)) /\ st'[r] = "sending"
          <5>1. want[Turn(r)] \in {Remote} /\ map[want[Turn(r)]].tag = "ready"
            BY <2>1, <4>1 DEF Pool!ReuseReady, Kept!TypeOK
          <5>2. map[want[Turn(r)]] \in Kept!Slot
            BY <5>1 DEF Kept!TypeOK
          <5>3. map[want[Turn(r)]].conn \in PoolCaller
            BY <5>1, <5>2, ReplyOK, Kept!SlotShapes
          <5> QED
            BY <4>1, <5>3 DEF Pool!ReuseReady
        <4>2. CASE (Pool!JoinConnecting(Turn(r)) \/ Pool!StartConnecting(Turn(r))) /\ UNCHANGED st
          <5>1. reply' = [reply EXCEPT ![Turn(r)] = reply[Turn(r)]]
            BY <1>0, <4>2 DEF Pool!JoinConnecting, Pool!StartConnecting
          <5> QED
            BY <2>1, <4>2, <5>1 DEF Pool!JoinConnecting, Pool!StartConnecting
        <4> QED
          BY <1>0, <3>1, <4>1, <4>2 DEF Lookup, TypeInv
      <3>2. CASE Connected(r)
        <4>1. /\ pc' = [pc EXCEPT ![Turn(r)] = "returned"]
              /\ reply' = [reply EXCEPT ![Turn(r)] = Link(r)]
              /\ Link(r) \in PoolCaller \cup {Err}
          BY <1>0, <2>1, <3>2 DEF Connected, Pool!Receive, Link
        <4>2. st'[r] = IF Link(r) = Err THEN "invalidating" ELSE "sending"
          BY <1>0, <3>2 DEF Connected, TypeInv
        <4> QED
          BY <4>1, <4>2
      <3> QED
        BY <1>3, <3>1, <3>2
    <2>3. PICK c, k : /\ pc' = [pc EXCEPT ![Turn(r)] = c]
                      /\ reply' = [reply EXCEPT ![Turn(r)] = k]
                      /\ \/ c = "waiting" /\ st'[r] = "connecting"
                         \/ c = "returned" /\ st'[r] = "invalidating"
                         \/ c = "returned" /\ st'[r] = "sending" /\ k \in PoolCaller
      BY <2>2
    <2>4. /\ pc'[Turn(r)] = c /\ reply'[Turn(r)] = k
          /\ \A d \in PoolCaller \ {Turn(r)} : pc'[d] = pc[d] /\ reply'[d] = reply[d]
      BY <1>0, <2>1, <2>3
    <2>5. \A n \in 0 .. MaxAttempts - 1 : n # attempt[r] => pc'[<<r, n>>] = pc[<<r, n>>]
      BY <2>4, TurnTypes DEF Turn
    <2>6. Turn(r)' = Turn(r) /\ Link(r)' = k /\ pc'[<<r, attempt[r]>>] = c
      BY <2>1, <2>4 DEF Turn, Link
    <2>7. TurnOK(r)'
      BY <1>0, <2>1, <2>3, <2>4, <2>5, <2>6 DEF TurnOK
    <2>8. \A d \in PoolCaller : d[1] # r => pc'[d] = pc[d] /\ reply'[d] = reply[d]
      BY <2>4 DEF Turn
    <2> QED
      BY <2>1, <2>7, <2>8, TurnsStep
  <1>4. ASSUME NEW r \in Call, SendOk(r) PROVE TurnsInv'
    <2>1. /\ UNCHANGED <<pc, reply, attempt>> /\ st[r] = "sending" /\ st'[r] = "awaiting"
          /\ sent'[r] = 1 /\ TurnOK(r)
          /\ \A p \in Call \ {r} : st'[p] = st[p] /\ sent'[p] = sent[p]
      <3>1. sent[r] = 0
        BY <1>4, TurnTypes DEF SendOk, Ended
      <3>2. /\ st[r] = "sending" /\ st' = [st EXCEPT ![r] = "awaiting"]
            /\ sent' = [sent EXCEPT ![r] = 1] /\ UNCHANGED <<pc, reply, attempt>>
        BY <1>4, <3>1 DEF SendOk, poolVars
      <3> QED
        BY <1>0, <3>2 DEF TypeInv, TurnsInv
    <2>2. TurnOK(r)'
      BY <2>1 DEF TurnOK, Turn, Link
    <2> QED
      BY <2>1, <2>2, TurnsStep
  <1>5. ASSUME NEW r \in Call, InvalidateAndContinue(r) PROVE TurnsInv'
    <2>1. /\ st[r] = "invalidating" /\ UNCHANGED <<pc, reply, sent>> /\ TurnOK(r)
          /\ attempt' = [attempt EXCEPT ![r] = attempt[r] + 1]
          /\ \E to \in {"failed", "backoff", "connecting"} :
                st' = [st EXCEPT ![r] = to] /\ (to = "connecting" => attempt[r] + 1 = 0)
      BY <1>5
      DEF InvalidateAndContinue, LoopTop, AttemptsUsedUp, Pool!Invalidate, poolVars, TurnsInv
    <2>2. /\ attempt'[r] = attempt[r] + 1 /\ attempt[r] \in Nat /\ sent[r] = 0
          /\ st'[r] \in {"failed", "backoff"}
          /\ \A p \in Call \ {r} : st'[p] = st[p] /\ attempt'[p] = attempt[p]
      <3>1. attempt[r] \in Nat /\ sent[r] = 0
        BY <2>1, TurnTypes DEF Ended
      <3>2. PICK to \in {"failed", "backoff", "connecting"} :
              st' = [st EXCEPT ![r] = to] /\ (to = "connecting" => attempt[r] + 1 = 0)
        BY <2>1
      <3>3. attempt[r] + 1 # 0
        BY <3>1
      <3>4. attempt'[r] = attempt[r] + 1 /\ \A p \in Call \ {r} : attempt'[p] = attempt[p]
        BY <1>0, <2>1 DEF TypeInv
      <3>5. st'[r] = to /\ \A p \in Call \ {r} : st'[p] = st[p]
        BY <1>0, <3>2 DEF TypeInv
      <3> QED
        BY <3>1, <3>2, <3>3, <3>4, <3>5
    <2>3. TurnOK(r)'
      BY <2>1, <2>2 DEF TurnOK, Turn, Link
    <2> QED
      BY <2>1, <2>2, <2>3, TurnsStep
  <1>6. ASSUME NEW r \in Call, DeadlineFires(r) \/ UserDrops(r) PROVE TurnsInv'
    <2>1. /\ UNCHANGED <<attempt, sent, reply>> /\ TurnOK(r)
          /\ st'[r] \in {"failed", "dropped"} /\ st[r] # "idle"
          /\ \A p \in Call \ {r} : st'[p] = st[p]
          /\ IF st[r] = "connecting" /\ pc[Turn(r)] = "waiting"
             THEN pc' = [pc EXCEPT ![Turn(r)] = "cancelled"] ELSE UNCHANGED pc
      BY <1>0, <1>6
      DEF DeadlineFires, UserDrops, DropFuture, poolVars, Pool!Cancel, TypeInv, TurnsInv, Holding
    <2>2. /\ st[r] = "connecting" => Turn(r) \in PoolCaller
          /\ sent[r] > 0 => st[r] # "connecting"
      BY TurnTypes, TurnIsCaller DEF Holding, Ended
    <2>3. \A d \in PoolCaller : d # Turn(r) => pc'[d] = pc[d]
      BY <1>0, <2>1, <2>2
    <2>4. \A n \in 0 .. MaxAttempts - 1 : /\ pc'[<<r, n>>] # "waiting"
                                          /\ n > attempt[r] => pc'[<<r, n>>] = pc[<<r, n>>]
      <3> SUFFICES ASSUME NEW n \in 0 .. MaxAttempts - 1
                   PROVE  /\ pc'[<<r, n>>] # "waiting"
                          /\ n > attempt[r] => pc'[<<r, n>>] = pc[<<r, n>>]
        OBVIOUS
      <3>1. <<r, n>> \in PoolCaller /\ attempt[r] \in Nat
        BY TurnTypes
      <3>2. CASE pc[<<r, n>>] = "waiting"
        <4>1. <<r, n>> = Turn(r) /\ st[r] = "connecting" /\ n = attempt[r]
          BY <2>1, <3>2 DEF TurnOK, Turn
        <4> QED
          BY <1>0, <2>1, <2>2, <3>1, <3>2, <4>1
      <3>3. CASE pc[<<r, n>>] # "waiting"
        <4>1. pc'[<<r, n>>] = pc[<<r, n>>]
          BY <1>0, <2>1, <2>2, <2>3, <3>1, <3>3
        <4> QED
          BY <3>3, <4>1
      <3> QED
        BY <3>2, <3>3
    <2>5. sent[r] > 0 => pc'[Turn(r)] = pc[Turn(r)] /\ Turn(r)' = Turn(r) /\ Link(r)' = Link(r)
      BY <2>1, <2>2 DEF Turn, Link
    <2>6. TurnOK(r)'
      BY <2>1, <2>4, <2>5 DEF TurnOK
    <2>7. \A d \in PoolCaller : d[1] # r => pc'[d] = pc[d] /\ reply'[d] = reply[d]
      BY <2>1, <2>3 DEF Turn
    <2> QED
      BY <2>1, <2>6, <2>7, TurnsStep
  <1>7. ASSUME NEW k \in PoolCaller, PoolTask(k) PROVE TurnsInv'
    <2>1. /\ UNCHANGED <<pc, st, attempt, sent>>
          /\ \A c \in PoolCaller : pc[c] # "waiting" => reply'[c] = reply[c]
      BY <1>0, <1>7
      DEF PoolTask, Pool!TaskStep, Pool!DialOk, Pool!DialErr, Pool!SessionOk, Pool!SessionErr,
          Pool!Publish, callVars
    <2> SUFFICES ASSUME NEW p \in Call PROVE TurnOK(p)'
      BY DEF TurnsInv
    <2>2. \A n \in 0 .. MaxAttempts - 1 : <<p, n>> \in PoolCaller
      BY TurnTypes
    <2> QED
      BY <2>1, <2>2, TurnFrame DEF TurnsInv
  <1>8. CASE UNCHANGED <<pc, reply, st, attempt, sent>>
    BY <1>8 DEF TurnsInv, TurnOK, Turn, Link
  <1> QED
    BY <1>1, <1>2, <1>3, <1>4, <1>5, <1>6, <1>7, <1>8
    DEF Next, CallStep, ConnClose, Pool!ConnClose, Goaway, AllDone, vars, poolVars, callVars

-----------------------------------------------------------------------------
(* The refinement mapping, case by case. *)
LEMMA StageValues ==
    ASSUME NEW s, NEW c, NEW k
    PROVE  /\ s \in {"idle", "queued"} => StageOf(s, c, k) = "idle"
           /\ s = "backoff" => StageOf(s, c, k) = "lookup"
           /\ s = "connecting" /\ c # "waiting" => StageOf(s, c, k) = "lookup"
           /\ s = "connecting" /\ c = "waiting" =>
                /\ k = NoReply => StageOf(s, c, k) = "waiting"
                /\ k \in PoolCaller => StageOf(s, c, k) = "sending"
                /\ k = Err => StageOf(s, c, k) = "failing"
           /\ s = "sending" => StageOf(s, c, k) = "sending"
           /\ s = "invalidating" => StageOf(s, c, k) = "failing"
           /\ s = "awaiting" => StageOf(s, c, k) = "awaiting"
           /\ s \in {"body", "closed"} => StageOf(s, c, k) = "answered"
           /\ s \in {"failed", "dropped"} => StageOf(s, c, k) = "failed"
  BY ChannelAssumption DEF StageOf

LEMMA EntryValues ==
    ASSUME Kept!TypeOK
    PROVE  /\ map[Remote].tag \in {"vacant", "connecting", "ready"}
           /\ map[Remote].tag = "vacant" <=> Entry = Promise!Vacant
           /\ map[Remote].tag = "connecting" <=> Entry = Promise!Dialing
           /\ map[Remote].tag = "ready" =>
                map[Remote].conn \in PoolCaller /\ Entry = Promise!Ready(map[Remote].conn)
           /\ \A k : Entry = Promise!Ready(k) => map[Remote].tag = "ready" /\ map[Remote].conn = k
  <1>1. map[Remote] \in Kept!Slot
    BY DEF Kept!TypeOK
  <1>2. /\ map[Remote].tag \in {"vacant", "connecting", "ready"}
        /\ map[Remote].tag = "ready" => map[Remote].conn \in PoolCaller
    BY <1>1, ReplyOK, Kept!SlotShapes
  <1>3. CASE map[Remote].tag = "vacant"
    <2>1. Entry = Promise!Vacant
      BY <1>3 DEF Entry, EntryOf, Promise!Vacant
    <2> QED
      BY <1>3, <2>1 DEF Promise!Vacant, Promise!Dialing, Promise!Ready
  <1>4. CASE map[Remote].tag = "connecting"
    <2>1. Entry = Promise!Dialing
      BY <1>4 DEF Entry, EntryOf, Promise!Dialing
    <2> QED
      BY <1>4, <2>1 DEF Promise!Vacant, Promise!Dialing, Promise!Ready
  <1>5. CASE map[Remote].tag = "ready"
    <2>1. Entry = Promise!Ready(map[Remote].conn)
      BY <1>5 DEF Entry, EntryOf, Promise!Ready
    <2> QED
      BY <1>2, <1>5, <2>1 DEF Promise!Vacant, Promise!Dialing, Promise!Ready
  <1> QED
    BY <1>2, <1>3, <1>4, <1>5

(* A connection in the pool has been published: the promise sees it as it  *)
(* is, but for its draining.                                               *)
LEMMA PublishedSeen ==
    ASSUME Kept!TypeOK, NEW k \in PoolCaller, task[k] = "done", conn[k] # "none"
    PROVE  /\ Conns[k] = "closed" <=> conn[k] = "closed"
           /\ conn[k] = "open" => Conns[k] \in Promise!Live
           /\ conn[k] = "open" /\ k \notin draining => Conns[k] = "open"
  <1>1. conn[k] \in {"none", "open", "closed"}
    BY DEF Kept!TypeOK
  <1> QED
    BY <1>1 DEF Conns, Seen, Promise!Live

LEMMA StaleSame == ASSUME Kept!IInv PROVE Pool!Stale(Remote) <=> Promise!Stale
  <1>1. Kept!TypeOK
    BY DEF Kept!IInv
  <1>2. ASSUME map[Remote].tag = "ready"
        PROVE  /\ map[Remote].conn \in PoolCaller
               /\ Conns[map[Remote].conn] = "closed" <=> conn[map[Remote].conn] = "closed"
    <2>1. map[Remote].conn \in PoolCaller
      BY <1>1, <1>2, EntryValues
    <2>2. task[map[Remote].conn] = "done" /\ conn[map[Remote].conn] # "none"
      BY <1>2 DEF Kept!IInv, Kept!SlotMatches
    <2> QED
      BY <1>1, <2>1, <2>2, PublishedSeen
  <1> QED
    BY <1>1, <1>2, EntryValues DEF Pool!Stale, Pool!IsClosed, Promise!Stale

-----------------------------------------------------------------------------
(* A call that nothing has happened to. *)
LEMMA CallKept ==
    ASSUME IInv, TurnsInv, NEW p \in Call,
           st'[p] = st[p], attempt'[p] = attempt[p], sent'[p] = sent[p],
           \A n \in 0 .. MaxAttempts - 1 :
              pc'[<<p, n>>] = pc[<<p, n>>] /\ reply'[<<p, n>>] = reply[<<p, n>>]
    PROVE  /\ Stage(p)' = Stage(p) /\ Via(p)' = Via(p)
           /\ sent[p] > 0 => Link(p)' = Link(p)
  <1>1. ASSUME attempt[p] \in 0 .. MaxAttempts - 1
        PROVE  pc[Turn(p)]' = pc[Turn(p)] /\ Link(p)' = Link(p)
    BY <1>1 DEF Turn, Link
  <1>2. Stage(p)' = Stage(p)
    <2>1. CASE st[p] = "connecting"
      <3>1. attempt[p] \in 0 .. MaxAttempts - 1
        BY <2>1, TurnTypes DEF Holding
      <3> QED
        BY <1>1, <3>1 DEF Stage
    <2>2. CASE st[p] # "connecting"
      <3>1. st[p] \in {"idle", "queued", "backoff", "sending", "invalidating", "awaiting",
                       "body", "closed", "failed", "dropped"}
        BY <2>2 DEF IInv, TypeInv, Holding, Ended
      <3> QED
        BY <3>1, StageValues DEF Stage
    <2> QED
      BY <2>1, <2>2
  <1>3. ASSUME Stage(p) = "sending" \/ sent[p] > 0 PROVE attempt[p] \in 0 .. MaxAttempts - 1
    <2>1. st[p] \in Holding => attempt[p] \in 0 .. MaxAttempts - 1
      BY TurnTypes
    <2>2. CASE sent[p] > 0
      <3>1. attempt[p] < MaxAttempts
        BY <2>2 DEF TurnsInv, TurnOK
      <3> QED
        BY <3>1, TurnTypes
    <2>3. CASE Stage(p) = "sending"
      <3>1. st[p] \in {"idle", "queued"} \cup Holding \cup Ended
        BY DEF IInv, TypeInv
      <3>2. st[p] \notin {"idle", "queued"} \cup Ended
        BY <2>3, StageValues DEF Stage, Ended
      <3> QED
        BY <2>1, <3>1, <3>2
    <2> QED
      BY <1>3, <2>2, <2>3
  <1> QED
    BY <1>1, <1>2, <1>3 DEF Via

(* A step of one call, in which it goes to the pool in its own name only.  *)
LEMMA OneCallMoves ==
    ASSUME IInv, TurnsInv, NEW r \in Call,
           \A p \in Call \ {r} : st'[p] = st[p] /\ attempt'[p] = attempt[p] /\ sent'[p] = sent[p],
           \A c \in PoolCaller : c[1] # r => pc'[c] = pc[c] /\ reply'[c] = reply[c]
    PROVE  /\ Stages' = [Stages EXCEPT ![r] = Stage(r)']
           /\ Vias' = [Vias EXCEPT ![r] = Via(r)']
           /\ sent'[r] = sent[r] /\ (sent[r] > 0 => attempt'[r] = attempt[r] /\ Link(r)' = Link(r))
                => Wire' = Wire
  <1>1. ASSUME NEW p \in Call, p # r
        PROVE  /\ Stage(p)' = Stage(p) /\ Via(p)' = Via(p)
               /\ sent[p] > 0 => Link(p)' = Link(p)
    <2>1. \A n \in 0 .. MaxAttempts - 1 : <<p, n>> \in PoolCaller /\ <<p, n>>[1] # r
      BY <1>1, TurnTypes
    <2> QED
      BY <1>1, <2>1, CallKept
  <1>2. Stages' = [Stages EXCEPT ![r] = Stage(r)'] /\ Vias' = [Vias EXCEPT ![r] = Via(r)']
    BY <1>1 DEF Stages, Vias
  <1>3. ASSUME sent'[r] = sent[r],
               sent[r] > 0 => attempt'[r] = attempt[r] /\ Link(r)' = Link(r)
        PROVE  Wire' = Wire
    <2>1. \A p \in Call : sent'[p] = sent[p]
      BY <1>3
    <2>2. \A p \in Call : sent[p] > 0 =>
             <<Link(p), p, attempt[p]>>' = <<Link(p), p, attempt[p]>>
      BY <1>1, <1>3
    <2> QED
      BY <2>1, <2>2 DEF Wire
  <1> QED
    BY <1>2, <1>3

(* A step of one call alone, with which nothing is sent. *)
LEMMA QuietStep ==
    ASSUME IInv, TurnsInv, NEW r \in Call,
           UNCHANGED <<map, task, conn, draining, reply, attempt, sent>>,
           \A c \in PoolCaller : c[1] # r => pc'[c] = pc[c],
           \A p \in Call \ {r} : st'[p] = st[p]
    PROVE  /\ UNCHANGED <<Conns, Entry, Wire, attempt>>
           /\ Stages' = [Stages EXCEPT ![r] = Stage(r)']
           /\ Vias' = [Vias EXCEPT ![r] = Via(r)']
           /\ Stage(r)' = StageOf(st'[r], pc'[Turn(r)], Link(r))
           /\ Via(r)' = IF Stage(r)' = "sending" \/ sent[r] > 0 THEN Link(r) ELSE NoReply
           /\ Stage(r)' = Stage(r) => UNCHANGED Promise!vars
  <1>1. Turn(r)' = Turn(r) /\ Link(r)' = Link(r)
    BY DEF Turn, Link
  <1>2. /\ Stage(r)' = StageOf(st'[r], pc'[Turn(r)], Link(r))
        /\ Via(r)' = IF Stage(r)' = "sending" \/ sent[r] > 0 THEN Link(r) ELSE NoReply
    BY <1>1 DEF Stage, Via
  <1>3. UNCHANGED <<Conns, Entry>>
    BY DEF Conns, Seen, Entry
  <1>4. /\ Stages' = [Stages EXCEPT ![r] = Stage(r)']
        /\ Vias' = [Vias EXCEPT ![r] = Via(r)']
        /\ Wire' = Wire
    BY <1>1, OneCallMoves
  <1>5. ASSUME Stage(r)' = Stage(r) PROVE UNCHANGED Promise!vars
    <2>1. Via(r)' = Via(r)
      BY <1>2, <1>5 DEF Via
    <2>2. Stages' = Stages /\ Vias' = Vias
      BY <1>4, <1>5, <2>1 DEF Stages, Vias
    <2> QED
      BY <1>3, <1>4, <2>2 DEF Promise!vars
  <1> QED
    BY <1>2, <1>3, <1>4, <1>5

(* A call that is not, and has not been, on the wire is shown no           *)
(* connection unless it is about to send.                                  *)
LEMMA Shown ==
    ASSUME NEW r \in Call
    PROVE  /\ Stages[r] = Stage(r) /\ Vias[r] = Via(r)
           /\ Stage(r) = "sending" => Via(r) = Link(r)
           /\ Stage(r) # "sending" /\ ~(sent[r] > 0) => Via(r) = NoReply
           /\ sent[r] > 0 => Via(r) = Link(r)
  BY DEF Stages, Vias, Via

(* What a call in its turn has from the pool. *)
LEMMA LinkTypes ==
    ASSUME Kept!TypeOK, NEW r \in Call, Turn(r) \in PoolCaller
    PROVE  Link(r) \in PoolCaller \cup {Err, NoReply}
  BY DEF Kept!TypeOK, Link

(* The ways in which a call fails for good. *)
LEMMA Fails ==
    ASSUME IInv, TurnsInv, Kept!TypeOK, NEW r \in Call, st[r] \in {"queued"} \cup Holding,
           st'[r] \in {"failed", "dropped"},
           UNCHANGED <<map, task, conn, draining, reply, attempt, sent>>,
           \A c \in PoolCaller : c[1] # r => pc'[c] = pc[c],
           \A p \in Call \ {r} : st'[p] = st[p]
    PROVE  Promise!Fail(r)
  <1>1. Stage(r)' = "failed"
    BY QuietStep, StageValues
  <1>2. Stages[r] \notin Promise!Ended /\ (Stages[r] = "awaiting" <=> st[r] = "awaiting")
    <2>1. CASE st[r] = "connecting"
      <3>1. Turn(r) \in PoolCaller
        BY <2>1, TurnIsCaller DEF Holding
      <3>2. CASE Stage(r) \in {"lookup", "waiting", "sending", "failing"}
        BY <2>1, <3>2, Shown DEF Promise!Ended
      <3>3. CASE Stage(r) \notin {"lookup", "waiting", "sending", "failing"}
        <4>1. pc[Turn(r)] = "waiting" /\ Link(r) \notin PoolCaller \cup {Err, NoReply}
          BY <2>1, <3>3, StageValues DEF Stage
        <4> QED
          BY <3>1, <4>1, LinkTypes
      <3> QED
        BY <3>2, <3>3
    <2>2. CASE st[r] # "connecting"
      BY <2>2, StageValues, Shown DEF Stage, Holding, Promise!Ended
    <2> QED
      BY <2>1, <2>2
  <1>3. Via(r)' = IF Stages[r] = "awaiting" THEN Vias[r] ELSE NoReply
    <2>1. CASE st[r] = "awaiting"
      <3>1. sent[r] > 0
        BY <2>1 DEF TurnsInv, TurnOK
      <3> QED
        BY <1>1, <1>2, <2>1, <3>1, QuietStep, Shown
    <2>2. CASE st[r] # "awaiting"
      <3>1. sent[r] = 0
        BY <2>2, TurnTypes DEF Holding, Ended
      <3> QED
        BY <1>1, <1>2, <2>2, <3>1, QuietStep
    <2> QED
      BY <2>1, <2>2
  <1> QED
    BY <1>1, <1>2, <1>3, QuietStep DEF Promise!Fail

(* Steps of a call that go unseen. *)
LEMMA UnseenSteps ==
    ASSUME IInv, TurnsInv, Kept!IInv, NEW r \in Call,
           \/ Begin(r) \/ BackoffOver(r) \/ Connected(r)
           \/ BodyDeadline(r) \/ BodyDropped(r) \/ ForwarderEnds(r)
    PROVE  UNCHANGED Promise!vars
  <1>0. TypeInv /\ TurnOK(r) /\ Kept!TypeOK
    BY DEF IInv, TurnsInv, Kept!IInv
  <1>1. ASSUME Begin(r) \/ BodyDeadline(r) \/ BodyDropped(r) \/ ForwarderEnds(r) \/ BackoffOver(r)
        PROVE  UNCHANGED Promise!vars
    <2>1. /\ UNCHANGED <<map, task, conn, draining, reply, attempt, sent, pc>>
          /\ \A p \in Call \ {r} : st'[p] = st[p]
      BY <1>0, <1>1
      DEF Begin, BodyDeadline, BodyDropped, CloseBody, ForwarderEnds, BackoffOver, poolVars,
          TypeInv
    <2>2. \/ st'[r] = st[r]
          \/ st[r] = "idle" /\ st'[r] = "queued"
          \/ st[r] = "backoff" /\ st'[r] = "connecting"
          \/ st[r] = "body" /\ st'[r] = "closed"
      BY <1>0, <1>1
      DEF Begin, BodyDeadline, BodyDropped, CloseBody, ForwarderEnds, BackoffOver, TypeInv
    <2>3. st[r] = "backoff" => pc[Turn(r)] # "waiting"
      BY <1>0, TurnTypes DEF TurnOK, Turn, Holding
    <2>4. Stage(r)' = Stage(r)
      BY <2>1, <2>2, <2>3, QuietStep, StageValues DEF Stage
    <2> QED
      BY <2>1, <2>4, QuietStep
  <1>2. CASE Connected(r)
    <2>1. Turn(r) \in PoolCaller /\ st[r] = "connecting"
      BY <1>2, TurnIsCaller DEF Connected, Holding
    <2>2. /\ pc[Turn(r)] = "waiting" /\ Link(r) \in PoolCaller \cup {Err}
          /\ UNCHANGED <<map, task, conn, draining, reply, attempt, sent>>
          /\ \A c \in PoolCaller : c[1] # r => pc'[c] = pc[c]
      BY <1>0, <1>2, <2>1 DEF Connected, Pool!Receive, Link, Turn, Kept!TypeOK
    <2>3. /\ \A p \in Call \ {r} : st'[p] = st[p]
          /\ st'[r] = IF Link(r) = Err THEN "invalidating" ELSE "sending"
      BY <1>0, <1>2 DEF Connected, TypeInv
    <2>4. Stage(r)' = Stage(r)
      <3>1. Stage(r) = IF Link(r) = Err THEN "failing" ELSE "sending"
        BY <2>1, <2>2, StageValues, ChannelAssumption DEF Stage
      <3> QED
        BY <2>2, <2>3, <3>1, QuietStep, StageValues
    <2> QED
      BY <2>2, <2>3, <2>4, QuietStep
  <1> QED
    BY <1>1, <1>2

(* A call comes to its turn, or has none. *)
LEMMA AcquireStep ==
    ASSUME IInv, TurnsInv, Kept!TypeOK, NEW r \in Call, Acquire(r)
    PROVE  Promise!Next
  <1>0. TypeInv /\ TurnOK(r) /\ sent[r] = 0 /\ MaxAttempts \in Nat
    BY TurnTypes DEF IInv, TurnsInv, Acquire, Ended
  <1>1. /\ st[r] = "queued" /\ attempt[r] = 0 /\ attempt' = [attempt EXCEPT ![r] = 0]
        /\ UNCHANGED <<map, task, conn, draining, reply, sent, pc>>
        /\ st' = [st EXCEPT ![r] = IF MaxAttempts = 0 THEN "failed" ELSE "connecting"]
    BY <1>0 DEF Acquire, LoopTop, AttemptsUsedUp, TurnOK, poolVars
  <1>2. attempt' = attempt
    BY <1>0, <1>1 DEF TypeInv
  <1>3. /\ st'[r] = IF MaxAttempts = 0 THEN "failed" ELSE "connecting"
        /\ \A p \in Call \ {r} : st'[p] = st[p]
    BY <1>0, <1>1 DEF TypeInv
  <1>4. CASE MaxAttempts = 0
    <2>1. Promise!Fail(r)
      BY <1>1, <1>2, <1>3, <1>4, Fails
    <2> QED
      BY <2>1 DEF Promise!Next
  <1>5. CASE MaxAttempts # 0
    <2>1. pc[Turn(r)] = "idle"
      <3>1. 0 \in 0 .. MaxAttempts - 1
        BY <1>0, <1>5
      <3> QED
        BY <1>0, <1>1, <3>1 DEF TurnOK, Turn
    <2>2. Stage(r) = "idle" /\ Stage(r)' = "lookup"
      BY <1>1, <1>2, <1>3, <1>5, <2>1, QuietStep, StageValues DEF Stage
    <2>3. Via(r) = NoReply /\ Via(r)' = NoReply
      BY <1>0, <1>1, <1>2, <1>3, <2>2, QuietStep, Shown
    <2>4. Vias' = [Vias EXCEPT ![r] = Via(r)']
      BY <1>1, <1>2, <1>3, QuietStep
    <2>5. Vias' = Vias
      BY <2>3, <2>4 DEF Vias
    <2>6. Promise!Begin(r)
      BY <1>1, <1>2, <1>3, <1>5, <2>2, <2>5, QuietStep, Shown DEF Promise!Begin, Promise!Moves
    <2> QED
      BY <2>6 DEF Promise!Next
  <1> QED
    BY <1>4, <1>5

(* A call looks for a connection. *)
LEMMA LookupStep ==
    ASSUME IInv, TurnsInv, Kept!IInv, NEW r \in Call, Lookup(r)
    PROVE  Promise!Next
  <1>0. TypeInv /\ Kept!TypeOK /\ st[r] = "connecting" /\ sent[r] = 0
    BY TurnTypes DEF IInv, Kept!IInv, Lookup, Ended
  <1>1. Turn(r) \in PoolCaller /\ want[Turn(r)] = Remote
    BY <1>0, TurnIsCaller DEF Holding, Kept!TypeOK
  <1>2. pc[Turn(r)] = "idle" /\ reply[Turn(r)] = NoReply /\ task[Turn(r)] = "none"
    <2>1. pc[Turn(r)] = "idle"
      BY DEF Lookup, Pool!ReuseReady, Pool!JoinConnecting, Pool!StartConnecting
    <2> QED
      BY <1>1, <2>1 DEF Kept!IInv, Kept!Untouched
  <1>3. Stages[r] = "lookup" /\ Via(r) = NoReply
    BY <1>0, <1>2, StageValues, Shown DEF Stage
  <1>4. UNCHANGED <<conn, draining, attempt, sent, want>> /\ Turn(r)' = Turn(r)
    BY DEF Lookup, Pool!ReuseReady, Pool!JoinConnecting, Pool!StartConnecting, Turn
  <1>5. /\ \A p \in Call \ {r} : st'[p] = st[p]
        /\ \A c \in PoolCaller : c[1] # r => pc'[c] = pc[c] /\ reply'[c] = reply[c]
    <2>1. \A p \in Call \ {r} : st'[p] = st[p]
      BY <1>0 DEF Lookup, TypeInv
    <2>2. \A c \in PoolCaller : c # Turn(r) => pc'[c] = pc[c] /\ reply'[c] = reply[c]
      BY <1>0, <1>1
      DEF Lookup, Pool!ReuseReady, Pool!JoinConnecting, Pool!StartConnecting, Kept!TypeOK
    <2> QED
      BY <2>1, <2>2 DEF Turn
  <1>6. /\ Stages' = [Stages EXCEPT ![r] = Stage(r)']
        /\ Vias' = [Vias EXCEPT ![r] = Via(r)']
        /\ Wire' = Wire
    BY <1>0, <1>4, <1>5, OneCallMoves
  <1>7. CASE Pool!ReuseReady(Turn(r)) /\ st' = [st EXCEPT ![r] = "sending"]
    <2> DEFINE k == map[Remote].conn
    <2>1. map[Remote].tag = "ready" /\ conn[k] # "closed" /\ UNCHANGED <<map, task>>
      BY <1>1, <1>7 DEF Pool!ReuseReady, Pool!IsClosed
    <2>2. k \in PoolCaller /\ Entry = Promise!Ready(k)
      BY <1>0, <2>1, EntryValues
    <2>3. Conns[k] # "closed"
      <3>1. task[k] = "done" /\ conn[k] # "none"
        BY <2>1 DEF Kept!IInv, Kept!SlotMatches
      <3> QED
        BY <1>0, <2>1, <2>2, <3>1, PublishedSeen
    <2>4. reply'[Turn(r)] = k
      BY <1>0, <1>1, <1>7 DEF Pool!ReuseReady, Kept!TypeOK
    <2>5. Stage(r)' = "sending" /\ Via(r)' = k
      <3>1. st'[r] = "sending"
        BY <1>0, <1>7 DEF TypeInv
      <3>2. Stage(r)' = "sending"
        BY <3>1, StageValues DEF Stage
      <3> QED
        BY <1>4, <2>4, <3>2 DEF Via, Link
    <2>6. UNCHANGED <<Conns, Entry>>
      BY <1>4, <2>1 DEF Conns, Seen, Entry
    <2>7. Promise!Use(r)
      BY <1>3, <1>4, <1>6, <2>2, <2>3, <2>5, <2>6 DEF Promise!Use, Promise!Moves
    <2> QED
      BY <2>7 DEF Promise!Next, Promise!Lookup
  <1>8. CASE (Pool!JoinConnecting(Turn(r)) \/ Pool!StartConnecting(Turn(r))) /\ UNCHANGED st
    <2>1. pc'[Turn(r)] = "waiting" /\ reply'[Turn(r)] = NoReply
      BY <1>0, <1>1, <1>2, <1>8
      DEF Pool!JoinConnecting, Pool!StartConnecting, Kept!TypeOK
    <2>2. Stage(r)' = "waiting" /\ Via(r)' = NoReply
      <3>1. Stage(r)' = StageOf("connecting", "waiting", NoReply)
        BY <1>0, <1>4, <1>8, <2>1 DEF Stage, Link
      <3>2. Stage(r)' = "waiting"
        BY <3>1, StageValues
      <3> QED
        BY <1>0, <1>4, <3>2 DEF Via
    <2>3. Vias' = Vias
      BY <1>3, <1>6, <2>2 DEF Vias
    <2>4. Conns' = Conns
      <3>1. \A k \in PoolCaller : \/ task'[k] = task[k]
                                  \/ task[k] = "none" /\ task'[k] = "dialing"
        BY <1>0, <1>1, <1>2, <1>8
        DEF Pool!JoinConnecting, Pool!StartConnecting, Kept!TypeOK
      <3> QED
        BY <1>4, <3>1 DEF Conns, Seen
    <2>5. Promise!Join(r) \/ Promise!Dial(r)
      <3>1. CASE Pool!JoinConnecting(Turn(r))
        <4>1. Entry = Promise!Dialing /\ Entry' = Entry
          <5>1. map[Remote].tag = "connecting"
            BY <1>1, <3>1 DEF Pool!JoinConnecting, Pool!IsConnecting
          <5>2. map'[Remote].tag = "connecting"
            BY <1>0, <1>1, <3>1 DEF Pool!JoinConnecting, Pool!Connecting, Kept!TypeOK
          <5> QED
            BY <1>0, <5>1, <5>2, EntryValues DEF Entry, EntryOf, Promise!Dialing
        <4> QED
          BY <1>3, <1>4, <1>6, <2>2, <2>3, <2>4, <4>1 DEF Promise!Join, Promise!Moves
      <3>2. CASE Pool!StartConnecting(Turn(r))
        <4>1. Entry = Promise!Vacant \/ Promise!Stale
          <5>1. map[Remote].tag = "vacant" \/ Pool!Stale(Remote)
            BY <1>1, <3>2 DEF Pool!StartConnecting, Pool!MustDial, Pool!Vacant
          <5> QED
            BY <1>0, <5>1, EntryValues, StaleSame
        <4>2. Entry' = Promise!Dialing
          <5>1. map'[Remote].tag = "connecting"
            BY <1>0, <1>1, <3>2 DEF Pool!StartConnecting, Pool!Connecting, Kept!TypeOK
          <5> QED
            BY <5>1 DEF Entry, EntryOf, Promise!Dialing
        <4> QED
          BY <1>3, <1>4, <1>6, <2>2, <2>3, <2>4, <4>1, <4>2 DEF Promise!Dial, Promise!Moves
      <3> QED
        BY <1>8, <3>1, <3>2
    <2> QED
      BY <2>5 DEF Promise!Next, Promise!Lookup
  <1> QED
    BY <1>7, <1>8 DEF Lookup

(* A call sends its request, or cannot. *)
LEMMA SendStep ==
    ASSUME IInv, TurnsInv, Kept!IInv, NEW r \in Call,
           SendOk(r) \/ SendErr(r) \/ BuildErr(r)
    PROVE  Promise!Next
  <1>0. TypeInv /\ Kept!TypeOK /\ st[r] = "sending" /\ sent[r] = 0
    BY TurnTypes DEF IInv, Kept!IInv, SendOk, SendErr, BuildErr, Ended
  <1>1. /\ UNCHANGED <<map, task, conn, draining, reply, attempt, pc>>
        /\ \A p \in Call \ {r} : st'[p] = st[p]
    BY <1>0 DEF SendOk, SendErr, BuildErr, poolVars, TypeInv
  <1>2. Stages[r] = "sending" /\ Vias[r] = Link(r) /\ Link(r) \in PoolCaller
    BY <1>0, StageValues, Shown DEF Stage, TurnsInv, TurnOK
  <1>3. CASE SendOk(r)
    <2>1. /\ st'[r] = "awaiting" /\ sent'[r] = 1
          /\ \A p \in Call \ {r} : sent'[p] = sent[p]
          /\ conn[Link(r)] = "open" /\ Link(r) \notin draining
      <3>1. sent' = [sent EXCEPT ![r] = 1]
        BY <1>0, <1>3 DEF SendOk
      <3> QED
        BY <1>0, <1>3, <3>1 DEF SendOk, TypeInv
    <2>2. Conns[Link(r)] = "open"
      <3>1. task[Link(r)] = "done"
        <4>1. Turn(r) \in PoolCaller
          BY <1>0, TurnIsCaller DEF Holding
        <4> QED
          BY <1>2, <4>1 DEF Link, Kept!IInv, Kept!RightConnection
      <3> QED
        BY <1>0, <1>2, <2>1, <3>1, PublishedSeen
    <2>3. Turn(r)' = Turn(r) /\ Link(r)' = Link(r)
      BY <1>1 DEF Turn, Link
    <2>4. Stage(r)' = "awaiting" /\ Via(r)' = Link(r)
      <3>1. Stage(r)' = "awaiting"
        BY <2>1, StageValues DEF Stage
      <3> QED
        BY <2>1, <2>3, <3>1 DEF Via
    <2>5. /\ Stages' = [Stages EXCEPT ![r] = "awaiting"]
          /\ Vias' = [Vias EXCEPT ![r] = Link(r)]
      BY <1>1, <2>1, <2>4, OneCallMoves
    <2>6. Vias' = Vias
      BY <1>2, <2>5 DEF Vias
    <2>7. /\ UNCHANGED <<Conns, Entry>>
      BY <1>1 DEF Conns, Seen, Entry
    <2>8. Wire' = Wire \cup {<<Link(r), r, attempt[r]>>} /\ <<Link(r), r, attempt[r]>> \notin Wire
      <3>1. \A p \in Call : /\ sent'[p] > 0 <=> sent[p] > 0 \/ p = r
                            /\ Link(p)' = Link(p)
        BY <1>0, <1>1, <2>1 DEF Turn, Link
      <3> QED
        BY <1>0, <1>1, <3>1 DEF Wire
    <2>9. Promise!SendOk(r)
      BY <1>1, <1>2, <2>2, <2>5, <2>6, <2>7, <2>8
      DEF Promise!SendOk, Promise!Moves, Promise!Asked
    <2> QED
      BY <2>9 DEF Promise!Next
  <1>4. CASE SendErr(r)
    <2>1. st'[r] = "invalidating" /\ UNCHANGED sent
      BY <1>0, <1>4 DEF SendErr, TypeInv
    <2>2. Stage(r)' = "failing" /\ Via(r)' = NoReply
      BY <1>0, <1>1, <2>1, QuietStep, StageValues
    <2>3. Promise!SendErr(r)
      BY <1>1, <1>2, <2>1, <2>2, QuietStep DEF Promise!SendErr, Promise!Moves
    <2> QED
      BY <2>3 DEF Promise!Next
  <1>5. CASE BuildErr(r)
    <2>1. st'[r] = "failed" /\ UNCHANGED sent
      BY <1>0, <1>5 DEF BuildErr, TypeInv
    <2>2. Promise!Fail(r)
      BY <1>0, <1>1, <2>1, Fails DEF Holding
    <2> QED
      BY <2>2 DEF Promise!Next
  <1> QED
    BY <1>3, <1>4, <1>5

(* A turn has failed, and the loop goes on or ends. *)
LEMMA ContinueStep ==
    ASSUME IInv, TurnsInv, Kept!IInv, Kept!TypeOK', NEW r \in Call, InvalidateAndContinue(r)
    PROVE  Promise!Next
  <1>0. TypeInv /\ Kept!TypeOK /\ st[r] = "invalidating" /\ sent[r] = 0 /\ attempt[r] \in Nat
    BY TurnTypes DEF IInv, Kept!IInv, InvalidateAndContinue, Ended
  <1>1. /\ UNCHANGED <<task, conn, draining, reply, pc, sent, want>>
        /\ attempt' = [attempt EXCEPT ![r] = attempt[r] + 1]
    BY DEF InvalidateAndContinue, LoopTop, Pool!Invalidate, poolVars
  <1>2. /\ st' = [st EXCEPT ![r] = IF attempt[r] + 1 = MaxAttempts THEN "failed" ELSE "backoff"]
    <2>1. attempt[r] + 1 # 0
      BY <1>0
    <2> QED
      BY <1>0, <2>1 DEF InvalidateAndContinue, LoopTop, AttemptsUsedUp
  <1>3. \A p \in Call \ {r} : st'[p] = st[p] /\ attempt'[p] = attempt[p]
    BY <1>0, <1>1, <1>2 DEF TypeInv
  <1>4. /\ Stages[r] = "failing" /\ Via(r) = NoReply
    BY <1>0, StageValues, Shown DEF Stage
  <1>5. /\ Stage(r)' = IF attempt[r] + 1 = MaxAttempts THEN "failed" ELSE "lookup"
        /\ Via(r)' = NoReply
    <2>1. st'[r] = IF attempt[r] + 1 = MaxAttempts THEN "failed" ELSE "backoff"
      BY <1>0, <1>2 DEF TypeInv
    <2>2. Stage(r)' = IF attempt[r] + 1 = MaxAttempts THEN "failed" ELSE "lookup"
      BY <2>1, StageValues DEF Stage
    <2> QED
      BY <1>0, <1>1, <2>2 DEF Via
  <1>6. /\ Stages' = [Stages EXCEPT ![r] = Stage(r)']
        /\ Vias' = [Vias EXCEPT ![r] = Via(r)']
        /\ Wire' = Wire
    BY <1>0, <1>1, <1>3, OneCallMoves
  <1>7. Vias' = Vias
    BY <1>4, <1>5, <1>6 DEF Vias
  <1>8. Conns' = Conns
    BY <1>1 DEF Conns, Seen
  <1>9. Entry' = IF Promise!Stale THEN Promise!Vacant ELSE Entry
    <2>1. CASE Pool!Stale(Remote)
      <3>1. map'[Remote].tag = "vacant"
        <4>1. map' = [map EXCEPT ![want[Turn(r)]] = Pool!Vacant] /\ Turn(r) \in PoolCaller
          BY <1>0, <2>1, TurnIsCaller DEF InvalidateAndContinue, Pool!Invalidate, Holding
        <4>2. want[Turn(r)] = Remote
          BY <1>0, <4>1 DEF Kept!TypeOK
        <4> QED
          BY <1>0, <4>1, <4>2 DEF Kept!TypeOK, Pool!Vacant
      <3>2. Entry' = Promise!Vacant
        BY <3>1 DEF Entry, EntryOf, Promise!Vacant
      <3> QED
        BY <2>1, <3>2, StaleSame
    <2>2. CASE ~Pool!Stale(Remote)
      <3>1. UNCHANGED map
        BY <2>2 DEF InvalidateAndContinue, poolVars
      <3>2. Entry' = Entry
        BY <3>1 DEF Entry
      <3> QED
        BY <2>2, <3>2, StaleSame
    <2> QED
      BY <2>1, <2>2
  <1>10. Promise!Continue(r)
    BY <1>1, <1>4, <1>5, <1>6, <1>7, <1>8, <1>9 DEF Promise!Continue, Promise!Moves
  <1> QED
    BY <1>10 DEF Promise!Next

(* The response comes, or does not. *)
LEMMA ResponseStep ==
    ASSUME IInv, TurnsInv, Kept!IInv, NEW r \in Call, ResponseOk(r) \/ ResponseErr(r)
    PROVE  Promise!Next
  <1>0. TypeInv /\ Kept!TypeOK /\ st[r] = "awaiting" /\ sent[r] = 1 /\ Link(r) \in PoolCaller
    BY DEF IInv, Kept!IInv, TurnsInv, TurnOK, ResponseOk, ResponseErr
  <1>1. /\ UNCHANGED <<map, task, conn, draining, reply, attempt, pc, sent>>
        /\ \A p \in Call \ {r} : st'[p] = st[p]
        /\ st'[r] = IF ResponseOk(r) THEN "body" ELSE "failed"
    BY <1>0 DEF ResponseOk, ResponseErr, poolVars, TypeInv
  <1>2. CASE ResponseOk(r)
    <2>1. Stages[r] = "awaiting" /\ Vias[r] = Link(r) /\ Via(r) = Link(r)
      BY <1>0, StageValues, Shown DEF Stage
    <2>3. Stage(r)' = "answered" /\ Via(r)' = Link(r)
      BY <1>0, <1>1, <1>2, QuietStep, StageValues
    <2>4. Vias' = [Vias EXCEPT ![r] = Via(r)']
      BY <1>1, QuietStep
    <2>5. Vias' = Vias
      BY <2>1, <2>3, <2>4 DEF Vias
    <2>6. Promise!ResponseOk(r)
      BY <1>1, <2>1, <2>3, <2>5, QuietStep DEF Promise!ResponseOk, Promise!Moves
    <2> QED
      BY <2>6 DEF Promise!Next
  <1>3. CASE ~ResponseOk(r)
    <2>1. Promise!Fail(r)
      BY <1>0, <1>1, <1>3, Fails DEF Holding
    <2> QED
      BY <2>1 DEF Promise!Next
  <1> QED
    BY <1>2, <1>3

(* The future of a call is dropped. *)
LEMMA DropStep ==
    ASSUME IInv, TurnsInv, Kept!TypeOK, NEW r \in Call, DeadlineFires(r) \/ UserDrops(r)
    PROVE  Promise!Next
  <1>0. TypeInv
    BY DEF IInv
  <1>1. PICK to \in {"failed", "dropped"} : \E why : DropFuture(r, to, why)
    BY DEF DeadlineFires, UserDrops
  <1>2. /\ st[r] \in {"queued"} \cup Holding /\ st'[r] = to
        /\ UNCHANGED <<map, task, conn, draining, reply, attempt, sent>>
        /\ \A p \in Call \ {r} : st'[p] = st[p]
    BY <1>0, <1>1 DEF DropFuture, Pool!Cancel, poolVars, TypeInv
  <1>3. \A c \in PoolCaller : c[1] # r => pc'[c] = pc[c]
    <2>1. CASE UNCHANGED pc
      BY <2>1
    <2>2. CASE pc' = [pc EXCEPT ![Turn(r)] = "cancelled"]
      BY <2>2 DEF Turn, Kept!TypeOK
    <2> QED
      BY <1>1, <2>1, <2>2 DEF DropFuture, Pool!Cancel, poolVars
  <1>4. Promise!Fail(r)
    BY <1>2, <1>3, Fails
  <1> QED
    BY <1>4 DEF Promise!Next

(* The publication of a dial reaches the calls that wait, and no others.   *)
LEMMA PublishMoves ==
    ASSUME IInv, TurnsInv, Kept!IInv, Kept!WaitersInv, UNCHANGED callVars,
           NEW t \in PoolCaller, NEW result,
           UNCHANGED pc,
           Kept!IsConnecting(Remote),
           reply' = [c \in PoolCaller |->
                        IF c \in map[Remote].waiters /\ pc[c] = "waiting" THEN result ELSE reply[c]]
    PROVE  \A r \in Call :
             /\ Stage(r) = "waiting" => /\ Stage(r)' = StageOf("connecting", "waiting", result)
                                        /\ Link(r)' = result /\ sent[r] = 0
             /\ Stage(r) # "waiting" => /\ Stage(r)' = Stage(r) /\ Via(r)' = Via(r)
                                        /\ sent[r] > 0 => Link(r)' = Link(r)
  <1> SUFFICES ASSUME NEW r \in Call
               PROVE  /\ Stage(r) = "waiting" =>
                            /\ Stage(r)' = StageOf("connecting", "waiting", result)
                            /\ Link(r)' = result /\ sent[r] = 0
                      /\ Stage(r) # "waiting" => /\ Stage(r)' = Stage(r) /\ Via(r)' = Via(r)
                                                 /\ sent[r] > 0 => Link(r)' = Link(r)
    OBVIOUS
  <1>0. Kept!TypeOK /\ UNCHANGED <<st, attempt, sent>>
    BY DEF Kept!IInv, callVars
  <1>1. \A c \in PoolCaller : want[c] = Remote
    BY <1>0 DEF Kept!TypeOK
  <1>2. ASSUME st[r] = "connecting", pc[Turn(r)] = "waiting" PROVE Turn(r) \in PoolCaller
    BY <1>2, TurnIsCaller DEF Holding
  <1>3. CASE Stage(r) = "waiting"
    <2>1. st[r] = "connecting" /\ pc[Turn(r)] = "waiting" /\ Link(r) = NoReply
      <3>1. st[r] \in {"idle", "queued"} \cup Holding \cup Ended
        BY DEF IInv, TypeInv
      <3>2. st[r] = "connecting" /\ pc[Turn(r)] = "waiting"
        BY <1>3, <3>1, StageValues DEF Stage, Holding, Ended
      <3>3. Link(r) \in PoolCaller \cup {Err, NoReply}
        BY <1>0, <1>2, <3>2, LinkTypes
      <3> QED
        BY <1>3, <3>2, <3>3, StageValues DEF Stage
    <2>2. Turn(r) \in PoolCaller /\ Turn(r) \in map[Remote].waiters
      BY <1>1, <1>2, <2>1 DEF Link, Kept!IInv, Kept!NoLostWaiter
    <2>3. Turn(r)' = Turn(r) /\ reply'[Turn(r)] = result
      BY <1>0, <2>1, <2>2 DEF Turn
    <2>4. Stage(r)' = StageOf("connecting", "waiting", result) /\ Link(r)' = result
      BY <1>0, <2>1, <2>3 DEF Stage, Link
    <2>5. sent[r] = 0
      BY <2>1, TurnTypes DEF Ended
    <2> QED
      BY <1>3, <2>4, <2>5
  <1>4. CASE Stage(r) # "waiting"
    <2>1. \A n \in 0 .. MaxAttempts - 1 : reply'[<<r, n>>] = reply[<<r, n>>]
      <3> SUFFICES ASSUME NEW n \in 0 .. MaxAttempts - 1,
                          <<r, n>> \in map[Remote].waiters, pc[<<r, n>>] = "waiting"
                   PROVE  FALSE
        BY TurnTypes
      <3>1. n = attempt[r] /\ st[r] = "connecting"
        BY DEF TurnsInv, TurnOK
      <3>2. reply[<<r, n>>] = NoReply
        BY DEF Kept!WaitersInv
      <3>3. Stage(r) = StageOf("connecting", "waiting", NoReply)
        BY <3>1, <3>2 DEF Stage, Turn, Link
      <3> QED
        BY <1>4, <3>3, StageValues
    <2> QED
      BY <1>0, <1>4, <2>1, CallKept
  <1> QED
    BY <1>3, <1>4

(* A connect task publishes its connection, or its error. *)
LEMMA PublishStep ==
    ASSUME IInv, TurnsInv, Kept!IInv, Kept!WaitersInv, Kept!TypeOK',
           NEW t \in PoolCaller, Pool!Publish(t), UNCHANGED <<draining, callVars>>
    PROVE  Promise!Next
  <1>0. Kept!TypeOK /\ UNCHANGED <<st, attempt, sent, pc, conn, draining>>
    BY DEF Kept!IInv, callVars, Pool!Publish
  <1>1. want[t] = Remote /\ task[t] \in {"ok", "err"} /\ task' = [task EXCEPT ![t] = "done"]
    BY <1>0 DEF Pool!Publish, Kept!TypeOK
  <1>2. Kept!IsConnecting(Remote)
    <2>1. task[t] \in Kept!Live
      BY <1>1 DEF Kept!Live
    <2> QED
      BY <1>1, <2>1, ReplyOK, Kept!PublisherOwnsSlot
  <1> DEFINE result == IF task[t] = "ok" THEN t ELSE Err
  <1>3. /\ reply' = [c \in PoolCaller |->
                        IF c \in map[Remote].waiters /\ pc[c] = "waiting" THEN result ELSE reply[c]]
        /\ map'[Remote].tag = IF task[t] = "ok" THEN "ready" ELSE "vacant"
        /\ task[t] = "ok" => map'[Remote].conn = t
    <2>1. Pool!IsConnecting(Remote)
      BY <1>2 DEF Kept!IsConnecting, Pool!IsConnecting
    <2>2. map' = [map EXCEPT ![Remote] = IF task[t] = "ok" THEN Pool!Ready(t) ELSE Pool!Vacant]
      BY <1>1, <2>1 DEF Pool!Publish
    <2>3. map'[Remote] = IF task[t] = "ok" THEN Pool!Ready(t) ELSE Pool!Vacant
      BY <1>0, <2>2 DEF Kept!TypeOK
    <2> QED
      BY <1>1, <2>1, <2>3 DEF Pool!Publish, Pool!Ready, Pool!Vacant
  <1>4. \A r \in Call :
             /\ Stage(r) = "waiting" => /\ Stage(r)' = StageOf("connecting", "waiting", result)
                                        /\ Link(r)' = result /\ sent[r] = 0
             /\ Stage(r) # "waiting" => /\ Stage(r)' = Stage(r) /\ Via(r)' = Via(r)
                                        /\ sent[r] > 0 => Link(r)' = Link(r)
    <2> HIDE DEF result
    <2> QED
      BY <1>0, <1>2, <1>3, PublishMoves
  <1>5. Wire' = Wire
    <2>1. \A r \in Call : sent[r] > 0 => <<Link(r), r, attempt[r]>>' = <<Link(r), r, attempt[r]>>
      <3> HIDE DEF result
      <3> QED
        BY <1>0, <1>4
    <2> QED
      BY <1>0, <2>1 DEF Wire
  <1>6. Entry = Promise!Dialing
    BY <1>0, <1>2, EntryValues DEF Kept!IsConnecting
  <1>7. Conns[t] = "none" /\ Conns' = [Conns EXCEPT ![t] = Seen(t)']
    <2>1. \A k \in PoolCaller : k # t => task'[k] = task[k]
      BY <1>0, <1>1 DEF Kept!TypeOK
    <2>2. \A k \in PoolCaller : k # t => Seen(k)' = Seen(k)
      BY <1>0, <2>1 DEF Seen
    <2> QED
      BY <1>1, <2>2 DEF Conns, Seen
  <1>8. task'[t] = "done" /\ conn[t] \in {"none", "open", "closed"}
    BY <1>0, <1>1 DEF Kept!TypeOK
  <1>9. CASE task[t] = "ok"
    <2>1. Seen(t)' \in Promise!Live \cup {"closed"}
      <3>1. conn[t] # "none"
        BY <1>9 DEF Kept!IInv, Kept!Untouched
      <3> QED
        BY <1>0, <1>8, <3>1 DEF Seen, Promise!Live
    <2>2. \E state \in Promise!Live \cup {"closed"} : Conns' = [Conns EXCEPT ![t] = state]
      BY <1>7, <2>1
    <2>3. Entry' = Promise!Ready(t)
      BY <1>3, <1>9 DEF Entry, EntryOf, Promise!Ready
    <2>4. \A r \in Call : /\ Stage(r)' = IF Stages[r] = "waiting" THEN "sending" ELSE Stages[r]
                          /\ Via(r)' = IF Stages[r] = "waiting" THEN t ELSE Vias[r]
      <3>1. ASSUME NEW r \in Call, Stage(r) = "waiting" PROVE Stage(r)' = "sending" /\ Via(r)' = t
        <4>1. Stage(r)' = StageOf("connecting", "waiting", t) /\ Link(r)' = t
          BY <1>4, <1>9, <3>1
        <4>2. Stage(r)' = "sending"
          BY <4>1, StageValues
        <4> QED
          BY <4>1, <4>2 DEF Via
      <3> QED
        BY <1>4, <3>1, Shown
    <2>5. /\ Stages' = [r \in Call |-> IF r \in Promise!Waiting THEN "sending" ELSE Stages[r]]
          /\ Vias' = [r \in Call |-> IF r \in Promise!Waiting THEN t ELSE Vias[r]]
      BY <2>4 DEF Stages, Vias, Promise!Waiting
    <2>6. Promise!DialOk(t)
      BY <1>0, <1>5, <1>6, <1>7, <2>2, <2>3, <2>5 DEF Promise!DialOk
    <2> QED
      BY <2>6 DEF Promise!Next
  <1>10. CASE task[t] = "err"
    <2>1. conn[t] # "open"
      <3>1. ~(task[t] \in {"opening", "ok"}) /\ map[want[t]] # Kept!Ready(t)
        BY <1>1, <1>2, <1>10 DEF Kept!IsConnecting, Kept!Ready
      <3> QED
        BY <3>1 DEF Kept!IInv, Kept!OneOpenPerAddress
    <2>2. Seen(t)' \in {"none", "closed"}
      BY <1>0, <1>8, <2>1 DEF Seen
    <2>3. \/ Conns' = Conns
          \/ \E k \in PoolCaller : Conns[k] = "none" /\ Conns' = [Conns EXCEPT ![k] = "closed"]
      <3>1. CASE Seen(t)' = "none"
        <4>1. Conns' = [Conns EXCEPT ![t] = Conns[t]]
          BY <1>7, <3>1
        <4> QED
          BY <4>1 DEF Conns
      <3>2. CASE Seen(t)' = "closed"
        BY <1>7, <3>2
      <3> QED
        BY <2>2, <3>1, <3>2
    <2>4. Entry' = Promise!Vacant
      BY <1>3, <1>10 DEF Entry, EntryOf, Promise!Vacant
    <2>5. \A r \in Call : /\ Stage(r)' = IF Stages[r] = "waiting" THEN "failing" ELSE Stages[r]
                          /\ Via(r)' = Via(r)
      <3>1. ASSUME NEW r \in Call, Stage(r) = "waiting"
            PROVE  Stage(r)' = "failing" /\ Via(r)' = Via(r)
        <4>1. Stage(r)' = StageOf("connecting", "waiting", Err) /\ sent[r] = 0
          BY <1>4, <1>10, <3>1
        <4>2. Stage(r)' = "failing"
          BY <4>1, StageValues
        <4> QED
          BY <1>0, <3>1, <4>1, <4>2 DEF Via
      <3> QED
        BY <1>4, <3>1, Shown
    <2>6. /\ Stages' = [r \in Call |-> IF r \in Promise!Waiting THEN "failing" ELSE Stages[r]]
          /\ Vias' = Vias
      BY <2>5 DEF Stages, Vias, Promise!Waiting
    <2>7. Promise!DialErr
      BY <1>0, <1>5, <1>6, <2>3, <2>4, <2>6 DEF Promise!DialErr
    <2> QED
      BY <2>7 DEF Promise!Next
  <1> QED
    BY <1>1, <1>9, <1>10

(* What becomes of a connection, before and after it is published. *)
LEMMA ConnStep ==
    ASSUME Kept!IInv, NEW k \in PoolCaller,
           \/ PoolTask(k) /\ ~Pool!Publish(k)
           \/ ConnClose(k) \/ Goaway(k)
    PROVE  [Promise!Next]_(Promise!vars)
  <1>0. Kept!TypeOK /\ UNCHANGED <<st, attempt, sent, pc, reply, map>>
    BY DEF Kept!IInv, PoolTask, Pool!TaskStep, Pool!DialOk, Pool!DialErr, Pool!SessionOk,
           Pool!SessionErr, ConnClose, Pool!ConnClose, Goaway, poolVars, callVars
  <1>1. UNCHANGED <<Stages, Vias, Wire, Entry, attempt>>
    BY <1>0 DEF Stages, Stage, Vias, Via, Wire, Entry, Turn, Link
  <1>2. ASSUME \A j \in PoolCaller : Seen(j)' = Seen(j) PROVE UNCHANGED Promise!vars
    BY <1>1, <1>2 DEF Promise!vars, Conns
  <1>3. CASE PoolTask(k) /\ ~Pool!Publish(k)
    <2>1. /\ task[k] # "done" /\ task'[k] # "done"
          /\ \A j \in PoolCaller : j # k => task'[j] = task[j] /\ conn'[j] = conn[j]
          /\ UNCHANGED draining
      BY <1>0, <1>3
      DEF PoolTask, Pool!TaskStep, Pool!DialOk, Pool!DialErr, Pool!SessionOk, Pool!SessionErr,
          Kept!TypeOK
    <2> QED
      BY <1>2, <2>1 DEF Seen
  <1>4. CASE ConnClose(k)
    <2>1. /\ conn[k] = "open" /\ conn'[k] = "closed" /\ UNCHANGED task
          /\ draining' = draining \ {k}
          /\ \A j \in PoolCaller : j # k => conn'[j] = conn[j]
      BY <1>0, <1>4 DEF ConnClose, Pool!ConnClose, Kept!TypeOK
    <2>2. \A j \in PoolCaller : j # k => Seen(j)' = Seen(j)
      BY <2>1 DEF Seen
    <2>3. CASE task[k] = "done"
      <3>1. Conns[k] \in Promise!Live /\ Seen(k)' = "closed"
        BY <2>1, <2>3 DEF Conns, Seen, Promise!Live
      <3>2. Conns' = [Conns EXCEPT ![k] = "closed"]
        BY <2>2, <3>1 DEF Conns
      <3>3. Promise!Close(k)
        BY <1>1, <3>1, <3>2 DEF Promise!Close
      <3> QED
        BY <3>3 DEF Promise!Next
    <2>4. CASE task[k] # "done"
      <3>1. Seen(k)' = Seen(k)
        BY <2>1, <2>4 DEF Seen
      <3> QED
        BY <1>2, <2>2, <3>1
    <2> QED
      BY <2>3, <2>4
  <1>5. CASE Goaway(k)
    <2>1. /\ conn[k] = "open" /\ k \notin draining /\ draining' = draining \cup {k}
          /\ UNCHANGED <<conn, task>>
      BY <1>5 DEF Goaway, poolVars
    <2>2. \A j \in PoolCaller : j # k => Seen(j)' = Seen(j)
      BY <2>1 DEF Seen
    <2>3. CASE task[k] = "done"
      <3>1. Conns[k] = "open" /\ Seen(k)' = "goaway"
        BY <2>1, <2>3 DEF Conns, Seen
      <3>2. Conns' = [Conns EXCEPT ![k] = "goaway"]
        BY <2>2, <3>1 DEF Conns
      <3>3. Promise!Goaway(k)
        BY <1>1, <3>1, <3>2 DEF Promise!Goaway
      <3> QED
        BY <3>3 DEF Promise!Next
    <2>4. CASE task[k] # "done"
      <3>1. Seen(k)' = Seen(k)
        BY <2>1, <2>4 DEF Seen
      <3> QED
        BY <1>2, <2>2, <3>1
    <2> QED
      BY <2>3, <2>4
  <1> QED
    BY <1>3, <1>4, <1>5

-----------------------------------------------------------------------------
(* At first the promise begins too. *)
LEMMA InitPromise == Init => Promise!Init
  <1> SUFFICES ASSUME Init PROVE Promise!Init
    OBVIOUS
  <1>1. Conns = [k \in PoolCaller |-> "none"]
    BY DEF Init, Pool!Init, Conns, Seen
  <1>2. map[Remote].tag = "vacant"
    BY DEF Init, Pool!Init, Pool!Vacant
  <1>3. Entry = Promise!Vacant
    BY <1>2 DEF Entry, EntryOf, Promise!Vacant
  <1>4. \A r \in Call : Stage(r) = "idle"
    BY StageValues DEF Init, Stage
  <1>5. \A r \in Call : sent[r] = 0
    BY DEF Init
  <1>6. Stages = [r \in Call |-> "idle"] /\ Vias = [r \in Call |-> NoReply]
    BY <1>4, <1>5 DEF Stages, Vias, Via
  <1>7. Wire = {}
    BY <1>5 DEF Wire
  <1> QED
    BY <1>1, <1>3, <1>6, <1>7 DEF Init, Promise!Init

(* Each step of the channel is a step of the promise, or goes unseen. *)
LEMMA StepPromise ==
    ASSUME IInv, TurnsInv, Kept!IInv, Kept!WaitersInv, Kept!TypeOK', [Next]_vars
    PROVE  [Promise!Next]_(Promise!vars)
  <1>0. Kept!TypeOK
    BY DEF Kept!IInv
  <1>1. ASSUME NEW r \in Call,
               \/ Begin(r) \/ BackoffOver(r) \/ Connected(r)
               \/ BodyDeadline(r) \/ BodyDropped(r) \/ ForwarderEnds(r)
        PROVE  UNCHANGED Promise!vars
    BY <1>1, UnseenSteps
  <1>2. ASSUME NEW r \in Call,
               \/ Acquire(r) \/ Lookup(r)
               \/ SendOk(r) \/ SendErr(r) \/ BuildErr(r)
               \/ InvalidateAndContinue(r) \/ ResponseOk(r) \/ ResponseErr(r)
               \/ DeadlineFires(r) \/ UserDrops(r)
        PROVE  Promise!Next
    BY <1>0, <1>2, AcquireStep, LookupStep, SendStep, ContinueStep, ResponseStep, DropStep
  <1>3. ASSUME NEW k \in PoolCaller, PoolTask(k) \/ ConnClose(k) \/ Goaway(k)
        PROVE  [Promise!Next]_(Promise!vars)
    <2>1. CASE Pool!Publish(k) /\ PoolTask(k)
      BY <2>1, PublishStep DEF PoolTask
    <2>2. CASE ~(Pool!Publish(k) /\ PoolTask(k))
      BY <1>3, <2>2, ConnStep
    <2> QED
      BY <2>1, <2>2
  <1>4. ASSUME AllDone \/ UNCHANGED vars PROVE UNCHANGED Promise!vars
    BY <1>4
    DEF AllDone, vars, poolVars, callVars, Promise!vars, Conns, Seen, Entry, Stages, Stage,
        Vias, Via, Wire, Turn, Link
  <1> QED
    BY <1>1, <1>2, <1>3, <1>4 DEF Next, CallStep

(* The channel keeps the promise that System relies on: whatever permits,  *)
(* deadlines, drops, shared dials and backoffs do, a call of it is a call  *)
(* of ClientPromise, step for step.                                        *)
THEOREM ClientPromisedCorrect == Spec => ClientPromised
  <1>1. IInv /\ TurnsInv /\ Kept!IInv /\ [Next]_vars => TurnsInv'
    BY StepTurnsInv DEF Kept!IInv
  <1>2. Kept!Spec => []Kept!IInv /\ []Kept!WaitersInv
    BY ReplyOK, Kept!Invariance, Kept!WaitersUnanswered, PTL
  <1>3. Kept!IInv => Kept!TypeOK
    BY DEF Kept!IInv
  <1>4. IInv /\ TurnsInv /\ Kept!IInv /\ Kept!WaitersInv /\ Kept!TypeOK' /\ [Next]_vars
          => [Promise!Next]_(Promise!vars)
    BY StepPromise
  <1> QED
    BY <1>1, <1>2, <1>3, <1>4, InitTurnsInv, InitPromise, Inductive, KeptSpec, PTL
    DEF Spec, ClientPromised, Promise!Spec

(* What is proved of the promise, for the channel's calls. *)
Told == INSTANCE ClientPromiseProofs
    WITH Conn <- PoolCaller, None <- NoReply,
         cl <- Conns, slot <- Entry, st <- Stages, via <- Vias, sent <- Wire

(* The promise the channel keeps is the one that is proved about. *)
LEMMA ToldInit == Promise!Init => Told!Init
  BY DEF Promise!Init, Told!Init, Promise!Vacant, Told!Vacant

LEMMA ToldStep == [Promise!Next]_(Promise!vars) => [Told!Next]_(Told!vars)
  <1> USE DEF Promise!Moves, Promise!Stale, Promise!Waiting, Promise!Vacant,
              Promise!Dialing, Promise!Ready, Promise!Asked, Promise!Live, Promise!Ended,
              Told!Moves, Told!Stale, Told!Waiting, Told!Vacant, Told!Dialing,
              Told!Ready, Told!Asked, Told!Live, Told!Ended
  <1>1. ASSUME NEW r \in Call, Promise!Begin(r) \/ Promise!Lookup(r) PROVE Told!Next
    BY <1>1
    DEF Promise!Begin, Promise!Lookup, Promise!Use, Promise!Join, Promise!Dial,
        Told!Begin, Told!Lookup, Told!Use, Told!Join, Told!Dial, Told!Next
  <1>2. ASSUME NEW r \in Call,
               \/ Promise!SendOk(r) \/ Promise!SendErr(r) \/ Promise!Continue(r)
               \/ Promise!ResponseOk(r) \/ Promise!Fail(r)
        PROVE  Told!Next
    BY <1>2
    DEF Promise!SendOk, Promise!SendErr, Promise!Continue, Promise!ResponseOk, Promise!Fail,
        Told!SendOk, Told!SendErr, Told!Continue, Told!ResponseOk, Told!Fail, Told!Next
  <1>3. CASE Promise!DialErr
    BY <1>3 DEF Promise!DialErr, Told!DialErr, Told!Next
  <1>4. ASSUME NEW k \in PoolCaller,
               Promise!DialOk(k) \/ Promise!Goaway(k) \/ Promise!Close(k)
        PROVE  Told!Next
    BY <1>4
    DEF Promise!DialOk, Promise!Goaway, Promise!Close, Told!DialOk, Told!Goaway, Told!Close,
        Told!Next
  <1>5. UNCHANGED Promise!vars => UNCHANGED Told!vars
    BY DEF Promise!vars, Told!vars
  <1> QED
    BY <1>1, <1>2, <1>3, <1>4, <1>5 DEF Promise!Next

LEMMA ToldSpec == Spec => Told!Spec
  <1>1. ClientPromised => Told!Spec
    BY ToldInit, ToldStep, PTL DEF ClientPromised, Promise!Spec, Told!Spec
  <1> QED
    BY <1>1, ClientPromisedCorrect

(* So of the channel itself: no call is given a connection that had closed *)
(* before, whether the call looks it up or is handed it by a dial it has   *)
(* joined.                                                                 *)
THEOREM ChannelNeverGivenClosed == Spec => Told!NeverGivenClosed
  <1>1. Told!ClientAssumption
    BY ChannelAssumption DEF Told!ClientAssumption
  <1>2. Told!Spec => Told!NeverGivenClosed
    BY <1>1, Told!NeverGivenClosedCorrect
  <1> QED
    BY <1>2, ToldSpec
=============================================================================
