------------------------ MODULE ConnectionPoolProofs ------------------------
(***************************************************************************)
(* Proofs that the connection pool dials an address once at a time, loses  *)
(* no waiter, leaks no connection and keeps an open entry, for every set   *)
(* of addresses and callers.                                               *)
(***************************************************************************)
EXTENDS ConnectionPool, TLAPS

(* What a caller that has not begun, and a task that has not dialled, have *)
(* not done yet.                                                           *)
Untouched ==
    \A c \in Caller :
        /\ pc[c] = "idle" => task[c] = "none" /\ reply[c] = NoReply
        /\ task[c] \in {"none", "dialing"} => conn[c] = "none"
        /\ task[c] \in {"opening", "ok"} => conn[c] # "none"

(* What a slot holds belongs to its address. *)
SlotMatches ==
    \A a \in Addr :
        /\ map[a].tag = "ready" =>
              /\ want[map[a].conn] = a
              /\ task[map[a].conn] = "done"
              /\ conn[map[a].conn] # "none"
        /\ IsConnecting(a) => \A w \in map[a].waiters : want[w] = a

(* The inductive invariant: SingleFlight lets Publish conclude that the    *)
(* slot it finds is its own, SlotMatches that the entry it leaves is.      *)
IInv == /\ TypeOK
        /\ Untouched
        /\ SlotMatches
        /\ SingleFlight
        /\ NoLostWaiter
        /\ OneOpenPerAddress
        /\ RightConnection

-----------------------------------------------------------------------------
(* The three shapes of a slot are told apart by the tag. *)
LEMMA SlotShapes ==
    ASSUME NEW s \in Slot
    PROVE  /\ s.tag \in {"vacant", "connecting", "ready"}
           /\ s.tag = "vacant" <=> s = Vacant
           /\ s.tag = "connecting" => /\ s.waiters \in SUBSET Caller
                                      /\ s = Connecting(s.waiters)
           /\ s.tag = "ready" => /\ s.conn \in Caller
                                 /\ s = Ready(s.conn)
BY DEF Slot, Vacant, Connecting, Ready

(* The constructors build slots with the tag they are named for. *)
LEMMA SlotMade ==
    /\ Vacant \in Slot /\ Vacant.tag = "vacant"
    /\ \A W \in SUBSET Caller :
          /\ Connecting(W) \in Slot
          /\ Connecting(W).tag = "connecting"
          /\ Connecting(W).waiters = W
    /\ \A k \in Caller :
          /\ Ready(k) \in Slot
          /\ Ready(k).tag = "ready"
          /\ Ready(k).conn = k
BY DEF Slot, Vacant, Connecting, Ready

LEMMA InitIInv == Init => IInv
BY SlotMade, ReplyAssumption
   DEF Init, IInv, TypeOK, Untouched, SlotMatches, SingleFlight, NoLostWaiter,
       OneOpenPerAddress, RightConnection, IsConnecting, LiveTasks, Live

(* Every step keeps the variables in their types. *)
LEMMA TypeStep == TypeOK /\ [Next]_vars => TypeOK'
<1> SUFFICES ASSUME TypeOK, [Next]_vars PROVE TypeOK'
    OBVIOUS
<1> USE DEF TypeOK
<1>1. ASSUME NEW c \in Caller, ReuseReady(c) PROVE TypeOK'
    BY <1>1, SlotShapes DEF ReuseReady
<1>2. ASSUME NEW c \in Caller, JoinConnecting(c) PROVE TypeOK'
    BY <1>2, SlotShapes, SlotMade DEF JoinConnecting, IsConnecting
<1>3. ASSUME NEW c \in Caller, StartConnecting(c) PROVE TypeOK'
    BY <1>3, SlotMade DEF StartConnecting, Live
<1>4. ASSUME NEW t \in Caller, DialOk(t) \/ DialErr(t) PROVE TypeOK'
    BY <1>4 DEF DialOk, DialErr, Live
<1>5. ASSUME NEW t \in Caller, SessionOk(t) \/ SessionErr(t) PROVE TypeOK'
    BY <1>5 DEF SessionOk, SessionErr, Live
<1>6. ASSUME NEW t \in Caller, Publish(t) PROVE TypeOK'
    BY <1>6, SlotMade DEF Publish
<1>7. ASSUME NEW c \in Caller, Receive(c) \/ Cancel(c) PROVE TypeOK'
    BY <1>7 DEF Receive, Cancel
<1>8. ASSUME NEW c \in Caller, Invalidate(c) PROVE TypeOK'
    BY <1>8, SlotMade DEF Invalidate, Stale
<1>9. ASSUME NEW k \in Caller, ConnClose(k) PROVE TypeOK'
    BY <1>9 DEF ConnClose
<1>10. CASE UNCHANGED vars
    BY <1>10 DEF vars
<1> QED
    BY <1>1, <1>2, <1>3, <1>4, <1>5, <1>6, <1>7, <1>8, <1>9, <1>10
       DEF Next, TaskStep, AllDone

(* The variables of the pool always have their types. *)
THEOREM TypeCorrect == Spec => []TypeOK
<1>1. Init => TypeOK
    BY InitIInv DEF IInv
<1> QED
    BY <1>1, TypeStep, PTL DEF Spec

-----------------------------------------------------------------------------
(* The task that publishes finds the slot of its address Connecting, with  *)
(* itself the only task that runs for it.                                  *)
LEMMA PublisherOwnsSlot ==
    ASSUME IInv, NEW t \in Caller, task[t] \in Live
    PROVE  /\ IsConnecting(want[t])
           /\ \A u \in Caller : want[u] = want[t] /\ task[u] \in Live => u = t
<1>1. t \in LiveTasks(want[t])
    BY DEF LiveTasks
<1> QED
    BY <1>1 DEF IInv, TypeOK, SingleFlight, LiveTasks

(* Every step keeps the inductive invariant. *)
LEMMA StepIInv == IInv /\ [Next]_vars => IInv'
<1> SUFFICES ASSUME IInv, [Next]_vars PROVE IInv'
    OBVIOUS
<1> USE DEF IsConnecting
<1>t. TypeOK /\ TypeOK'
    BY TypeStep DEF IInv
<1>1. ASSUME NEW c \in Caller, ReuseReady(c) PROVE IInv'
  <2>1. Untouched'
       BY <1>1, <1>t
       DEF ReuseReady, TypeOK, IInv, Untouched
  <2>2. NoLostWaiter'
       BY <1>1, <1>t, SlotShapes, ReplyAssumption
       DEF ReuseReady, TypeOK, IInv, NoLostWaiter
  <2>3. RightConnection'
       BY <1>1, <1>t, SlotShapes
       DEF ReuseReady, TypeOK, IInv, RightConnection, SlotMatches
  <2>4. SlotMatches' /\ SingleFlight' /\ OneOpenPerAddress'
       BY <1>1 DEF ReuseReady, IInv, SlotMatches, SingleFlight, OneOpenPerAddress, LiveTasks
  <2> QED
       BY <1>t, <2>1, <2>2, <2>3, <2>4 DEF IInv
<1>2. ASSUME NEW c \in Caller, JoinConnecting(c) PROVE IInv'
  <2>1. Untouched'
       BY <1>2, <1>t
       DEF JoinConnecting, TypeOK, IInv, Untouched
  <2>2. SlotMatches'
       BY <1>2, <1>t, SlotShapes, SlotMade
       DEF JoinConnecting, TypeOK, IInv, SlotMatches
  <2>3. SingleFlight'
       BY <1>2, <1>t, SlotShapes, SlotMade
       DEF JoinConnecting, TypeOK, IInv, SingleFlight, LiveTasks, Live
  <2>4. NoLostWaiter'
       BY <1>2, <1>t, SlotShapes, SlotMade
       DEF JoinConnecting, TypeOK, IInv, NoLostWaiter
  <2>5. OneOpenPerAddress'
       BY <1>2, <1>t, SlotShapes, SlotMade
       DEF JoinConnecting, TypeOK, IInv, OneOpenPerAddress
  <2>6. RightConnection'
       BY <1>2 DEF JoinConnecting, IInv, RightConnection
  <2> QED
       BY <1>t, <2>1, <2>2, <2>3, <2>4, <2>5, <2>6 DEF IInv
<1>3. ASSUME NEW c \in Caller, StartConnecting(c) PROVE IInv'
  <2>1. Untouched'
       BY <1>3, <1>t
       DEF StartConnecting, TypeOK, IInv, Untouched
  <2>2. SlotMatches'
       BY <1>3, <1>t, SlotMade
       DEF StartConnecting, TypeOK, IInv, SlotMatches, Untouched
  <2>3. SingleFlight'
       BY <1>3, <1>t, SlotMade
       DEF StartConnecting, TypeOK, IInv, SingleFlight, Untouched, MustDial, Stale, LiveTasks, Live
  <2>4. NoLostWaiter'
       BY <1>3, <1>t, SlotMade
       DEF StartConnecting, TypeOK, IInv, NoLostWaiter, MustDial, Stale
  <2>5. OneOpenPerAddress'
       BY <1>3, <1>t, SlotMade
       DEF StartConnecting, TypeOK, IInv, OneOpenPerAddress, Untouched, MustDial, Stale, IsClosed
  <2>6. RightConnection'
       BY <1>3, <1>t
       DEF StartConnecting, TypeOK, IInv, RightConnection, Untouched
  <2> QED
       BY <1>t, <2>1, <2>2, <2>3, <2>4, <2>5, <2>6 DEF IInv
<1>4. ASSUME NEW t \in Caller, DialOk(t) PROVE IInv'
  <2>1. Untouched'
       BY <1>4, <1>t
       DEF DialOk, TypeOK, IInv, Untouched
  <2>2. SlotMatches'
       BY <1>4, <1>t, SlotShapes
       DEF DialOk, TypeOK, IInv, SlotMatches
  <2>3. SingleFlight'
       BY <1>4, <1>t
       DEF DialOk, TypeOK, IInv, SingleFlight, LiveTasks, Live
  <2>4. OneOpenPerAddress'
       BY <1>4, <1>t, PublisherOwnsSlot, SlotMade
       DEF DialOk, TypeOK, IInv, OneOpenPerAddress, Live
  <2>5. RightConnection'
       BY <1>4, <1>t
       DEF DialOk, TypeOK, IInv, RightConnection
  <2>6. NoLostWaiter'
       BY <1>4 DEF DialOk, IInv, NoLostWaiter
  <2> QED
       BY <1>t, <2>1, <2>2, <2>3, <2>4, <2>5, <2>6 DEF IInv
<1>5. ASSUME NEW t \in Caller, DialErr(t) PROVE IInv'
  <2>1. Untouched'
       BY <1>5, <1>t
       DEF DialErr, TypeOK, IInv, Untouched
  <2>2. SlotMatches'
       BY <1>5, <1>t, SlotShapes
       DEF DialErr, TypeOK, IInv, SlotMatches
  <2>3. SingleFlight'
       BY <1>5, <1>t
       DEF DialErr, TypeOK, IInv, SingleFlight, LiveTasks, Live
  <2>4. OneOpenPerAddress'
       BY <1>5, <1>t
       DEF DialErr, TypeOK, IInv, OneOpenPerAddress
  <2>5. RightConnection'
       BY <1>5, <1>t
       DEF DialErr, TypeOK, IInv, RightConnection
  <2>6. NoLostWaiter'
       BY <1>5 DEF DialErr, IInv, NoLostWaiter
  <2> QED
       BY <1>t, <2>1, <2>2, <2>3, <2>4, <2>5, <2>6 DEF IInv
<1>6. ASSUME NEW t \in Caller, SessionOk(t) PROVE IInv'
  <2>1. Untouched'
       BY <1>6, <1>t
       DEF SessionOk, TypeOK, IInv, Untouched
  <2>2. SlotMatches'
       BY <1>6, <1>t, SlotShapes
       DEF SessionOk, TypeOK, IInv, SlotMatches
  <2>3. SingleFlight'
       BY <1>6, <1>t
       DEF SessionOk, TypeOK, IInv, SingleFlight, LiveTasks, Live
  <2>4. OneOpenPerAddress'
       BY <1>6, <1>t
       DEF SessionOk, TypeOK, IInv, OneOpenPerAddress
  <2>5. RightConnection'
       BY <1>6, <1>t
       DEF SessionOk, TypeOK, IInv, RightConnection
  <2>6. NoLostWaiter'
       BY <1>6 DEF SessionOk, IInv, NoLostWaiter
  <2> QED
       BY <1>t, <2>1, <2>2, <2>3, <2>4, <2>5, <2>6 DEF IInv
<1>7. ASSUME NEW t \in Caller, SessionErr(t) PROVE IInv'
  <2>1. Untouched'
       BY <1>7, <1>t
       DEF SessionErr, TypeOK, IInv, Untouched
  <2>2. SlotMatches'
       BY <1>7, <1>t, SlotShapes
       DEF SessionErr, TypeOK, IInv, SlotMatches
  <2>3. SingleFlight'
       BY <1>7, <1>t
       DEF SessionErr, TypeOK, IInv, SingleFlight, LiveTasks, Live
  <2>4. OneOpenPerAddress'
       BY <1>7, <1>t
       DEF SessionErr, TypeOK, IInv, OneOpenPerAddress
  <2>5. RightConnection'
       BY <1>7, <1>t
       DEF SessionErr, TypeOK, IInv, RightConnection
  <2>6. NoLostWaiter'
       BY <1>7 DEF SessionErr, IInv, NoLostWaiter
  <2> QED
       BY <1>t, <2>1, <2>2, <2>3, <2>4, <2>5, <2>6 DEF IInv
<1>8. ASSUME NEW t \in Caller, Publish(t) PROVE IInv'
  <2>1. Untouched'
       BY <1>8, <1>t
       DEF Publish, TypeOK, IInv, Untouched
  <2>2. SlotMatches'
       BY <1>8, <1>t, SlotMade, SlotShapes
       DEF Publish, TypeOK, IInv, SlotMatches, Untouched
  <2>3. SingleFlight'
       BY <1>8, <1>t, PublisherOwnsSlot, SlotMade
       DEF Publish, TypeOK, IInv, SingleFlight, LiveTasks, Live
  <2>4. NoLostWaiter'
       BY <1>8, <1>t, PublisherOwnsSlot, ReplyAssumption
       DEF Publish, TypeOK, IInv, NoLostWaiter, Live
  <2>5. OneOpenPerAddress'
       BY <1>8, <1>t, PublisherOwnsSlot, SlotMade
       DEF Publish, TypeOK, IInv, OneOpenPerAddress, Live
  <2>6. RightConnection'
       BY <1>8, <1>t, PublisherOwnsSlot, ReplyAssumption, SlotShapes
       DEF Publish, TypeOK, IInv, RightConnection, Untouched, SlotMatches, Live
  <2> QED
       BY <1>t, <2>1, <2>2, <2>3, <2>4, <2>5, <2>6 DEF IInv
<1>9. ASSUME NEW c \in Caller, Receive(c) \/ Cancel(c) PROVE IInv'
  <2>1. Untouched'
       BY <1>9, <1>t
       DEF Receive, Cancel, TypeOK, IInv, Untouched
  <2>2. NoLostWaiter'
       BY <1>9, <1>t
       DEF Receive, Cancel, TypeOK, IInv, NoLostWaiter
  <2>3. SlotMatches' /\ SingleFlight' /\ OneOpenPerAddress' /\ RightConnection'
       BY <1>9 DEF Receive, Cancel, IInv, SlotMatches, SingleFlight, OneOpenPerAddress, RightConnection, LiveTasks
  <2> QED
       BY <1>t, <2>1, <2>2, <2>3 DEF IInv
<1>10. ASSUME NEW c \in Caller, Invalidate(c) PROVE IInv'
  <2>1. SlotMatches'
       BY <1>10, <1>t, SlotMade
       DEF Invalidate, Stale, TypeOK, IInv, SlotMatches
  <2>2. SingleFlight'
       BY <1>10, <1>t, SlotMade
       DEF Invalidate, Stale, TypeOK, IInv, SingleFlight, LiveTasks, Live
  <2>3. NoLostWaiter'
       BY <1>10, <1>t, SlotMade
       DEF Invalidate, Stale, TypeOK, IInv, NoLostWaiter
  <2>4. OneOpenPerAddress'
       BY <1>10, <1>t, SlotMade
       DEF Invalidate, Stale, TypeOK, IInv, OneOpenPerAddress, IsClosed
  <2>5. Untouched' /\ RightConnection'
       BY <1>10 DEF Invalidate, IInv, Untouched, RightConnection
  <2> QED
       BY <1>t, <2>1, <2>2, <2>3, <2>4, <2>5 DEF IInv
<1>11. ASSUME NEW k \in Caller, ConnClose(k) PROVE IInv'
  <2>1. Untouched'
       BY <1>11, <1>t
       DEF ConnClose, TypeOK, IInv, Untouched
  <2>2. SlotMatches'
       BY <1>11, <1>t
       DEF ConnClose, TypeOK, IInv, SlotMatches
  <2>3. OneOpenPerAddress'
       BY <1>11, <1>t
       DEF ConnClose, TypeOK, IInv, OneOpenPerAddress
  <2>4. RightConnection'
       BY <1>11, <1>t
       DEF ConnClose, TypeOK, IInv, RightConnection
  <2>5. SingleFlight' /\ NoLostWaiter'
       BY <1>11 DEF ConnClose, IInv, SingleFlight, NoLostWaiter, LiveTasks
  <2> QED
       BY <1>t, <2>1, <2>2, <2>3, <2>4, <2>5 DEF IInv
<1>12. CASE UNCHANGED vars
    BY <1>12, <1>t DEF vars, IInv, Untouched, SlotMatches, SingleFlight,
       NoLostWaiter, OneOpenPerAddress, RightConnection, LiveTasks
<1> QED
    BY <1>1, <1>2, <1>3, <1>4, <1>5, <1>6, <1>7, <1>8, <1>9, <1>10, <1>11, <1>12
       DEF Next, TaskStep, AllDone

-----------------------------------------------------------------------------
(* In every reachable state slots, tasks, replies and connections agree. *)
LEMMA Invariance == Spec => []IInv
<1> QED
    BY InitIInv, StepIInv, PTL DEF Spec

(* get_or_connect never dials an address while a dial of it runs: the slot *)
(* is Connecting exactly as long as one task, and only one, is alive.      *)
THEOREM SingleFlightCorrect == Spec => []SingleFlight
<1>1. IInv => SingleFlight
    BY DEF IInv
<1> QED
    BY <1>1, Invariance, PTL

(* A waiter with an empty channel is always registered with a dial. *)
THEOREM NoLostWaiterCorrect == Spec => []NoLostWaiter
<1>1. IInv => NoLostWaiter
    BY DEF IInv
<1> QED
    BY <1>1, Invariance, PTL

(* The pool and its tasks hold at most one open connection per address and *)
(* leak none.                                                              *)
THEOREM OneOpenPerAddressCorrect == Spec => []OneOpenPerAddress
<1>1. IInv => OneOpenPerAddress
    BY DEF IInv
<1> QED
    BY <1>1, Invariance, PTL

(* Callers are given published connections to the address they asked for.  *)
THEOREM RightConnectionCorrect == Spec => []RightConnection
<1>1. IInv => RightConnection
    BY DEF IInv
<1> QED
    BY <1>1, Invariance, PTL

(* No step of get_or_connect, of a connect task or of invalidate takes an  *)
(* open connection out of the pool.                                        *)
THEOREM LiveEntryKeptCorrect == Spec => LiveEntryKept
<1> DEFINE Kept == \A k \in Caller :
                      map[want[k]] = Ready(k) /\ conn[k] = "open"
                          => map'[want[k]] = Ready(k)
<1>1. IInv /\ [Next]_vars => [Kept]_vars
  <2> SUFFICES ASSUME IInv, Next, NEW k \in Caller,
                      map[want[k]] = Ready(k), conn[k] = "open"
               PROVE  map'[want[k]] = Ready(k)
      BY DEF vars
  <2> USE SlotMade DEF IsConnecting
  <2>t. TypeOK /\ map[want[k]].tag = "ready" /\ map[want[k]].conn = k
      BY DEF IInv
  <2>1. ASSUME NEW c \in Caller, JoinConnecting(c) \/ StartConnecting(c) \/ Invalidate(c)
        PROVE  map'[want[k]] = Ready(k)
      BY <2>1, <2>t DEF JoinConnecting, StartConnecting, MustDial, Stale, Invalidate, IsClosed, TypeOK
  <2>2. ASSUME NEW t \in Caller, Publish(t)
        PROVE  map'[want[k]] = Ready(k)
    <3>1. IsConnecting(want[t])
        BY <2>2, PublisherOwnsSlot DEF Publish, Live
    <3> QED
        BY <2>2, <2>t, <3>1 DEF Publish, TypeOK
  <2>3. ASSUME UNCHANGED map
        PROVE  map'[want[k]] = Ready(k)
      BY <2>3
  <2> QED
      BY <2>1, <2>2, <2>3
         DEF Next, TaskStep, AllDone, vars, ReuseReady, DialOk, DialErr, SessionOk,
             SessionErr, Receive, Cancel, ConnClose
<1> QED
    BY <1>1, Invariance, PTL DEF Spec, LiveEntryKept

(* All who shared a dial learn the same outcome. *)
THEOREM SharedOutcomeCorrect == Spec => SharedOutcome
<1> DEFINE Shared == \A a \in Addr : IsConnecting(a) =>
                        \A c, d \in map[a].waiters :
                            reply'[c] # reply[c] /\ reply'[d] # reply[d]
                                => reply'[c] = reply'[d]
<1>1. IInv /\ [Next]_vars => [Shared]_vars
  <2> SUFFICES ASSUME IInv, Next, NEW a \in Addr, IsConnecting(a),
                      NEW c \in map[a].waiters, NEW d \in map[a].waiters,
                      reply'[c] # reply[c], reply'[d] # reply[d]
               PROVE  reply'[c] = reply'[d]
      BY DEF vars
  <2>t. TypeOK /\ c \in Caller /\ d \in Caller /\ want[c] = want[d]
      BY SlotShapes DEF IInv, TypeOK, SlotMatches, IsConnecting
  <2>1. CASE \E t \in Caller : Publish(t)
      BY <2>1, <2>t DEF Publish, TypeOK
  <2>2. CASE \E e \in Caller : ReuseReady(e)
      BY <2>2, <2>t DEF ReuseReady, TypeOK
  <2>3. CASE UNCHANGED reply
      BY <2>3
  <2> QED
      BY <2>1, <2>2, <2>3
         DEF Next, TaskStep, AllDone, vars, JoinConnecting, StartConnecting, DialOk, DialErr,
             SessionOk, SessionErr, Receive, Cancel, Invalidate, ConnClose
<1> QED
    BY <1>1, Invariance, PTL DEF Spec, SharedOutcome

(* Who is registered with a slot has begun, and has no reply yet: what the *)
(* publication sends is the first that comes through its channel.          *)
WaitersInv == \A a \in Addr : IsConnecting(a) =>
                 \A w \in map[a].waiters : pc[w] # "idle" /\ reply[w] = NoReply

LEMMA StepWaitersInv == ASSUME IInv, WaitersInv, [Next]_vars PROVE WaitersInv'
<1> USE DEF IsConnecting
<1>t. TypeOK
    BY DEF IInv
<1>w. \A a \in Addr : map[a].tag = "connecting" => map[a].waiters \in SUBSET Caller
    BY <1>t, SlotShapes DEF TypeOK
<1>1. ASSUME NEW c \in Caller, ReuseReady(c) PROVE WaitersInv'
    BY <1>t, <1>1, SlotShapes DEF ReuseReady, TypeOK, WaitersInv
<1>2. ASSUME NEW c \in Caller, JoinConnecting(c) PROVE WaitersInv'
  <2>1. /\ want[c] \in Addr /\ reply[c] = NoReply
        /\ map[want[c]].waiters \in SUBSET Caller
      BY <1>t, <1>2, SlotShapes DEF JoinConnecting, TypeOK, IInv, Untouched
  <2>2. /\ map'[want[c]].waiters = map[want[c]].waiters \cup {c}
        /\ \A a \in Addr : a # want[c] => map'[a] = map[a]
      BY <1>t, <1>2, <2>1, SlotMade DEF JoinConnecting, TypeOK
  <2>3. pc' = [pc EXCEPT ![c] = "waiting"] /\ UNCHANGED reply /\ map[want[c]].tag = "connecting"
      BY <1>2 DEF JoinConnecting
  <2> QED
      BY <1>t, <1>w, <2>1, <2>2, <2>3 DEF TypeOK, WaitersInv
<1>3. ASSUME NEW c \in Caller, StartConnecting(c) PROVE WaitersInv'
  <2>1. want[c] \in Addr /\ reply[c] = NoReply
      BY <1>t, <1>3 DEF StartConnecting, TypeOK, IInv, Untouched
  <2>2. /\ map'[want[c]].waiters = {c}
        /\ \A a \in Addr : a # want[c] => map'[a] = map[a]
      BY <1>t, <1>3, <2>1, SlotMade DEF StartConnecting, TypeOK
  <2>3. pc' = [pc EXCEPT ![c] = "waiting"] /\ UNCHANGED reply
      BY <1>3 DEF StartConnecting
  <2> QED
      BY <1>t, <1>w, <2>1, <2>2, <2>3 DEF TypeOK, WaitersInv
<1>4. ASSUME NEW t \in Caller, Publish(t) PROVE WaitersInv'
  <2>1. want[t] \in Addr /\ IsConnecting(want[t])
      BY <1>t, <1>4, PublisherOwnsSlot DEF Publish, TypeOK, Live
  <2>2. /\ map'[want[t]].tag # "connecting"
        /\ \A a \in Addr : a # want[t] => map'[a] = map[a]
      BY <1>t, <1>4, <2>1, SlotMade DEF Publish, TypeOK
  <2>3. ASSUME NEW a \in Addr, a # want[t], map[a].tag = "connecting", NEW w \in map[a].waiters
        PROVE  w \in Caller /\ reply'[w] = reply[w]
    <3>1. w \in Caller /\ want[w] = a
        BY <1>t, <2>3, SlotShapes DEF TypeOK, IInv, SlotMatches
    <3>2. w \notin map[want[t]].waiters
        BY <2>1, <2>3, <3>1 DEF IInv, SlotMatches
    <3> QED
        BY <1>4, <2>1, <3>1, <3>2 DEF Publish
  <2>4. UNCHANGED pc
      BY <1>4 DEF Publish
  <2> QED
      BY <2>2, <2>3, <2>4 DEF WaitersInv
<1>5. ASSUME NEW c \in Caller, Receive(c) \/ Cancel(c) PROVE WaitersInv'
    BY <1>t, <1>w, <1>5 DEF Receive, Cancel, TypeOK, WaitersInv
<1>6. ASSUME NEW c \in Caller, Invalidate(c) PROVE WaitersInv'
  <2>1. \A a \in Addr : map'[a].tag = "connecting" => map'[a] = map[a]
      BY <1>t, <1>6, SlotMade DEF Invalidate, TypeOK
  <2> QED
      BY <1>6, <2>1 DEF Invalidate, WaitersInv
<1>7. CASE UNCHANGED <<map, pc, reply>>
    BY <1>7 DEF WaitersInv
<1> QED
    BY <1>1, <1>2, <1>3, <1>4, <1>5, <1>6, <1>7
       DEF Next, TaskStep, DialOk, DialErr, SessionOk, SessionErr, ConnClose, AllDone, vars

(* So it is in every behaviour of the pool. *)
LEMMA WaitersUnanswered == Spec => []WaitersInv
<1>1. Init => WaitersInv
    BY SlotMade DEF Init, WaitersInv, IsConnecting
<1>2. IInv /\ WaitersInv /\ [Next]_vars => WaitersInv'
    BY StepWaitersInv
<1> QED
    BY <1>1, <1>2, Invariance, PTL DEF Spec

(* A reply that is given a second time is the connection in the pool, and  *)
(* it is open when it is given.                                            *)
LEMMA GivenAgain ==
    ASSUME IInv, [Next]_vars, NEW c \in Caller, NEW d \in Caller,
           reply'[c] # reply[c], reply'[c] = reply[d], reply'[c] # Err
    PROVE  conn[reply[d]] = "open"
<1>t. TypeOK
    BY DEF IInv
<1>1. CASE \E e \in Caller : ReuseReady(e)
  <2>1. PICK e \in Caller : ReuseReady(e)
      BY <1>1
  <2>2. e = c /\ reply'[c] = map[want[c]].conn
      BY <1>t, <2>1 DEF ReuseReady, TypeOK
  <2>3. map[want[c]] \in Slot /\ map[want[c]].tag = "ready" /\ want[c] \in Addr
      BY <1>t, <2>1, <2>2 DEF ReuseReady, TypeOK
  <2>4. map[want[c]].conn \in Caller
      BY <2>3, SlotShapes
  <2>5. conn[map[want[c]].conn] \notin {"none", "closed"}
      BY <2>1, <2>2, <2>3 DEF ReuseReady, IsClosed, IInv, SlotMatches
  <2> QED
      BY <1>t, <2>2, <2>4, <2>5 DEF TypeOK
<1>2. CASE \E t \in Caller : Publish(t)
  <2>1. PICK t \in Caller : Publish(t)
      BY <1>2
  <2>2. reply'[c] = t /\ task[t] = "ok"
      BY <1>t, <2>1 DEF Publish, TypeOK
  <2> QED
      BY <2>2 DEF IInv, RightConnection
<1>3. CASE UNCHANGED reply
    BY <1>3
<1> QED
    BY <1>1, <1>2, <1>3
       DEF Next, TaskStep, AllDone, vars, JoinConnecting, StartConnecting, DialOk, DialErr,
           SessionOk, SessionErr, Receive, Cancel, Invalidate, ConnClose
=============================================================================
