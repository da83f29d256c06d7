----------------------------- MODULE CallTiming -----------------------------
(***************************************************************************)
(* How long a call may take and whom it reaches: the address and the TLS   *)
(* configuration that QuicChannelBuilder::connect settles once for all     *)
(* calls, the deadline that call derives from grpc-timeout, and the        *)
(* backoffs of RetryPolicy, with the widths of their arithmetic            *)
(* (crates/grpc-quic-client/src/channel.rs and retry.rs,                   *)
(* crates/grpc-quic-discovery/src/resolver.rs).                            *)
(*                                                                         *)
(* Durations and the clock count nanoseconds.  An await takes any time of  *)
(* Latency, and timeout_at cuts it short at the deadline.                  *)
(***************************************************************************)
EXTENDS Integers, Sequences

CONSTANTS Policies,     \* retry policies: max_attempts, initial, num, den, cap
          Targets,      \* what connect may be given: a literal or a name
          Literals,     \* the addresses among them
          Resolvers,    \* lists of [name, addr], or None where none is set
          Headers,      \* values of grpc-timeout: [val, unit], or None
          Latency,      \* bound: how long an await may take
          U64,          \* the greatest u64
          InstantSecs,  \* the greatest number of seconds an Instant can hold
          SpecMax,      \* the greatest value gRPC allows: eight digits
          Hour, Minute,           \* in seconds
          Second, Milli, Micro,   \* in nanoseconds
          None

ASSUME WidthAssumption ==
    /\ {U64, InstantSecs, SpecMax, Hour, Minute, Second, Milli, Micro} \subseteq Nat \ {0}
    /\ Minute <= Hour
    /\ Milli <= Second /\ Micro <= Second
    /\ SpecMax * Hour <= InstantSecs
    /\ InstantSecs <= U64

ASSUME TimeAssumption ==
    /\ Latency \subseteq Nat
    /\ None \notin Int
    /\ \A h \in Headers : h = None \/ h.val \in Int

ASSUME ServerAssumption ==
    /\ None \notin Literals
    /\ \A s \in Resolvers : s = None \/ \A i \in DOMAIN s : s[i].addr # None

ASSUME PolicyAssumption ==
    \A p \in Policies : /\ {p.max_attempts, p.initial, p.cap} \subseteq Nat
                        /\ p.num \in Int /\ p.den \in Nat \ {0}
                        /\ p.cap <= U64 * Milli

VARIABLES config,    \* target, resolver, tls and retry policy of the builder
          build,     \* whether the build checks for arithmetic overflow
          header,    \* the grpc-timeout of the call
          remote,    \* the channel's remote address
          st,        \* where the call stands
          clock,     \* time since the call was made
          deadline,  \* when timeout_at ends it, or None
          attempt,   \* turn of the retry loop
          pauses     \* the backoffs it has slept

setup == <<config, build, header>>
vars == <<setup, remote, st, clock, deadline, attempt, pauses>>

Ended == {"unbuilt", "panicked", "answered", "failed", "expired"}

Init == /\ config \in [target : Targets, resolver : Resolvers,
                       tls : {"client", "server"}, retry : Policies]
        /\ build \in {"debug", "release"}
        /\ header \in Headers
        /\ remote = None
        /\ st = "building"
        /\ clock = 0
        /\ deadline = None
        /\ attempt = 0
        /\ pauses = <<>>

-----------------------------------------------------------------------------
(* StaticResolver::resolve: the entries of that name, by where they stand. *)
Resolve(resolver, name) == {i \in DOMAIN resolver : resolver[i].name = name}

(* What the resolver is asked for, if there is one. *)
Found == IF config.resolver = None THEN {} ELSE Resolve(config.resolver, config.target)

(* A literal is its own address; a name needs a resolver that knows it,    *)
(* and the first address it gives is taken for good.                       *)
Connect ==
    /\ st = "building"
    /\ \/ /\ config.target \in Literals
          /\ st' = "idle" /\ remote' = config.target
       \/ /\ config.target \notin Literals /\ Found = {}
          /\ st' = "unbuilt" /\ UNCHANGED remote
       \/ /\ config.target \notin Literals
          /\ \E first \in Found : /\ \A i \in Found : first <= i
                                  /\ st' = "idle" /\ remote' = config.resolver[first].addr
    /\ UNCHANGED <<setup, clock, deadline, attempt, pauses>>

-----------------------------------------------------------------------------
(* A duration that the code panics over. *)
Panic == -1

(* A product of u64s, in a build with and without overflow checks. *)
Product(x, y) == CASE x * y <= U64 -> x * y
                   [] x * y > U64 /\ build = "debug" -> Panic
                   [] OTHER -> (x * y) % (U64 + 1)

Seconds(s) == IF s = Panic THEN Panic ELSE s * Second

(* Mutant: minutes and milliseconds are confused. *)
ParseCaseless(h) ==
    IF h = None \/ h.val \notin 0 .. U64 THEN None
    ELSE CASE h.unit = "H" -> Seconds(Product(h.val, Hour))
           [] h.unit \in {"M", "m"} -> Seconds(Product(h.val, Minute))
           [] h.unit = "S" -> Seconds(h.val)
           [] h.unit = "u" -> h.val * Micro
           [] h.unit = "n" -> h.val
           [] OTHER -> None

(* parse_grpc_timeout: what is empty or no u64, or has no unit that is     *)
(* known, is no timeout.                                                   *)
Parse(h) ==
    IF h = None \/ h.val \notin 0 .. U64 THEN None
    ELSE CASE h.unit = "H" -> Seconds(Product(h.val, Hour))
           [] h.unit = "M" -> Seconds(Product(h.val, Minute))
           [] h.unit = "S" -> Seconds(h.val)
           [] h.unit = "m" -> h.val * Milli
           [] h.unit = "u" -> h.val * Micro
           [] h.unit = "n" -> h.val
           [] OTHER -> None

(* call: the first poll.  now() + d panics where no Instant is so late. *)
Begin ==
    /\ st = "idle"
    /\ LET d == Parse(header)
           panics == IF d = None THEN FALSE ELSE d = Panic \/ d \div Second > InstantSecs
       IN  /\ st' = IF panics THEN "panicked" ELSE "queued"
           /\ deadline' = IF panics THEN None ELSE d
    /\ UNCHANGED <<setup, remote, clock, attempt, pauses>>

-----------------------------------------------------------------------------
(* f64::powi: the product of n factors x. *)
Power(x, n) ==
    LET power[k \in Nat] == IF k = 0 THEN 1 ELSE x * power[k - 1]
    IN  power[n]

(* Mutant: the scaled backoff is cast with wrap-around. *)
BackoffWraps(p, n) ==
    LET scaled == ((p.initial \div Milli) * Power(p.num, n)) \div Power(p.den, n)
        millis == IF scaled < 0 THEN 0 ELSE scaled % (U64 + 1)
    IN  IF millis * Milli < p.cap THEN millis * Milli ELSE p.cap

(* RetryPolicy::backoff_for: whole milliseconds, scaled by the n-th power  *)
(* of the multiplier; the cast to u64 truncates and saturates.  Floats are *)
(* taken to be exact.                                                      *)
BackoffFor(p, n) ==
    LET scaled == ((p.initial \div Milli) * Power(p.num, n)) \div Power(p.den, n)
        millis == CASE scaled < 0 -> 0
                    [] scaled > U64 -> U64
                    [] OTHER -> scaled
    IN  IF millis * Milli < p.cap THEN millis * Milli ELSE p.cap

(* timeout_at polls the future before the timer: what is ready when the    *)
(* deadline comes still counts.                                            *)
InTime(l) == IF deadline = None THEN TRUE ELSE clock + l <= deadline

(* An await of the loop is over after l, and the call stands at next. *)
Awaited(l, next) == /\ InTime(l)
                    /\ clock' = clock + l
                    /\ st' = next
                    /\ UNCHANGED <<setup, remote, deadline>>

Acquire ==
    /\ st = "queued"
    /\ \E l \in Latency : Awaited(l, IF config.retry.max_attempts = 0 THEN "failed" ELSE "trying")
    /\ UNCHANGED <<attempt, pauses>>

(* The endpoint of a TLS configuration made for servers cannot dial. *)
CanDial == config.tls = "client"

(* An attempt is answered, or fails once its request has been sent. *)
TrySent ==
    /\ st = "trying" /\ CanDial
    /\ \E l \in Latency, next \in {"answered", "failed"} : Awaited(l, next)
    /\ UNCHANGED <<attempt, pauses>>

(* Mutant: the loop takes one turn more than the policy allows. *)
TryFailsOnceMore ==
    /\ st = "trying"
    /\ \E l \in (IF CanDial THEN Latency ELSE {0}) :
          Awaited(l, IF attempt = config.retry.max_attempts THEN "failed" ELSE "backoff")
    /\ attempt' = attempt + 1
    /\ UNCHANGED pauses

(* An attempt fails before that: a dial or send_request. *)
TryFails ==
    /\ st = "trying"
    /\ \E l \in (IF CanDial THEN Latency ELSE {0}) :
          Awaited(l, IF attempt + 1 = config.retry.max_attempts THEN "failed" ELSE "backoff")
    /\ attempt' = attempt + 1
    /\ UNCHANGED pauses

(* tokio::time::sleep between attempts *)
Backoff ==
    /\ st = "backoff"
    /\ LET b == BackoffFor(config.retry, attempt - 1)
       IN  Awaited(b, "trying") /\ pauses' = Append(pauses, b)
    /\ UNCHANGED attempt

(* The deadline comes first, whatever the call awaits. *)
Expire ==
    /\ deadline # None
    /\ \/ st \in {"queued", "trying"}
       \/ st = "backoff" /\ ~InTime(BackoffFor(config.retry, attempt - 1))
    /\ st' = "expired"
    /\ clock' = deadline
    /\ UNCHANGED <<setup, remote, deadline, attempt, pauses>>

Done == st \in Ended /\ UNCHANGED vars

Next == \/ Connect \/ Begin \/ Acquire
        \/ TrySent \/ TryFails \/ Backoff
        \/ Expire
        \/ Done

Spec == Init /\ [][Next]_vars

-----------------------------------------------------------------------------
TypeOK == /\ config.retry \in Policies /\ config.target \in Targets
          /\ header \in Headers
          /\ remote # None <=> st \notin {"building", "unbuilt"}
          /\ st \in Ended \cup {"building", "idle", "queued", "trying", "backoff"}
          /\ clock \in Nat
          /\ deadline = None \/ deadline \in Nat
          /\ attempt \in 0 .. config.retry.max_attempts
          /\ pauses \in Seq(Nat)

(* The nanoseconds of the units that gRPC defines. *)
UnitOf == [H |-> Hour * Second, M |-> Minute * Second, S |-> Second,
           m |-> Milli, u |-> Micro, n |-> 1]
Begun == st \notin {"building", "unbuilt", "idle"}

(* A timeout that gRPC allows is kept to the nanosecond, in any build.     *)
(* Any other value gives the call less time than it names, or no deadline, *)
(* or a panic, but never a longer one; no header, no deadline.             *)
TimeoutHonest ==
    Begun =>
        IF header = None THEN deadline = None /\ st # "panicked"
        ELSE LET known == header.unit \in DOMAIN UnitOf
                 asked == header.val * UnitOf[header.unit]
             IN  /\ known /\ header.val \in 0 .. SpecMax => deadline = asked /\ st # "panicked"
                 /\ deadline # None => known /\ deadline <= asked
                 /\ st = "panicked" => known /\ header.val > SpecMax

(* Backoffs never exceed the cap, and with a multiplier of at least one    *)
(* they never shrink, however far the product overflows.  A backoff of a   *)
(* policy in whole milliseconds is the initial one scaled once for each    *)
(* failure before the last, to the millisecond below, or the cap where     *)
(* that is less.                                                           *)
BackoffsExact ==
    LET p == config.retry
        exact(i) == p.initial * Power(p.num, i - 1)   \* in units of 1 / scale(i)
        scale(i) == Power(p.den, i - 1)
    IN  /\ \A i, j \in DOMAIN pauses :
              /\ pauses[i] <= p.cap
              /\ i <= j /\ p.num >= p.den => pauses[i] <= pauses[j]
        /\ p.initial % Milli = 0 /\ p.num >= 0 =>
              \A i \in DOMAIN pauses :
                  \/ pauses[i] = p.cap /\ exact(i) >= p.cap * scale(i)
                  \/ /\ pauses[i] * scale(i) <= exact(i)
                     /\ exact(i) < (pauses[i] + Milli) * scale(i)
=============================================================================
