--------------------------- MODULE CallTimingProofs ---------------------------
(***************************************************************************)
(* The deadline of a call is never later than its grpc-timeout names, and  *)
(* backoffs are exact, grow and are capped: for any policy, header, server *)
(* and latency, and any widths of the integers.  Powers of a multiplier    *)
(* are treated by induction over the attempts.                             *)
(***************************************************************************)
EXTENDS CallTiming, SequenceTheorems, WellFoundedInduction, TLAPS

-----------------------------------------------------------------------------
(* A product of naturals is one, or what is left of it, or a panic. *)
LEMMA ProductType ==
    ASSUME NEW x \in Nat, NEW y \in Nat
    PROVE  Product(x, y) \in Nat \cup {Panic}
  <1>1. x * y \in Nat
    OBVIOUS
  <1>2. \A n \in Nat : n % (U64 + 1) \in Nat
    BY WidthAssumption
  <1> QED
    BY <1>1, <1>2 DEF Product

(* Seconds keep the type of what they are made from. *)
LEMMA SecondsType ==
    ASSUME NEW s \in Nat \cup {Panic} PROVE Seconds(s) \in Nat \cup {Panic}
  BY WidthAssumption DEF Seconds

(* What is parsed is no timeout, a duration, or a panic. *)
LEMMA ParseType ==
    ASSUME NEW h \in Headers PROVE Parse(h) \in Nat \cup {Panic, None}
  <1>1. CASE h = None \/ h.val \notin 0 .. U64
    BY <1>1 DEF Parse
  <1>2. CASE h # None /\ h.val \in 0 .. U64
    <2>1. h.val \in Nat /\ Hour \in Nat /\ Minute \in Nat
          /\ h.val * Milli \in Nat /\ h.val * Micro \in Nat
      BY <1>2, WidthAssumption
    <2>2. /\ Seconds(Product(h.val, Hour)) \in Nat \cup {Panic}
          /\ Seconds(Product(h.val, Minute)) \in Nat \cup {Panic}
          /\ Seconds(h.val) \in Nat \cup {Panic}
      BY <2>1, ProductType, SecondsType
    <2> QED
      BY <1>2, <2>1, <2>2 DEF Parse
  <1> QED
    BY <1>1, <1>2

-----------------------------------------------------------------------------
(* Arithmetic of products, quotients and remainders.                       *)

(* Products keep the order of their factors. *)
LEMMA MulMono ==
    ASSUME NEW a \in Nat, NEW b \in Nat, NEW c \in Nat, a <= b
    PROVE  a * c <= b * c /\ c * a <= c * b
  OBVIOUS

(* Products associate. *)
LEMMA MulAssoc ==
    ASSUME NEW a \in Nat, NEW b \in Nat, NEW c \in Nat
    PROVE  (a * b) * c = a * (b * c)
  OBVIOUS

(* A quotient is bounded by whatever bounds its dividend. *)
LEMMA DivBound ==
    ASSUME NEW x \in Nat, NEW a \in Nat, NEW s \in Nat \ {0}, x <= a * s
    PROVE  x \div s <= a
  OBVIOUS

(* A remainder is no more than what it is of. *)
LEMMA ModLe ==
    ASSUME NEW x \in Nat, NEW n \in Nat \ {0}
    PROVE  x % n \in Nat /\ x % n <= x
  OBVIOUS

(* A product is never more than it should be, and exact where it fits. *)
LEMMA ProductHonest ==
    ASSUME NEW x \in Nat, NEW y \in Nat
    PROVE  /\ Product(x, y) \in Nat \cup {Panic}
           /\ Product(x, y) # Panic => Product(x, y) <= x * y
           /\ x * y <= U64 => Product(x, y) = x * y
  <1>1. x * y \in Nat /\ U64 + 1 \in Nat \ {0}
    BY WidthAssumption
  <1>2. (x * y) % (U64 + 1) \in Nat /\ (x * y) % (U64 + 1) <= x * y
    BY <1>1, ModLe
  <1> QED
    BY <1>1, <1>2, WidthAssumption DEF Product

-----------------------------------------------------------------------------
(* What a header makes of a call.                                          *)

Known(h) == h.unit \in DOMAIN UnitOf
Asked(h) == h.val * UnitOf[h.unit]
Panics(d) == IF d = None THEN FALSE ELSE d = Panic \/ d \div Second > InstantSecs

(* A duration is honest if it is exact for what gRPC allows, and otherwise *)
(* too short if anything.                                                  *)
Honest(h, d) ==
    /\ Known(h) /\ h.val \in 0 .. SpecMax => d = Asked(h) /\ ~Panics(d)
    /\ d \notin {None, Panic} => Known(h) /\ d <= Asked(h)
    /\ d # None => Known(h) /\ h.val \in Nat

Widths == /\ {U64, InstantSecs, SpecMax, Hour, Minute, Second, Milli, Micro} \subseteq Nat \ {0}
          /\ \A v \in 0 .. SpecMax : /\ v * Hour <= InstantSecs /\ v * Minute <= InstantSecs
                                     /\ v <= InstantSecs /\ v <= U64
                                     /\ v * Hour <= U64 /\ v * Minute <= U64

(* Values that gRPC allows stay within the widths. *)
LEMMA WidthsHold == Widths
  <1>1. {U64, InstantSecs, SpecMax, Hour, Minute, Second, Milli, Micro} \subseteq Nat \ {0}
    BY WidthAssumption
  <1>2. ASSUME NEW v \in 0 .. SpecMax
        PROVE  v <= v * Hour /\ v * Minute <= v * Hour /\ v * Hour <= SpecMax * Hour
    <2>1. v \in Nat /\ v <= SpecMax /\ v * 1 = v
      BY <1>1
    <2> QED
      BY <1>1, <2>1, MulMono, WidthAssumption
  <1>3. ASSUME NEW v \in 0 .. SpecMax
        PROVE  v \in Nat /\ v * Hour \in Nat /\ v * Minute \in Nat
    BY <1>1
  <1> QED
    BY <1>1, <1>2, <1>3, WidthAssumption DEF Widths

(* A number of seconds that is exact or too small makes an honest duration. *)
LEMMA SecondsHonest ==
    ASSUME NEW s \in Nat \cup {Panic}, NEW x \in Nat, NEW u \in Nat,
           s # Panic => s <= x * u
    PROVE  /\ Seconds(s) \in Nat \cup {Panic}
           /\ s = Panic <=> Seconds(s) = Panic
           /\ s # Panic => Seconds(s) <= x * (u * Second)
           /\ s = x * u => Seconds(s) = x * (u * Second)
           /\ s \in 0 .. InstantSecs => ~Panics(Seconds(s))
  <1>1. Second \in Nat \ {0} /\ InstantSecs \in Nat /\ None \notin Int /\ Panic = -1
    BY WidthAssumption, TimeAssumption DEF Panic
  <1>2. CASE s = Panic
    <2>1. x * u # Panic
      BY <1>1
    <2> QED
      BY <1>1, <1>2, <2>1 DEF Seconds
  <1>3. CASE s \in Nat
    <2>1. Seconds(s) = s * Second /\ s * Second \in Nat
      BY <1>1, <1>3 DEF Seconds
    <2>2. s <= x * u /\ x * u \in Nat
      BY <1>1, <1>3
    <2>3. s * Second <= (x * u) * Second /\ (x * u) * Second = x * (u * Second)
      BY <1>1, <1>3, <2>2, MulMono, MulAssoc
    <2>4. s <= InstantSecs => (s * Second) \div Second <= InstantSecs
      <3>1. (s * Second) \div Second <= s
        BY <1>1, <1>3, <2>1, DivBound
      <3>2. (s * Second) \div Second \in Int
        BY <1>1, <2>1
      <3> QED
        BY <1>1, <1>3, <3>1, <3>2
    <2>5. s \in 0 .. InstantSecs => ~Panics(Seconds(s))
      <3>1. (s * Second) \div Second \in Int
        BY <1>1, <2>1
      <3> QED
        BY <1>1, <2>1, <2>4, <3>1 DEF Panics
    <2> QED
      BY <1>1, <1>3, <2>1, <2>2, <2>3, <2>5
  <1> QED
    BY <1>2, <1>3

(* Units below a second cannot get near the widths. *)
LEMMA FractionHonest ==
    ASSUME NEW v \in 0 .. SpecMax, NEW u \in Nat, u <= Second
    PROVE  ~Panics(v * u)
  <1>1. /\ v \in Nat /\ v <= InstantSecs /\ InstantSecs \in Nat /\ Second \in Nat \ {0}
        /\ v * u \in Nat /\ None \notin Int
    BY WidthsHold, TimeAssumption DEF Widths
  <1>2. u * v <= Second * v /\ u * v = v * u /\ Second * v = v * Second
    BY <1>1, MulMono
  <1>3. (v * u) \div Second <= v /\ (v * u) \div Second \in Int
    BY <1>1, <1>2, DivBound
  <1> QED
    BY <1>1, <1>3 DEF Panics, Panic

(* Seconds that are exact for what gRPC allows, and never too many, make an *)
(* honest timeout.                                                          *)
LEMMA TimingStep ==
    ASSUME NEW h, h.val \in Nat, Known(h), NEW u \in Nat, NEW s \in Nat \cup {Panic},
           Asked(h) = h.val * (u * Second),
           s # Panic => s <= h.val * u,
           h.val \in 0 .. SpecMax => s = h.val * u /\ s \in 0 .. InstantSecs
    PROVE  Honest(h, Seconds(s))
  <1>1. /\ Seconds(s) \in Nat \cup {Panic}
        /\ s = Panic <=> Seconds(s) = Panic
        /\ s # Panic => Seconds(s) <= h.val * (u * Second)
        /\ s = h.val * u => Seconds(s) = h.val * (u * Second)
        /\ s \in 0 .. InstantSecs => ~Panics(Seconds(s))
    BY SecondsHonest
  <1> QED
    BY <1>1 DEF Honest

(* parse_grpc_timeout is honest, in every unit and every build. *)
LEMMA ParseHonest ==
    ASSUME NEW h \in Headers, h # None PROVE Honest(h, Parse(h))
  <1>1. None # Panic /\ h.val \in Int
    BY TimeAssumption DEF Panic
  <1>2. CASE h.val \notin 0 .. U64
    BY <1>1, <1>2, WidthsHold DEF Parse, Honest, Widths
  <1>3. CASE h.val \in 0 .. U64
    <2> DEFINE d == Parse(h)
    <2>0. {Hour, Minute, Second, U64, SpecMax, InstantSecs} \subseteq Nat
      BY WidthsHold DEF Widths
    <2>1. h.val \in Nat
      BY <1>3, <2>0
    <2>2. CASE h.unit = "H"
      <3> DEFINE s == Product(h.val, Hour)
      <3>1. d = Seconds(s) /\ Known(h) /\ Asked(h) = h.val * (Hour * Second)
        BY <1>3, <2>2 DEF Parse, Known, Asked, UnitOf
      <3>2. /\ s \in Nat \cup {Panic}
            /\ s # Panic => s <= h.val * Hour
            /\ h.val * Hour <= U64 => s = h.val * Hour
        BY <2>0, <2>1, ProductHonest
      <3>3. h.val \in 0 .. SpecMax => s = h.val * Hour /\ s \in 0 .. InstantSecs
        BY <2>0, <2>1, <3>2, WidthsHold DEF Widths
      <3> HIDE DEF s
      <3>4. Honest(h, Seconds(s))
        <4>1. Known(h) /\ Asked(h) = h.val * (Hour * Second)
          BY <3>1
        <4> HIDE DEF s, d
        <4> QED
          BY <2>1, <2>0, <3>2, <3>3, <4>1, TimingStep
      <3> QED
        BY <3>1, <3>4
    <2>3. CASE h.unit = "M"
      <3> DEFINE s == Product(h.val, Minute)
      <3>1. d = Seconds(s) /\ Known(h) /\ Asked(h) = h.val * (Minute * Second)
        BY <1>3, <2>3 DEF Parse, Known, Asked, UnitOf
      <3>2. /\ s \in Nat \cup {Panic}
            /\ s # Panic => s <= h.val * Minute
            /\ h.val * Minute <= U64 => s = h.val * Minute
        BY <2>0, <2>1, ProductHonest
      <3>3. h.val \in 0 .. SpecMax => s = h.val * Minute /\ s \in 0 .. InstantSecs
        BY <2>0, <2>1, <3>2, WidthsHold DEF Widths
      <3> HIDE DEF s
      <3>4. Honest(h, Seconds(s))
        <4>1. Known(h) /\ Asked(h) = h.val * (Minute * Second)
          BY <3>1
        <4> HIDE DEF s, d
        <4> QED
          BY <2>1, <2>0, <3>2, <3>3, <4>1, TimingStep
      <3> QED
        BY <3>1, <3>4
    <2>4. CASE h.unit = "S"
      <3>1. d = Seconds(h.val) /\ Known(h) /\ Asked(h) = h.val * (1 * Second)
        BY <1>3, <2>0, <2>4 DEF Parse, Known, Asked, UnitOf
      <3>2. h.val * 1 = h.val
        BY <2>1
      <3> QED
        BY <1>1, <2>0, <2>1, <3>1, <3>2, SecondsHonest, WidthsHold DEF Honest, Widths
    <2>5. CASE h.unit \in {"m", "u", "n"}
      <3>1. /\ Known(h) /\ d = Asked(h)
            /\ UnitOf[h.unit] \in Nat /\ UnitOf[h.unit] <= Second
        BY <1>3, <2>1, <2>5, WidthAssumption DEF Parse, Known, Asked, UnitOf
      <3>2. d \in Nat
        BY <2>1, <3>1 DEF Asked
      <3>3. h.val \in 0 .. SpecMax => ~Panics(d)
        BY <3>1, FractionHonest DEF Asked
      <3> QED
        BY <2>1, <3>1, <3>2, <3>3 DEF Honest
    <2>6. CASE h.unit \notin {"H", "M", "S", "m", "u", "n"}
      BY <1>3, <2>6 DEF Parse, Honest, Known, UnitOf
    <2> QED
      BY <2>2, <2>3, <2>4, <2>5, <2>6
  <1> QED
    BY <1>2, <1>3

-----------------------------------------------------------------------------
(* The header is fixed for good. *)
HeaderInv == header \in Headers

(* A call takes its deadline from its header once, when it begins. *)
LEMMA StepHonest ==
    ASSUME HeaderInv, TimeoutHonest, [Next]_vars PROVE TimeoutHonest'
  <1>1. CASE Begin
    <2> DEFINE d == Parse(header)
    <2>1. /\ st' = IF Panics(d) THEN "panicked" ELSE "queued"
          /\ deadline' = IF Panics(d) THEN None ELSE d
          /\ header' = header
      BY <1>1 DEF Begin, Panics, setup
    <2>2. CASE header = None
      <3>1. d = None
        BY <2>2 DEF Parse
      <3> QED
        BY <2>1, <2>2, <3>1 DEF Panics, TimeoutHonest
    <2>3. CASE header # None
      <3>1. Honest(header, d)
        BY <2>3, ParseHonest DEF HeaderInv
      <3>2. ~Panics(d) => d # Panic
        BY TimeAssumption DEF Panics, Panic
      <3>3. Panics(d) => d # None
        BY DEF Panics
      <3>4. SpecMax \in Nat
        BY WidthAssumption
      <3>5. Known(header) /\ header.val \in 0 .. SpecMax => ~Panics(d) /\ d = Asked(header)
        BY <3>1 DEF Honest
      <3>6. d \notin {None, Panic} => Known(header) /\ d <= Asked(header)
        BY <3>1 DEF Honest
      <3>7. Panics(d) => Known(header) /\ header.val > SpecMax
        BY <3>1, <3>3, <3>4, <3>5 DEF Honest
      <3> HIDE DEF d
      <3> QED
        BY <2>1, <2>3, <3>2, <3>5, <3>6, <3>7 DEF TimeoutHonest, Known, Asked
    <2> QED
      BY <2>2, <2>3
  <1>2. CASE Connect
    BY <1>2 DEF Connect, setup, TimeoutHonest, Begun
  <1>3. ASSUME UNCHANGED <<header, deadline>>, Begun, st # "panicked", st' # "panicked"
        PROVE  TimeoutHonest'
    BY <1>3 DEF TimeoutHonest
  <1>4. CASE Acquire \/ TrySent \/ TryFails \/ Backoff
    BY <1>3, <1>4 DEF Acquire, TrySent, TryFails, Backoff, Awaited, setup, Begun
  <1>5. CASE Expire
    BY <1>3, <1>5 DEF Expire, setup, Begun
  <1>6. CASE Done \/ UNCHANGED vars
    BY <1>6 DEF Done, vars, setup, TimeoutHonest, Begun
  <1> QED
    BY <1>1, <1>2, <1>4, <1>5, <1>6 DEF Next

(* A timeout that gRPC allows is kept to the nanosecond, and no header     *)
(* whatever makes parse_grpc_timeout give a call more time than it names.  *)
THEOREM TimeoutHonestCorrect == Spec => []TimeoutHonest
  <1>1. Init => HeaderInv /\ TimeoutHonest
    BY DEF Init, HeaderInv, TimeoutHonest, Begun
  <1>2. HeaderInv /\ [Next]_vars => HeaderInv'
    BY DEF HeaderInv, Next, Connect, Begin, Acquire, TrySent, TryFails, Backoff,
           Expire, Done, Awaited, setup, vars
  <1>3. HeaderInv /\ TimeoutHonest /\ [Next]_vars => TimeoutHonest'
    BY StepHonest
  <1> QED
    BY <1>1, <1>2, <1>3, PTL DEF Spec
-----------------------------------------------------------------------------
(* Induction over the naturals, from the order that WellFoundedInduction   *)
(* shows to be well-founded.                                               *)

(* There is such an order. *)
LEMMA NatOrder ==
    \E R : IsWellFoundedOn(R, Nat) /\ \A x, y \in Nat : x < y => <<x, y>> \in R
  <1>1. IsWellFoundedOn(OpToRel(<, Nat), Nat)
    BY NatLessThanWellFounded, Zenon
  <1>2. \A x, y \in Nat : x < y => <<x, y>> \in OpToRel(<, Nat)
    BY Zenon DEF OpToRel
  <1> QED
    BY <1>1, <1>2, Zenon

(* A set of naturals that is not empty has a least element. *)
LEMMA LeastElement ==
    ASSUME NEW S \in SUBSET Nat, S # {}
    PROVE  \E x \in S : \A y \in S : x <= y
  <1>1. PICK R : IsWellFoundedOn(R, Nat) /\ \A x, y \in Nat : x < y => <<x, y>> \in R
    BY NatOrder
  <1>2. S \subseteq Nat
    OBVIOUS
  <1>3. \E x \in S : \A y \in S : ~ (<<y, x>> \in R)
    <2>1. IsWellFoundedOn(R, Nat)
      BY <1>1
    <2>2. \A A, B, T : IsWellFoundedOn(A, B) /\ T \subseteq B /\ T # {}
                          => \E x \in T : \A y \in T : ~ (<<y, x>> \in A)
      BY WFMin, Zenon
    <2> QED
      BY <1>2, <2>1, <2>2, Zenon
  <1>4. PICK x \in S : \A y \in S : ~ (<<y, x>> \in R)
    BY <1>3
  <1>5. ASSUME NEW y \in S PROVE x <= y
    <2>1. x \in Nat /\ y \in Nat /\ <<y, x>> \notin R
      BY <1>2, <1>4
    <2>2. ~ (y < x)
      BY <1>1, <2>1, Zenon
    <2> QED
      BY <2>1, <2>2
  <1> QED
    BY <1>5

(* What holds of 0, and of n + 1 if it does of n, holds of every natural.  *)
LEMMA Induction ==
    ASSUME NEW S, 0 \in S, \A n \in Nat : n \in S => n + 1 \in S
    PROVE  Nat \subseteq S
  <1> SUFFICES ASSUME NEW m \in Nat, m \notin S PROVE FALSE
    OBVIOUS
  <1> DEFINE T == {n \in Nat : n \notin S}
  <1>1. PICK x \in T : \A y \in T : x <= y
    BY LeastElement
  <1>2. x # 0 /\ x \in Nat /\ x - 1 \in Nat
    BY <1>1
  <1>3. x - 1 \in S
    BY <1>1, <1>2
  <1> QED
    BY <1>1, <1>2, <1>3

-----------------------------------------------------------------------------
(* Powers.                                                                 *)

(* The powers of x up to the n-th. *)
IsPowers(g, x, n) == /\ g \in [0 .. n -> Int]
                     /\ g[0] = 1
                     /\ \A k \in 1 .. n : g[k] = x * g[k - 1]

(* There are such powers, however many. *)
LEMMA PowersExist ==
    ASSUME NEW x \in Int, NEW n \in Nat PROVE \E g : IsPowers(g, x, n)
  <1> DEFINE S == {m \in Nat : \E g : IsPowers(g, x, m)}
  <1>1. 0 \in S
    <2>1. IsPowers([k \in 0 .. 0 |-> 1], x, 0)
      BY DEF IsPowers
    <2> QED
      BY <2>1
  <1>2. ASSUME NEW m \in Nat, m \in S PROVE m + 1 \in S
    <2>1. PICK g : IsPowers(g, x, m)
      BY <1>2
    <2> DEFINE h == [k \in 0 .. m + 1 |-> IF k = m + 1 THEN x * g[m] ELSE g[k]]
    <2>2. /\ g \in [0 .. m -> Int] /\ g[0] = 1
          /\ \A k \in 1 .. m : g[k] = x * g[k - 1]
      BY <2>1 DEF IsPowers
    <2>3. /\ 0 \in 0 .. m + 1 /\ 0 # m + 1 /\ m \in 0 .. m
          /\ \A k \in 0 .. m + 1 : k = m + 1 \/ k \in 0 .. m
          /\ \A k \in 1 .. m + 1 : /\ k \in 0 .. m + 1 /\ k - 1 \in 0 .. m + 1 /\ k - 1 # m + 1
                                   /\ k = m + 1 => k - 1 = m
                                   /\ k # m + 1 => k \in 1 .. m
      OBVIOUS
    <2>4. x * g[m] \in Int
      BY <2>2, <2>3
    <2>5. h \in [0 .. m + 1 -> Int]
      BY <2>2, <2>3, <2>4
    <2>6. h[0] = 1
      BY <2>2, <2>3
    <2>7. ASSUME NEW k \in 1 .. m + 1 PROVE h[k] = x * h[k - 1]
      <3>1. h[k - 1] = g[k - 1]
        BY <2>3
      <3>2. h[k] = IF k = m + 1 THEN x * g[m] ELSE g[k]
        BY <2>3
      <3> QED
        BY <2>2, <2>3, <3>1, <3>2
    <2>8. IsPowers(h, x, m + 1)
      BY <2>5, <2>6, <2>7 DEF IsPowers
    <2> QED
      BY <2>8
  <1> HIDE DEF S
  <1>3. Nat \subseteq S
    BY <1>1, <1>2, Induction
  <1> QED
    BY <1>3 DEF S

(* And they are the same ones where there are more of them. *)
LEMMA PowersAgree ==
    ASSUME NEW x \in Int, NEW n \in Nat, NEW g, NEW h,
           IsPowers(g, x, n), IsPowers(h, x, n + 1)
    PROVE  \A k \in 0 .. n : g[k] = h[k]
  <1> DEFINE S == {k \in Nat : k <= n => g[k] = h[k]}
  <1>1. 0 \in S
    BY DEF IsPowers
  <1>2. ASSUME NEW k \in Nat, k \in S PROVE k + 1 \in S
    <2>1. CASE k + 1 <= n
      <3>1. k + 1 \in 1 .. n /\ k + 1 \in 1 .. n + 1 /\ (k + 1) - 1 = k /\ k <= n
        BY <2>1
      <3>2. g[k + 1] = x * g[k] /\ h[k + 1] = x * h[k]
        BY <3>1 DEF IsPowers
      <3> QED
        BY <1>2, <3>1, <3>2
    <2>2. CASE ~ (k + 1 <= n)
      BY <2>2
    <2> QED
      BY <2>1, <2>2
  <1> HIDE DEF S
  <1>3. Nat \subseteq S
    BY <1>1, <1>2, Induction
  <1>4. \A k \in 0 .. n : k \in S /\ k <= n
    BY <1>3
  <1> QED
    BY <1>4 DEF S

(* The recursion that Power is defined by. *)
IsPower(F, x) == F = [k \in Nat |-> IF k = 0 THEN 1 ELSE x * F[k - 1]]

(* It defines a function. *)
LEMMA PowerExists == ASSUME NEW x \in Int PROVE \E F : IsPower(F, x) /\ F \in [Nat -> Int]
  <1> DEFINE G(n) == CHOOSE g : IsPowers(g, x, n)
             F == [n \in Nat |-> G(n)[n]]
  <1>1. \A n \in Nat : IsPowers(G(n), x, n)
    BY PowersExist, Zenon
  <1> HIDE DEF G
  <1>2. F[0] = 1
    BY <1>1 DEF IsPowers
  <1>3. ASSUME NEW n \in Nat, n # 0 PROVE F[n] = x * F[n - 1]
    <2>1. n - 1 \in Nat /\ n = (n - 1) + 1 /\ n - 1 \in 0 .. n - 1 /\ n \in 1 .. n
      BY <1>3
    <2>2. G(n - 1)[n - 1] = G(n)[n - 1]
      BY <1>1, <2>1, PowersAgree
    <2>3. G(n)[n] = x * G(n)[n - 1]
      BY <1>1, <2>1 DEF IsPowers
    <2> QED
      BY <2>1, <2>2, <2>3
  <1>4. F \in [Nat -> Int]
    <2>1. \A n \in Nat : n \in 0 .. n
      OBVIOUS
    <2> QED
      BY <1>1, <2>1 DEF IsPowers
  <1>5. F = [k \in Nat |-> F[k]]
    OBVIOUS
  <1> HIDE DEF F
  <1>6. IsPower(F, x)
    BY <1>2, <1>3, <1>5 DEF IsPower
  <1> QED
    BY <1>4, <1>6

(* The powers of an integer are integers, each x times the one before. *)
LEMMA PowerLaws ==
    ASSUME NEW x \in Int
    PROVE  /\ Power(x, 0) = 1
           /\ \A n \in Nat : Power(x, n) \in Int /\ Power(x, n + 1) = x * Power(x, n)
  <1> DEFINE P == CHOOSE F : F = [k \in Nat |-> IF k = 0 THEN 1 ELSE x * F[k - 1]]
  <1>1. P = [k \in Nat |-> IF k = 0 THEN 1 ELSE x * P[k - 1]]
    BY PowerExists, Zenon DEF IsPower
  <1>2. \A n : Power(x, n) = P[n]
    BY Zenon DEF Power
  <1> HIDE DEF P
  <1>3. P[0] = 1
    BY <1>1
  <1>4. ASSUME NEW n \in Nat PROVE P[n + 1] = x * P[n]
    <2>1. n + 1 \in Nat /\ n + 1 # 0 /\ (n + 1) - 1 = n
      OBVIOUS
    <2> QED
      BY <1>1, <2>1
  <1> DEFINE S == {n \in Nat : P[n] \in Int}
  <1>5. Nat \subseteq S
    <2>1. 0 \in S
      BY <1>3
    <2>2. \A n \in Nat : n \in S => n + 1 \in S
      BY <1>4
    <2> HIDE DEF S
    <2> QED
      BY <2>1, <2>2, Induction
  <1> QED
    BY <1>2, <1>3, <1>4, <1>5

(* They are positive, or natural, if x is. *)
LEMMA PowerSigns ==
    ASSUME NEW x \in Nat, NEW n \in Nat
    PROVE  Power(x, n) \in Nat /\ (x # 0 => Power(x, n) # 0)
  <1> DEFINE S == {m \in Nat : Power(x, m) \in Nat /\ (x # 0 => Power(x, m) # 0)}
  <1>1. 0 \in S
    BY PowerLaws
  <1>2. ASSUME NEW m \in Nat, m \in S PROVE m + 1 \in S
    <2>1. Power(x, m) \in Nat /\ Power(x, m + 1) = x * Power(x, m)
      BY <1>2, PowerLaws
    <2>2. \A y \in Nat : x * y \in Nat /\ (x # 0 /\ y # 0 => x * y # 0)
      OBVIOUS
    <2> QED
      BY <1>2, <2>1, <2>2
  <1> HIDE DEF S
  <1>3. Nat \subseteq S
    BY <1>1, <1>2, Induction
  <1> QED
    BY <1>3 DEF S
-----------------------------------------------------------------------------
(* Backoffs.                                                               *)

(* The milliseconds of the n-th backoff before the cast, and after it.     *)
Scaled(p, n) == ((p.initial \div Milli) * Power(p.num, n)) \div Power(p.den, n)
Cast(q) == IF q < 0 THEN 0 ELSE IF q > U64 THEN U64 ELSE q
Lesser(x, y) == IF x < y THEN x ELSE y

(* A quotient of an integer is the greatest that fits. *)
LEMMA Quotient ==
    ASSUME NEW a \in Int, NEW b \in Nat \ {0}
    PROVE  /\ a \div b \in Int
           /\ (a \div b) * b <= a
           /\ a < (a \div b + 1) * b
  OBVIOUS

(* What fits is no greater. *)
LEMMA QuotientGreatest ==
    ASSUME NEW a \in Int, NEW b \in Nat \ {0}, NEW q \in Int, q * b <= a
    PROVE  q <= a \div b
  OBVIOUS

(* The quantities a policy is made of. *)
LEMMA PolicyTypes ==
    ASSUME NEW p \in Policies, NEW n \in Nat
    PROVE  /\ p.initial \in Nat /\ p.cap \in Nat /\ p.max_attempts \in Nat
           /\ p.initial \div Milli \in Nat
           /\ p.num \in Int /\ p.den \in Nat \ {0}
           /\ Power(p.num, n) \in Int /\ Power(p.den, n) \in Nat \ {0}
           /\ Scaled(p, n) \in Int
  <1>1. /\ p.initial \in Nat /\ p.cap \in Nat /\ p.max_attempts \in Nat
        /\ p.num \in Int /\ p.den \in Nat \ {0} /\ Milli \in Nat \ {0}
    BY PolicyAssumption, WidthAssumption
  <1>2. p.initial \div Milli \in Nat
    BY <1>1
  <1>3. Power(p.num, n) \in Int
    BY <1>1, PowerLaws
  <1>4. Power(p.den, n) \in Nat \ {0}
    BY <1>1, PowerSigns
  <1>5. (p.initial \div Milli) * Power(p.num, n) \in Int
    BY <1>2, <1>3
  <1>6. Scaled(p, n) \in Int
    BY <1>4, <1>5, Quotient DEF Scaled
  <1> QED
    BY <1>1, <1>2, <1>3, <1>4, <1>6

(* RetryPolicy::backoff_for, read as its steps. *)
LEMMA BackoffSteps ==
    ASSUME NEW p \in Policies, NEW n \in Nat
    PROVE  BackoffFor(p, n) = Lesser(Cast(Scaled(p, n)) * Milli, p.cap)
  <1> DEFINE q == Scaled(p, n)
             millis == CASE q < 0 -> 0
                         [] q > U64 -> U64
                         [] OTHER -> q
  <1>1. BackoffFor(p, n) = IF millis * Milli < p.cap THEN millis * Milli ELSE p.cap
    BY Zenon DEF BackoffFor, Scaled
  <1>2. q < 0 => ~ (q > U64)
    <2>1. q \in Int /\ U64 \in Nat
      BY PolicyTypes, WidthAssumption
    <2> HIDE DEF q
    <2> QED
      BY <2>1
  <1>3. millis = Cast(q)
    <2> HIDE DEF q
    <2>1. CASE q < 0
      BY <1>2, <2>1, Zenon DEF Cast
    <2>2. CASE ~ (q < 0) /\ q > U64
      BY <2>2, Zenon DEF Cast
    <2>3. CASE ~ (q < 0) /\ ~ (q > U64)
      BY <2>3, Zenon DEF Cast
    <2> QED
      BY <2>1, <2>2, <2>3, Zenon
  <1> QED
    BY <1>1, <1>3, Zenon DEF Lesser

(* A backoff is a duration, and never more than the cap. *)
LEMMA BackoffType ==
    ASSUME NEW p \in Policies, NEW n \in Nat
    PROVE  BackoffFor(p, n) \in Nat /\ BackoffFor(p, n) <= p.cap
  <1>1. Cast(Scaled(p, n)) \in Nat
    BY PolicyTypes, WidthAssumption DEF Cast
  <1>2. Cast(Scaled(p, n)) * Milli \in Nat
    BY <1>1, WidthAssumption
  <1>3. p.cap \in Nat
    BY PolicyTypes
  <1> QED
    BY <1>2, <1>3, BackoffSteps DEF Lesser

(* With a multiplier of at least one, the next backoff is no shorter. *)
LEMMA BackoffGrows ==
    ASSUME NEW p \in Policies, NEW n \in Nat, p.num >= p.den
    PROVE  BackoffFor(p, n) <= BackoffFor(p, n + 1)
  <1> DEFINE I == p.initial \div Milli
             N == Power(p.num, n)
             D == Power(p.den, n)
             q == Scaled(p, n)
             r == Scaled(p, n + 1)
  <1>1. /\ I \in Nat /\ D \in Nat \ {0} /\ q \in Int /\ r \in Int
        /\ p.den \in Nat \ {0} /\ p.num \in Nat
    <2>1. p.num \in Int
      BY PolicyTypes
    <2>2. n + 1 \in Nat
      OBVIOUS
    <2> QED
      BY <2>1, <2>2, PolicyTypes
  <1>2. N \in Nat
    BY <1>1, PowerSigns
  <1>3. /\ Power(p.num, n + 1) = p.num * N
        /\ Power(p.den, n + 1) = p.den * D
    <2>1. p.num \in Int /\ p.den \in Int
      BY <1>1
    <2> HIDE DEF q, r, I
    <2>2. Power(p.num, n + 1) = p.num * N
      BY <2>1, PowerLaws
    <2>3. Power(p.den, n + 1) = p.den * D
      BY <2>1, PowerLaws
    <2> QED
      BY <2>2, <2>3
  <1>4. q * D <= I * N
    <2>1. I * N \in Int
      BY <1>1, <1>2
    <2> QED
      BY <1>1, <2>1, Quotient DEF Scaled
  <1>5. r = (I * (p.num * N)) \div (p.den * D)
    BY <1>3 DEF Scaled
  <1> HIDE DEF I, N, D, q, r
  <1>6. q * (p.den * D) <= I * (p.num * N)
    <2> DEFINE x == I * N
    <2>1. x \in Nat /\ q * D \in Int
      BY <1>1, <1>2
    <2>2. /\ q * (p.den * D) = p.den * (q * D)
          /\ I * (p.num * N) = p.num * x
      BY <1>1, <1>2
    <2> HIDE DEF x
    <2>3. p.den * (q * D) <= p.den * x
      <3> DEFINE y == q * D
      <3>1. y \in Int /\ y <= x
        BY <1>4, <2>1 DEF x
      <3> HIDE DEF y
      <3>2. p.den * y <= p.den * x
        BY <1>1, <2>1, <3>1
      <3> QED
        BY <3>2 DEF y
    <2>4. p.den * x <= p.num * x
      <3>1. p.den <= p.num
        BY <1>1
      <3> QED
        BY <1>1, <2>1, <3>1, MulMono
    <2>5. p.den * (q * D) \in Int /\ p.den * x \in Int /\ p.num * x \in Int
      BY <1>1, <2>1
    <2> QED
      BY <2>2, <2>3, <2>4, <2>5
  <1>7. q <= r
    <2>1. I * (p.num * N) \in Int /\ p.den * D \in Nat \ {0}
      BY <1>1, <1>2
    <2> QED
      BY <1>1, <1>5, <1>6, <2>1, QuotientGreatest
  <1>8. /\ Cast(q) \in Nat /\ Cast(r) \in Nat /\ Cast(q) <= Cast(r)
        /\ Milli \in Nat /\ p.cap \in Nat
    <2>1. Milli \in Nat /\ U64 \in Nat
      BY WidthAssumption
    <2>2. p.cap \in Nat
      BY PolicyTypes
    <2> QED
      BY <1>1, <1>7, <2>1, <2>2 DEF Cast
  <1>9. Cast(q) * Milli <= Cast(r) * Milli /\ Cast(q) * Milli \in Nat /\ Cast(r) * Milli \in Nat
    BY <1>8, MulMono
  <1>10. Lesser(Cast(q) * Milli, p.cap) <= Lesser(Cast(r) * Milli, p.cap)
    BY <1>8, <1>9 DEF Lesser
  <1>11. /\ BackoffFor(p, n) = Lesser(Cast(q) * Milli, p.cap)
         /\ BackoffFor(p, n + 1) = Lesser(Cast(r) * Milli, p.cap)
    <2>1. n + 1 \in Nat
      OBVIOUS
    <2> QED
      BY <2>1, BackoffSteps DEF q, r
  <1> QED
    BY <1>10, <1>11

(* Nor is any later one. *)
LEMMA BackoffMonotone ==
    ASSUME NEW p \in Policies, p.num >= p.den, NEW m \in Nat, NEW n \in Nat, m <= n
    PROVE  BackoffFor(p, m) <= BackoffFor(p, n)
  <1> DEFINE S == {d \in Nat : BackoffFor(p, m) <= BackoffFor(p, m + d)}
  <1>1. 0 \in S
    BY BackoffType
  <1>2. ASSUME NEW d \in Nat, d \in S PROVE d + 1 \in S
    <2>1. m + d \in Nat /\ m + (d + 1) = (m + d) + 1 /\ (m + d) + 1 \in Nat
      OBVIOUS
    <2>2. BackoffFor(p, m + d) <= BackoffFor(p, (m + d) + 1)
      BY <2>1, BackoffGrows
    <2>3. /\ BackoffFor(p, m) \in Nat /\ BackoffFor(p, m + d) \in Nat
          /\ BackoffFor(p, (m + d) + 1) \in Nat
      BY <2>1, BackoffType
    <2> QED
      BY <1>2, <2>1, <2>2, <2>3
  <1> HIDE DEF S
  <1>3. Nat \subseteq S
    BY <1>1, <1>2, Induction
  <1>4. n - m \in S /\ m + (n - m) = n
    BY <1>3
  <1> QED
    BY <1>4 DEF S

(* A policy in whole milliseconds with a multiplier that is not negative   *)
(* sleeps the initial backoff times the n-th power of the multiplier, to   *)
(* the millisecond below, or the cap where that is less.                   *)
LEMMA BackoffExact ==
    ASSUME NEW p \in Policies, NEW n \in Nat, p.initial % Milli = 0, p.num >= 0
    PROVE  \/ /\ BackoffFor(p, n) = p.cap
              /\ p.initial * Power(p.num, n) >= p.cap * Power(p.den, n)
           \/ /\ BackoffFor(p, n) * Power(p.den, n) <= p.initial * Power(p.num, n)
              /\ p.initial * Power(p.num, n) < (BackoffFor(p, n) + Milli) * Power(p.den, n)
  <1> DEFINE I == p.initial \div Milli
             N == Power(p.num, n)
             D == Power(p.den, n)
             q == Scaled(p, n)
             b == BackoffFor(p, n)
  <1>1. /\ I \in Nat /\ D \in Nat \ {0} /\ q \in Int /\ p.cap \in Nat /\ p.initial \in Nat
        /\ Milli \in Nat \ {0} /\ U64 \in Nat /\ p.cap <= U64 * Milli
    BY PolicyTypes, PolicyAssumption, WidthAssumption
  <1>2. N \in Nat
    <2>1. p.num \in Nat
      <3>1. p.num \in Int
        BY PolicyTypes
      <3> QED
        BY <3>1
    <2> QED
      BY <2>1, PowerSigns
  <1>3. p.initial = I * Milli
    BY <1>1
  <1>4. q * D <= I * N /\ I * N < (q + 1) * D
    <2>1. I * N \in Int
      BY <1>1, <1>2
    <2> QED
      BY <1>1, <2>1, Quotient DEF Scaled
  <1>5. b = Lesser(Cast(q) * Milli, p.cap)
    BY BackoffSteps
  <1> HIDE DEF I, N, D, q, b
  <1>6. q \in Nat
    BY <1>1, <1>2, <1>4
  <1> DEFINE x == q * Milli
             y == p.initial * N
  <1>7. /\ x \in Nat /\ y \in Nat
        /\ x * D <= y /\ y < (x + Milli) * D
    <2>1. /\ x * D = (q * D) * Milli
          /\ y = (I * N) * Milli
          /\ (x + Milli) * D = ((q + 1) * D) * Milli
      BY <1>1, <1>2, <1>3, <1>6
    <2> DEFINE u == q * D
               v == I * N
               w == (q + 1) * D
    <2>2. u \in Nat /\ v \in Nat /\ w \in Nat /\ u <= v /\ v < w
      BY <1>1, <1>2, <1>4, <1>6
    <2>3. x \in Nat /\ y \in Nat
      BY <1>1, <1>2, <1>6
    <2> HIDE DEF u, v, w, x, y
    <2>4. u * Milli <= v * Milli /\ v * Milli < w * Milli
      BY <1>1, <2>2
    <2> QED
      BY <2>1, <2>3, <2>4 DEF u, v, w
  <1> HIDE DEF x, y
  <1>8. CASE x < p.cap
    <2>1. q <= U64
      <3> SUFFICES ASSUME q > U64 PROVE FALSE
        BY <1>1, <1>6
      <3>1. U64 * Milli <= q * Milli
        BY <1>1, <1>6, MulMono
      <3> QED
        BY <1>1, <1>6, <1>7, <1>8, <3>1 DEF x
    <2>2. b = x
      BY <1>1, <1>5, <1>6, <1>8, <2>1 DEF Cast, Lesser, x
    <2> QED
      BY <1>7, <2>2 DEF y, N, D, b
  <1>9. CASE p.cap <= x
    <2>1. b = p.cap
      <3>1. CASE q > U64
        BY <1>1, <1>5, <1>6, <3>1 DEF Cast, Lesser
      <3>2. CASE ~ (q > U64)
        BY <1>1, <1>5, <1>6, <1>7, <1>9, <3>2 DEF Cast, Lesser, x
      <3> QED
        BY <3>1, <3>2
    <2>2. p.cap * D <= x * D
      BY <1>1, <1>7, <1>9, MulMono
    <2>3. p.cap * D \in Nat /\ x * D \in Nat
      BY <1>1, <1>7
    <2>4. y >= p.cap * D
      BY <1>7, <2>2, <2>3
    <2> QED
      BY <2>1, <2>4 DEF y, N, D, b
  <1> QED
    BY <1>1, <1>7, <1>8, <1>9
-----------------------------------------------------------------------------
(* The turns of the loop.                                                  *)

ConfigInv == config \in [target : Targets, resolver : Resolvers,
                         tls : {"client", "server"}, retry : Policies]

(* A call sleeps once between two turns, each time for its backoff.        *)
TurnInv ==
    /\ st \in {"building", "unbuilt", "idle", "queued"} => attempt = 0 /\ pauses = <<>>
    /\ st = "trying" => attempt < config.retry.max_attempts /\ Len(pauses) = attempt
    /\ st = "backoff" => /\ attempt \in 1 .. config.retry.max_attempts - 1
                         /\ Len(pauses) = attempt - 1
    /\ \A i \in DOMAIN pauses : pauses[i] = BackoffFor(config.retry, i - 1)

TimingInv == ConfigInv /\ TypeOK /\ TurnInv

(* At first no turn has been taken. *)
LEMMA InitTimingInv == Init => TimingInv
  <1> SUFFICES ASSUME Init PROVE TimingInv
    OBVIOUS
  <1>1. ConfigInv
    BY DEF Init, ConfigInv
  <1>2. config.retry \in Policies /\ config.target \in Targets
    BY <1>1 DEF ConfigInv
  <1>3. config.retry.max_attempts \in Nat
    BY <1>2, PolicyAssumption
  <1>4. <<>> \in Seq(Nat) /\ DOMAIN <<>> = {}
    OBVIOUS
  <1>5. TypeOK
    BY <1>2, <1>3, <1>4 DEF Init, TypeOK
  <1>6. TurnInv
    BY <1>4 DEF Init, TurnInv
  <1> QED
    BY <1>1, <1>5, <1>6 DEF TimingInv

(* An await leaves what the call was made with, and takes a natural time. *)
LEMMA AwaitedKeeps ==
    ASSUME TimingInv, NEW l \in Nat, NEW next, Awaited(l, next),
           st \in {"queued", "trying", "backoff"},
           next \in {"failed", "trying", "answered", "backoff"},
           attempt' \in 0 .. config.retry.max_attempts, pauses' \in Seq(Nat)
    PROVE  ConfigInv' /\ TypeOK'
  <1>1. st' = next /\ clock' = clock + l /\ UNCHANGED <<config, header, remote, deadline>>
    BY DEF Awaited, setup
  <1>2. clock' \in Nat
    BY <1>1 DEF TimingInv, TypeOK
  <1>3. ConfigInv'
    BY <1>1 DEF TimingInv, ConfigInv
  <1>4. TypeOK'
    BY <1>1, <1>2 DEF TimingInv, TypeOK, Ended
  <1> QED
    BY <1>3, <1>4

(* A backoff is appended to those before. *)
LEMMA PauseAdded ==
    ASSUME NEW s \in Seq(Nat), NEW p \in Policies, NEW n \in Nat, Len(s) = n,
           \A i \in DOMAIN s : s[i] = BackoffFor(p, i - 1)
    PROVE  LET t == Append(s, BackoffFor(p, n))
           IN  /\ t \in Seq(Nat) /\ Len(t) = n + 1
               /\ \A i \in DOMAIN t : t[i] = BackoffFor(p, i - 1)
  <1> DEFINE b == BackoffFor(p, n)
             t == Append(s, b)
  <1>1. b \in Nat
    BY BackoffType
  <1> HIDE DEF b
  <1>2. /\ t \in Seq(Nat) /\ Len(t) = n + 1
        /\ \A i \in 1 .. n : t[i] = s[i]
        /\ t[n + 1] = b
    BY <1>1, AppendProperties
  <1>3. DOMAIN s = 1 .. n /\ DOMAIN t = 1 .. n + 1
    BY <1>2
  <1> HIDE DEF t
  <1>4. ASSUME NEW i \in DOMAIN t PROVE t[i] = BackoffFor(p, i - 1)
    <2>1. CASE i = n + 1
      <3>1. i - 1 = n
        BY <2>1
      <3> QED
        BY <1>2, <2>1, <3>1 DEF b
    <2>2. CASE i # n + 1
      <3>1. i \in 1 .. n
        BY <1>3, <2>2
      <3> QED
        BY <1>2, <1>3, <3>1
    <2> QED
      BY <2>1, <2>2
  <1> QED
    BY <1>2, <1>4 DEF t, b

(* Each step of the builder and of the call keeps them. *)
LEMMA StepTimingInv == ASSUME TimingInv, [Next]_vars PROVE TimingInv'
  <1>0. /\ config.retry \in Policies /\ config.retry.max_attempts \in Nat
        /\ config.target \in Targets
        /\ attempt \in 0 .. config.retry.max_attempts /\ pauses \in Seq(Nat)
    BY PolicyAssumption DEF TimingInv, ConfigInv, TypeOK
  <1>1. CASE Connect
    <2>1. /\ UNCHANGED <<config, header, clock, deadline, attempt, pauses>>
          /\ st = "building"
      BY <1>1 DEF Connect, setup
    <2>2. /\ st' \in {"idle", "unbuilt"}
          /\ st' = "unbuilt" => remote' = None
          /\ st' = "idle" => remote' # None
      <3>1. CASE config.target \in Literals
        BY <1>1, <2>1, <3>1, ServerAssumption DEF Connect
      <3>2. CASE config.target \notin Literals /\ Found = {}
        BY <1>1, <2>1, <3>2 DEF Connect, TimingInv, TypeOK
      <3>3. CASE config.target \notin Literals /\ Found # {}
        <4>1. PICK first \in Found : st' = "idle" /\ remote' = config.resolver[first].addr
          BY <1>1, <3>3 DEF Connect
        <4>2. /\ config.resolver # None /\ config.resolver \in Resolvers
              /\ first \in DOMAIN config.resolver
              /\ config.resolver[first].name = config.target
          BY <3>3, <4>1 DEF Found, Resolve, TimingInv, ConfigInv
        <4>3. remote' # None
          BY <4>1, <4>2, ServerAssumption
        <4> QED
          BY <4>1, <4>3
      <3> QED
        BY <3>1, <3>2, <3>3
    <2>3. ConfigInv'
      BY <2>1, <2>2 DEF TimingInv, ConfigInv
    <2>4. TypeOK'
      BY <2>1, <2>2 DEF TimingInv, TypeOK, Ended
    <2>5. TurnInv'
      BY <2>1, <2>2 DEF TimingInv, TurnInv
    <2> QED
      BY <2>3, <2>4, <2>5 DEF TimingInv
  <1>2. CASE Begin
    <2>1. /\ UNCHANGED <<config, header, remote, clock, attempt, pauses>>
          /\ st = "idle" /\ st' \in {"panicked", "queued"}
      BY <1>2 DEF Begin, setup
    <2>2. deadline' = None \/ deadline' \in Nat
      <3> DEFINE d == Parse(header)
      <3>1. d \in Nat \cup {Panic, None}
        BY ParseType DEF TimingInv, TypeOK
      <3> HIDE DEF d
      <3>2. deadline' \in {None, d} /\ (d = Panic => deadline' = None)
        BY <1>2, TimeAssumption DEF Begin, d, Panic
      <3> QED
        BY <3>1, <3>2
    <2>3. ConfigInv'
      BY <2>1 DEF TimingInv, ConfigInv
    <2>4. TypeOK'
      BY <2>1, <2>2 DEF TimingInv, TypeOK, Ended
    <2>5. TurnInv'
      BY <2>1 DEF TimingInv, TurnInv
    <2> QED
      BY <2>3, <2>4, <2>5 DEF TimingInv
  <1>3. CASE Acquire
    <2>1. PICK l \in Nat :
              Awaited(l, IF config.retry.max_attempts = 0 THEN "failed" ELSE "trying")
      BY <1>3, TimeAssumption DEF Acquire
    <2>2. st = "queued" /\ UNCHANGED <<attempt, pauses>>
      BY <1>3 DEF Acquire
    <2>3. ConfigInv' /\ TypeOK'
      BY <1>0, <2>1, <2>2, AwaitedKeeps
    <2>4. /\ config' = config
          /\ st' = IF config.retry.max_attempts = 0 THEN "failed" ELSE "trying"
      BY <2>1 DEF Awaited, setup
    <2>5. TurnInv'
      BY <1>0, <2>2, <2>4 DEF TimingInv, TurnInv
    <2> QED
      BY <2>3, <2>5 DEF TimingInv
  <1>4. CASE TrySent
    <2>1. PICK l \in Nat, next \in {"answered", "failed"} : Awaited(l, next)
      BY <1>4, TimeAssumption DEF TrySent
    <2>2. st = "trying" /\ UNCHANGED <<attempt, pauses>>
      BY <1>4 DEF TrySent
    <2>3. ConfigInv' /\ TypeOK'
      BY <1>0, <2>1, <2>2, AwaitedKeeps
    <2>4. config' = config /\ st' \in {"answered", "failed"}
      BY <2>1 DEF Awaited, setup
    <2>5. TurnInv'
      BY <2>2, <2>4 DEF TimingInv, TurnInv
    <2> QED
      BY <2>3, <2>5 DEF TimingInv
  <1>5. CASE TryFails
    <2> DEFINE next == IF attempt + 1 = config.retry.max_attempts THEN "failed" ELSE "backoff"
    <2>1. PICK l \in Nat : Awaited(l, next)
      BY <1>5, TimeAssumption DEF TryFails
    <2>2. st = "trying" /\ attempt' = attempt + 1 /\ UNCHANGED pauses
      BY <1>5 DEF TryFails
    <2>3. attempt < config.retry.max_attempts /\ Len(pauses) = attempt
      BY <2>2 DEF TimingInv, TurnInv
    <2>4. attempt' \in 0 .. config.retry.max_attempts
      BY <1>0, <2>2, <2>3
    <2>5. ConfigInv' /\ TypeOK'
      BY <1>0, <2>1, <2>2, <2>4, AwaitedKeeps
    <2>6. config' = config /\ st' = next
      BY <2>1 DEF Awaited, setup
    <2>7. /\ attempt + 1 # config.retry.max_attempts
                => attempt' \in 1 .. config.retry.max_attempts - 1
          /\ Len(pauses) = attempt' - 1
      BY <1>0, <2>2, <2>3
    <2>8. TurnInv'
      BY <2>2, <2>6, <2>7 DEF TimingInv, TurnInv
    <2> QED
      BY <2>5, <2>8 DEF TimingInv
  <1>6. CASE Backoff
    <2> DEFINE n == attempt - 1
               b == BackoffFor(config.retry, n)
    <2>1. Awaited(b, "trying") /\ pauses' = Append(pauses, b) /\ UNCHANGED attempt /\ st = "backoff"
      BY <1>6 DEF Backoff
    <2>2. attempt \in 1 .. config.retry.max_attempts - 1 /\ Len(pauses) = n
      BY <2>1 DEF TimingInv, TurnInv
    <2>3. n \in Nat /\ n + 1 = attempt /\ attempt < config.retry.max_attempts
      BY <1>0, <2>2
    <2>4. b \in Nat
      BY <1>0, <2>3, BackoffType
    <2>5. /\ pauses' \in Seq(Nat) /\ Len(pauses') = n + 1
          /\ \A i \in DOMAIN pauses' : pauses'[i] = BackoffFor(config.retry, i - 1)
      <3>1. \A i \in DOMAIN pauses : pauses[i] = BackoffFor(config.retry, i - 1)
        BY DEF TimingInv, TurnInv
      <3> HIDE DEF n
      <3> QED
        BY <1>0, <2>1, <2>2, <2>3, <3>1, PauseAdded
    <2>6. ConfigInv' /\ TypeOK'
      <3> HIDE DEF b
      <3> QED
        BY <1>0, <2>1, <2>4, <2>5, AwaitedKeeps
    <2>7. config' = config /\ st' = "trying"
      BY <2>1 DEF Awaited, setup
    <2>8. TurnInv'
      <3> HIDE DEF n, b
      <3> QED
        BY <2>1, <2>3, <2>5, <2>7 DEF TurnInv
    <2> QED
      BY <2>6, <2>8 DEF TimingInv
  <1>7. CASE Expire
    <2>1. /\ st \in {"queued", "trying", "backoff"} /\ st' = "expired"
          /\ clock' = deadline /\ deadline # None
          /\ UNCHANGED <<config, header, remote, deadline, attempt, pauses>>
      BY <1>7 DEF Expire, setup
    <2>2. ConfigInv'
      BY <2>1 DEF TimingInv, ConfigInv
    <2>3. TypeOK'
      BY <2>1 DEF TimingInv, TypeOK, Ended
    <2>4. TurnInv'
      BY <2>1 DEF TimingInv, TurnInv
    <2> QED
      BY <2>2, <2>3, <2>4 DEF TimingInv
  <1>8. CASE Done \/ UNCHANGED vars
    <2>1. UNCHANGED vars
      BY <1>8 DEF Done
    <2> QED
      BY <2>1 DEF vars, setup, TimingInv, ConfigInv, TypeOK, TurnInv
  <1> QED
    BY <1>1, <1>2, <1>3, <1>4, <1>5, <1>6, <1>7, <1>8 DEF Next

(* So they hold of every call. *)
LEMMA TimingInvHolds == Spec => []TimingInv
  <1>1. TimingInv /\ [Next]_vars => TimingInv'
    BY StepTimingInv
  <1> QED
    BY <1>1, InitTimingInv, PTL DEF Spec

(* Every variable of a call stays within its type. *)
THEOREM TimingTypeCorrect == Spec => []TypeOK
  <1>1. TimingInv => TypeOK
    BY DEF TimingInv
  <1> QED
    BY <1>1, TimingInvHolds, PTL

(* Backoffs never exceed the cap, never shrink with a multiplier of one or *)
(* more, and are the scaled initial one or the cap, for any policy.        *)
THEOREM BackoffsExactCorrect == Spec => []BackoffsExact
  <1>1. TimingInv => BackoffsExact
    <2> SUFFICES ASSUME TimingInv PROVE BackoffsExact
      OBVIOUS
    <2> DEFINE p == config.retry
    <2>1. /\ p \in Policies
          /\ DOMAIN pauses \subseteq Nat
          /\ \A i \in DOMAIN pauses : /\ i - 1 \in Nat /\ i \in Nat
                                      /\ pauses[i] = BackoffFor(p, i - 1)
      BY DEF TimingInv, ConfigInv, TypeOK, TurnInv
    <2> HIDE DEF p
    <2>2. \A i \in DOMAIN pauses : pauses[i] <= p.cap
      BY <2>1, BackoffType
    <2>3. ASSUME NEW i \in DOMAIN pauses, NEW j \in DOMAIN pauses, i <= j, p.num >= p.den
          PROVE  pauses[i] <= pauses[j]
      <3>1. i - 1 \in Nat /\ j - 1 \in Nat /\ i - 1 <= j - 1
        BY <2>1, <2>3
      <3>2. BackoffFor(p, i - 1) <= BackoffFor(p, j - 1)
        BY <2>1, <2>3, <3>1, BackoffMonotone
      <3> QED
        BY <2>1, <3>2
    <2>4. ASSUME p.initial % Milli = 0, p.num >= 0, NEW i \in DOMAIN pauses
          PROVE  \/ /\ pauses[i] = p.cap
                    /\ p.initial * Power(p.num, i - 1) >= p.cap * Power(p.den, i - 1)
                 \/ /\ pauses[i] * Power(p.den, i - 1) <= p.initial * Power(p.num, i - 1)
                    /\ p.initial * Power(p.num, i - 1)
                          < (pauses[i] + Milli) * Power(p.den, i - 1)
      <3>1. i - 1 \in Nat /\ pauses[i] = BackoffFor(p, i - 1)
        BY <2>1
      <3> QED
        BY <2>1, <2>4, <3>1, BackoffExact
    <2> QED
      BY <2>2, <2>3, <2>4 DEF BackoffsExact, p
  <1> QED
    BY <1>1, TimingInvHolds, PTL
=============================================================================
