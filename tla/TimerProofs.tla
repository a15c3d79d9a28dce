---------------------------- MODULE TimerProofs -----------------------------
(***************************************************************************)
(* The timers show what counters that are stepped every cycle would show,  *)
(* for any number of timers, width of the counters, prescalers, reload     *)
(* values and length of the longest instruction.                           *)
(*                                                                         *)
(* The time that is left of a timer is the time until its counter          *)
(* overflows, and a chained or stopped one shows its counter.  When cycles *)
(* pass, the counters are followed cycle by cycle (TickedTo) and the       *)
(* hardware timer by timer (HandledTo): both say how often each timer      *)
(* overflows and what its first overflow does to the chain above it, and   *)
(* the timers above one that overflows again are those that are lost.      *)
(***************************************************************************)
EXTENDS Timers, TLAPS, WellFoundedInduction, NaturalsInduction

LEMMA Product ==
    ASSUME NEW b \in Nat \ {0}, NEW x \in Int, NEW y \in Int
    PROVE  /\ b * x \in Int /\ b * y \in Int /\ b * (x + y) = b * x + b * y
           /\ (x <= y => b * x <= b * y) /\ (x < y => b * x + b <= b * y)
  OBVIOUS
LEMMA ProductNat == ASSUME NEW x \in Nat, NEW y \in Nat PROVE x * y \in Nat
  OBVIOUS
(* The ticks of a number of cycles.                                        *)
LEMMA TicksOf ==
    ASSUME NEW x \in Int, NEW b \in Nat \ {0}
    PROVE  /\ x \div b \in Int /\ b * (x \div b) <= x /\ x < b * (x \div b) + b
           /\ \A k \in Int : b * k <= x => k <= x \div b
<1> DEFINE q == x \div b
           r == x % b
<1>1. q \in Int /\ r \in 0 .. b - 1 /\ x = b * q + r
  OBVIOUS
<1> HIDE DEF q, r
<1>2. b * q \in Int /\ b * q <= x /\ x < b * q + b
  BY <1>1
<1>3. ASSUME NEW k \in Int, b * k <= x PROVE k <= q
  <2>1. SUFFICES ASSUME q < k PROVE FALSE
    BY <1>1
  <2>2. b * q + b <= b * k
    BY <1>1, <2>1, Product
  <2>3. b * k \in Int
    BY Product
  <2> QED
    BY <1>2, <1>3, <2>2, <2>3
<1> QED
  BY <1>1, <1>2, <1>3 DEF q

-----------------------------------------------------------------------------
(* The least of a set of numbers.                                          *)
LEMMA LeastNumber ==
    ASSUME NEW X, X \subseteq Nat, X # {} PROVE \E x \in X : \A y \in X : x <= y
<1>1. IsWellFoundedOn({ss \in Nat \X Nat : ss[1] < ss[2]}, Nat)
  BY NatLessThanWellFounded DEF OpToRel
<1>2. PICK x \in X : \A y \in X : <<y, x>> \notin {ss \in Nat \X Nat : ss[1] < ss[2]}
  BY <1>1, WFMin, Zenon
<1>3. \A y \in X : ~(y < x)
  <2>. SUFFICES ASSUME NEW y \in X, y < x PROVE FALSE
    OBVIOUS
  <2>1. <<y, x>> \in Nat \X Nat /\ <<y, x>>[1] < <<y, x>>[2]
    OBVIOUS
  <2>. QED  BY <2>1, <1>2, Zenon
<1>. QED  BY <1>3

(* A set with 0 that has with each number below a bound the next one.      *)
LEMMA Counting ==
    ASSUME NEW N \in Nat, NEW S, 0 \in S, \A n \in 0 .. N - 1 : n \in S => n + 1 \in S
    PROVE  0 .. N \subseteq S
<1>. DEFINE X == (0 .. N) \ S
<1>1. SUFFICES ASSUME X # {} PROVE FALSE
  OBVIOUS
<1>2. X \subseteq Nat
  OBVIOUS
<1>3. PICK x \in X : \A y \in X : x <= y
  <2>. HIDE DEF X
  <2>. QED  BY <1>1, <1>2, LeastNumber
<1>4. x \in 1 .. N /\ x \notin S
  BY <1>3
<1>5. x - 1 \in S
  BY <1>3, <1>4
<1>6. x - 1 \in 0 .. N - 1 /\ (x - 1) + 1 = x
  BY <1>4
<1>. QED  BY <1>4, <1>5, <1>6, Zenon

-----------------------------------------------------------------------------
(* A timer and its setup, which only writes change.                        *)
TimerRecord == [on : BOOLEAN, mode : Modes16, irq : BOOLEAN, reload : 0 .. Values - 1,
                value : 0 .. Values - 1, left : Int]

SameSetup(t, s) ==
    \A i \in Timer : /\ t[i].on = s[i].on /\ t[i].mode = s[i].mode
                     /\ t[i].irq = s[i].irq /\ t[i].reload = s[i].reload

(* The cycles of a tick of a timer that counts cycles, and of an overflow. *)
LEMMA Units16 ==
    ASSUME NEW r \in TimerRecord, Enabled(r)
    PROVE  r.mode \in Nat \ {0} /\ Period(r) \in Nat \ {0} /\ r.mode # Chained /\ r.on
<1>1. r.on /\ r.mode # Chained
  BY Zenon DEF Enabled
<1>2. r.mode \in Units /\ r.reload \in 0 .. Values - 1
  BY <1>1 DEF TimerRecord, Modes16
<1>3. r.mode \in Nat \ {0}
  BY <1>2, TimersAssumption, Zenon
<1>5. Values - r.reload \in Nat \ {0}
  <2>1. Values \in Nat \ {0}
    BY TimersAssumption
  <2>. QED  BY <1>2, <2>1
<1>4. \A x \in Nat \ {0}, y \in Nat \ {0} : x * y \in Nat \ {0}
  OBVIOUS
<1>. QED  BY <1>1, <1>3, <1>4, <1>5, Zenon DEF Period

(* The timers above one that are chained to it.                            *)
LEMMA ChainFacts ==
    ASSUME NEW t, NEW b \in Timer, NEW i \in Chain(t, b)
    PROVE  /\ i \in Timer /\ i > b /\ i - 1 \in Timer /\ t[i].on /\ t[i].mode = Chained
           /\ \A j \in b + 1 .. i : j \in Chain(t, b) /\ j \in Timer
           /\ \A j \in Chain(t, b) : j < i => i \in Chain(t, j)
  BY TimersAssumption DEF Chain, Timer

LEMMA OneBase ==
    ASSUME NEW t, NEW b \in Timer, NEW c \in Timer, Enabled(t[b]), Enabled(t[c]),
           NEW i, i \in Chain(t, b), i \in Chain(t, c)
    PROVE  b = c
  BY TimersAssumption DEF Chain, Timer, Enabled

LEMMA ChainSame ==
    ASSUME NEW t, NEW s, SameSetup(t, s), NEW b \in Timer
    PROVE  Chain(t, b) = Chain(s, b)
<1>1. \A i \in Timer : i > b => \A j \in b + 1 .. i : j \in Timer
  BY TimersAssumption DEF Timer
<1>. QED  BY <1>1 DEF Chain, SameSetup

(* How often a timer that has l cycles left overflows until it has some.   *)
Times(k, l, p) == k \in Nat /\ l + k * p > 0 /\ (k = 0 \/ l + (k - 1) * p <= 0)

LEMMA TimesUnique ==
    ASSUME NEW l \in Int, NEW p \in Nat \ {0}, NEW k, NEW m, Times(k, l, p), Times(m, l, p)
    PROVE  k = m
<1>1. \A x \in Nat, y \in Nat : x < y /\ l + x * p > 0 => l + (y - 1) * p > 0
  <2>. SUFFICES ASSUME NEW x \in Nat, NEW y \in Nat, x < y, l + x * p > 0 PROVE l + (y - 1) * p > 0
    OBVIOUS
  <2>1. x <= y - 1 /\ p * x <= p * (y - 1) /\ p * x \in Int /\ p * (y - 1) \in Int
    BY Product
  <2>2. p * x = x * p /\ p * (y - 1) = (y - 1) * p
    OBVIOUS
  <2>. QED  BY <2>1, <2>2
<1>2. k * p \in Int /\ m * p \in Int /\ (k - 1) * p \in Int /\ (m - 1) * p \in Int /\ k \in Nat /\ m \in Nat
  BY DEF Times
<1>3. ~(k < m)
  BY <1>1, <1>2 DEF Times
<1>4. ~(m < k)
  BY <1>1, <1>2 DEF Times
<1>. QED  BY <1>2, <1>3, <1>4

(* One more cycle: none more, or one.                                      *)
LEMMA TimesNext ==
    ASSUME NEW l \in Int, NEW p \in Nat \ {0}, NEW k, Times(k, l, p)
    PROVE  /\ l + k * p # 1 => Times(k, l - 1, p) /\ (l - 1) + k * p = (l + k * p) - 1
           /\ l + k * p = 1 => Times(k + 1, l - 1, p) /\ (l - 1) + (k + 1) * p = p
<1>1. k \in Nat /\ k * p \in Int /\ (k + 1) * p = k * p + p /\ (k - 1) * p = k * p - p
  BY DEF Times
<1>2. (k + 1) - 1 = k /\ k + 1 \in Nat
  BY <1>1
<1>3. CASE l + k * p # 1
  BY <1>1, <1>3 DEF Times
<1>4. CASE l + k * p = 1
  <2>1. (l - 1) + (k + 1) * p = p
    BY <1>1, <1>4
  <2>2. (l - 1) + ((k + 1) - 1) * p = 0
    BY <1>1, <1>2, <1>4
  <2>. QED  BY <1>2, <1>4, <2>1, <2>2 DEF Times
<1>. QED  BY <1>3, <1>4

LEMMA TimesZero ==
    ASSUME NEW l \in Int, NEW p \in Nat \ {0}, NEW k, Times(k, l, p)
    PROVE  /\ k * p \in Int
           /\ l > 0 <=> k = 0
           /\ l + p > 0 <=> k <= 1
           /\ k = 0 => l + k * p = l
           /\ k = 1 => l + k * p = l + p
<1>1. k \in Nat /\ k * p \in Int /\ (k - 1) * p = k * p - p /\ 0 * p = 0 /\ 1 * p = p
  BY DEF Times
<1>2. k >= 1 => p <= k * p
  <2>1. 1 <= k => p * 1 <= p * k
    BY <1>1, Product
  <2>. QED  BY <1>1, <2>1
<1>3. k >= 2 => p + p <= k * p
  <2>1. 2 <= k => p * 2 <= p * k
    BY <1>1, Product
  <2>. QED  BY <1>1, <2>1
<1>4. l > 0 => k = 0
  <2>. SUFFICES ASSUME l > 0, k # 0 PROVE FALSE
    OBVIOUS
  <2>. QED  BY <1>1, <1>2 DEF Times
<1>5. k = 0 => l > 0
  BY <1>1 DEF Times
<1>6. l + p > 0 => k <= 1
  <2>. SUFFICES ASSUME l + p > 0, k >= 2 PROVE FALSE
    BY <1>1
  <2>. QED  BY <1>1, <1>3 DEF Times
<1>7. k <= 1 => l + p > 0
  <2>. SUFFICES ASSUME k <= 1 PROVE l + p > 0
    OBVIOUS
  <2>1. CASE k = 0
    BY <1>1, <1>5, <2>1
  <2>2. CASE k = 1
    BY <1>1, <2>2 DEF Times
  <2>. QED  BY <1>1, <2>1, <2>2
<1>. QED  BY <1>1, <1>4, <1>5, <1>6, <1>7

-----------------------------------------------------------------------------
(* The counters as the timers should be.                                   *)
Clocks == [Timer -> [count : 0 .. Values - 1, sub : Int]]

(* The cycles until a counter of cycles overflows.                         *)
Until(i, c) == (Values - c.count) * timer[i].mode - c.sub

(* The inductive invariant: the time that is left is the time until the    *)
(* counter overflows, and a timer that counts no cycles shows its counter. *)
TimersInv ==
    /\ TimersTypeOK
    /\ \A i \in Timer : Enabled(timer[i]) =>
          /\ i \notin yikes /\ clock[i].sub \in 0 .. timer[i].mode - 1
          /\ timer[i].left = Until(i, clock[i])
    /\ \A i \in Timer : timer[i].on /\ timer[i].mode = Chained => clock[i].sub = -1
    /\ \A i \in Timer \ yikes : ~Enabled(timer[i]) => timer[i].value = Shown(clock[i])
    /\ timerIrqs \ yikes = clockIrqs \ yikes

TimersTyped == timer \in [Timer -> TimerRecord]

LEMMA TypedTimers == TimersTypeOK => TimersTyped
  BY DEF TimersTypeOK, TimersTyped, TimerRecord

(* Timers at their last value, from above b up to i.                       *)
Top(v, b, i) == \A j \in b + 1 .. i : v[j] = Values - 1

Counts(c) == [i \in Timer |-> c[i].count]

(* Only a counter of cycles can overflow first.                            *)
LEMMA WrapsOff == \A c : \A i \in Wraps(c) : i \in Timer /\ timer[i].on /\ c[i].count = Values - 1
  BY Zenon DEF Wraps

LEMMA WrapsEnabled ==
    ASSUME NEW c, NEW i \in Timer, Enabled(timer[i])
    PROVE  /\ i \in Ticks(c) <=> c[i].sub = timer[i].mode - 1
           /\ i \in Wraps(c) <=> c[i].count = Values - 1 /\ c[i].sub = timer[i].mode - 1
<1>1. timer[i].on /\ timer[i].mode # Chained /\ i \in Int
  BY DEF Enabled, Timer
<1>2. i \in Counted(c) <=> c[i].sub = timer[i].mode - 1
  BY <1>1 DEF Counted
<1>3. i \in Ticks(c) <=> i \in Counted(c)
  BY <1>1, Zenon DEF Ticks
<1>4. ASSUME i \in Wraps(c) PROVE c[i].count = Values - 1 /\ i \in Counted(c)
  <2>1. PICK j \in Counted(c) : j <= i /\ \A k \in j + 1 .. i : timer[k].mode = Chained
    BY <1>4 DEF Wraps
  <2>2. j \in Int
    BY DEF Counted, Timer
  <2>3. j = i
    BY <1>1, <2>1, <2>2
  <2>. QED  BY <1>4, <2>3, WrapsOff
<1>5. ASSUME c[i].count = Values - 1, i \in Counted(c) PROVE i \in Wraps(c)
  <2>1. i <= i /\ \A k \in i + 1 .. i : FALSE
    BY <1>1
  <2>. QED  BY <1>1, <1>5, <2>1 DEF Wraps
<1>. QED  BY <1>2, <1>3, <1>4, <1>5

(* A chained one overflows, or counts, with the timer its chain starts at. *)
WrapsWith(c, b, i) == Enabled(timer[b]) /\ b \in Wraps(c) /\ i \in Chain(timer, b)

LEMMA WrapsChained ==
    ASSUME NEW c, NEW i \in Timer, timer[i].on, timer[i].mode = Chained
    PROVE  i \in Wraps(c) <=> \E b \in Timer : WrapsWith(c, b, i) /\ Top(Counts(c), b, i)
<1>1. ASSUME i \in Wraps(c) PROVE \E b \in Timer : WrapsWith(c, b, i) /\ Top(Counts(c), b, i)
  <2>1. PICK b \in Counted(c) :
           /\ b <= i /\ b \in Timer /\ timer[b].on /\ c[b].count = Values - 1
           /\ \A k \in b + 1 .. i : k \in Timer /\ timer[k].on /\ c[k].count = Values - 1 /\ timer[k].mode = Chained
    BY <1>1, Zenon DEF Wraps
  <2>2. timer[b].mode # Chained /\ c[b].sub = timer[b].mode - 1
    BY DEF Counted
  <2>3. Enabled(timer[b])
    BY <2>1, <2>2, Zenon DEF Enabled
  <2>4. b \in Wraps(c)
    BY <2>1, <2>2, <2>3, WrapsEnabled
  <2>5. i \in Chain(timer, b)
    BY <2>1, <2>2 DEF Chain, Timer
  <2>6. Top(Counts(c), b, i)
    BY <2>1 DEF Top, Counts
  <2>. QED  BY <2>1, <2>3, <2>4, <2>5, <2>6, Zenon DEF WrapsWith
<1>2. ASSUME NEW b \in Timer, WrapsWith(c, b, i), Top(Counts(c), b, i) PROVE i \in Wraps(c)
  <2>1. Enabled(timer[b]) /\ b \in Wraps(c) /\ i \in Chain(timer, b)
    BY <1>2, Zenon DEF WrapsWith
  <2>2. c[b].count = Values - 1 /\ c[b].sub = timer[b].mode - 1 /\ timer[b].on /\ timer[b].mode # Chained
    BY <2>1, WrapsEnabled, Zenon DEF Enabled
  <2>3. b \in Counted(c)
    BY <2>2, Zenon DEF Counted
  <2>4. \A k \in b + 1 .. i : k \in Timer /\ timer[k].on /\ timer[k].mode = Chained
    BY <2>1, ChainFacts, Zenon
  <2>5. \A k \in b + 1 .. i : c[k].count = Values - 1
    BY <1>2, <2>4 DEF Top, Counts
  <2>6. b <= i /\ i \in b + 1 .. i
    BY <2>1 DEF Chain, Timer
  <2>. QED  BY <2>2, <2>3, <2>4, <2>5, <2>6, Zenon DEF Wraps
<1>. QED  BY <1>1, <1>2

LEMMA TicksChained ==
    ASSUME NEW c, NEW i \in Timer, timer[i].on, timer[i].mode = Chained
    PROVE  i \in Ticks(c) <=> \E b \in Timer : WrapsWith(c, b, i) /\ Top(Counts(c), b, i - 1)
<1>1. i \in Ticks(c) <=> i - 1 \in Wraps(c)
  BY Zenon DEF Ticks, Counted
<1>2. i \in Int /\ (i - 1) + 1 = i /\ \A k \in i .. i - 1 : FALSE
  BY DEF Timer
<1>3. ASSUME i - 1 \in Wraps(c) PROVE \E b \in Timer : WrapsWith(c, b, i) /\ Top(Counts(c), b, i - 1)
  <2>1. i - 1 \in Timer /\ timer[i - 1].on
    BY <1>3, WrapsOff
  <2>2. CASE timer[i - 1].mode # Chained
    <3>1. Enabled(timer[i - 1])
      BY <2>1, <2>2, Zenon DEF Enabled
    <3>2. i \in Chain(timer, i - 1)
      BY <1>2 DEF Chain
    <3>3. Top(Counts(c), i - 1, i - 1)
      BY <1>2 DEF Top
    <3>. QED  BY <1>3, <2>1, <3>1, <3>2, <3>3, Zenon DEF WrapsWith
  <2>3. CASE timer[i - 1].mode = Chained
    <3>1. PICK b \in Timer : WrapsWith(c, b, i - 1) /\ Top(Counts(c), b, i - 1)
      BY <1>3, <2>1, <2>3, WrapsChained
    <3>2. i \in Chain(timer, b)
      <4>1. i - 1 \in Chain(timer, b) /\ b \in Int
        BY <3>1 DEF WrapsWith, Timer
      <4>2. i > b /\ \A j \in b + 1 .. i : j = i \/ j \in b + 1 .. i - 1
        BY <4>1, <1>2 DEF Chain
      <4>. QED  BY <4>1, <4>2, Zenon DEF Chain
    <3>. QED  BY <3>1, <3>2, Zenon DEF WrapsWith
  <2>. QED  BY <2>2, <2>3
<1>4. ASSUME NEW b \in Timer, WrapsWith(c, b, i), Top(Counts(c), b, i - 1) PROVE i - 1 \in Wraps(c)
  <2>1. b \in Wraps(c) /\ i \in Chain(timer, b) /\ b \in Int
    BY <1>4 DEF WrapsWith, Timer
  <2>2. CASE i - 1 = b
    BY <2>1, <2>2
  <2>3. CASE i - 1 # b
    <3>1. i - 1 \in b + 1 .. i
      BY <2>1, <2>3, <1>2 DEF Chain
    <3>2. i - 1 \in Chain(timer, b)
      BY <2>1, <3>1, ChainFacts, Zenon
    <3>3. i - 1 \in Timer /\ timer[i - 1].on /\ timer[i - 1].mode = Chained
      BY <3>2, ChainFacts, Zenon
    <3>. QED  BY <1>4, <3>2, <3>3, WrapsChained, Zenon DEF WrapsWith
  <2>. QED  BY <2>2, <2>3
<1>. QED  BY <1>1, <1>3, <1>4, Zenon

-----------------------------------------------------------------------------
(* One cycle of one counter.                                               *)
LEMMA CycleClock ==
    ASSUME NEW e, NEW i \in Timer
    PROVE  Cycle(e).clock[i] =
             IF ~timer[i].on THEN e.clock[i]
             ELSE [count |-> IF i \in Wraps(e.clock) THEN timer[i].reload
                             ELSE IF i \in Ticks(e.clock) THEN e.clock[i].count + 1 ELSE e.clock[i].count,
                   sub |-> IF timer[i].mode = Chained THEN -1 ELSE (e.clock[i].sub + 1) % timer[i].mode]
  BY DEF Cycle

LEMMA CycleIrqs ==
    ASSUME NEW e
    PROVE  Cycle(e).irqs = e.irqs \cup {i \in Wraps(e.clock) : timer[i].irq}
  BY DEF Cycle

LEMMA NextSub ==
    ASSUME NEW u \in Nat \ {0}, NEW s \in 0 .. u - 1
    PROVE  (s + 1) % u = IF s = u - 1 THEN 0 ELSE s + 1
<1>. DEFINE q == (s + 1) \div u
            r == (s + 1) % u
<1>1. q \in Int /\ r \in 0 .. u - 1 /\ s + 1 = u * q + r
  OBVIOUS
<1>. HIDE DEF q, r
<1>2. u * q \in Int /\ u * 0 = 0 /\ u * 1 = u
  BY <1>1
<1>3. q >= 0
  <2>. SUFFICES ASSUME q < 0 PROVE FALSE
    BY <1>1
  <2>1. u * q + u <= u * 0
    BY <1>1, Product
  <2>. QED  BY <1>1, <1>2, <2>1
<1>4. q <= 1
  <2>. SUFFICES ASSUME 1 < q PROVE FALSE
    BY <1>1
  <2>1. u * 1 + u <= u * q
    BY <1>1, Product
  <2>. QED  BY <1>1, <1>2, <2>1
<1>5. q = 0 \/ q = 1
  BY <1>1, <1>3, <1>4
<1>6. r = IF s = u - 1 THEN 0 ELSE s + 1
  <2>1. CASE q = 0
    BY <1>1, <1>2, <2>1
  <2>2. CASE q = 1
    BY <1>1, <1>2, <2>2
  <2>. QED  BY <1>5, <2>1, <2>2
<1>. QED  BY <1>6 DEF r

(* The cycles until the overflow, tick by tick.                            *)
LEMMA UntilFacts ==
    ASSUME NEW u \in Nat \ {0}, NEW v \in Nat \ {0}, NEW s \in 0 .. u - 1, NEW k \in 0 .. v - 1
    PROVE  /\ (v - k) * u - s \in Nat \ {0}
           /\ (v - k) * u - s = 1 <=> k = v - 1 /\ s = u - 1
           /\ (v - k) * u - (s + 1) = ((v - k) * u - s) - 1
           /\ s = u - 1 => (v - (k + 1)) * u - 0 = ((v - k) * u - s) - 1
<1>1. (v - k) * u \in Int /\ (v - (k + 1)) * u = (v - k) * u - u /\ 1 * u = u
  OBVIOUS
<1>2. u <= (v - k) * u
  <2>1. u * 1 <= u * (v - k)
    BY Product
  <2>. QED  BY <1>1, <2>1
<1>3. k # v - 1 => u + u <= (v - k) * u
  <2>1. k # v - 1 => u * 2 <= u * (v - k)
    BY Product
  <2>. QED  BY <1>1, <2>1
<1>4. k = v - 1 => (v - k) * u = u
  BY <1>1
<1>5. CASE k = v - 1
  BY <1>1, <1>4, <1>5
<1>6. CASE k # v - 1
  BY <1>1, <1>3, <1>6
<1>. QED  BY <1>5, <1>6

Ranged(i, c) == c.count \in 0 .. Values - 1 /\ c.sub \in 0 .. timer[i].mode - 1

LEMMA CycleCounted ==
    ASSUME TimersTyped, NEW e, NEW i \in Timer, Enabled(timer[i]), Ranged(i, e.clock[i])
    PROVE  /\ Ranged(i, Cycle(e).clock[i])
           /\ Until(i, e.clock[i]) \in Nat \ {0}
           /\ i \in Wraps(e.clock) <=> Until(i, e.clock[i]) = 1
           /\ i \in Wraps(e.clock) => Until(i, Cycle(e).clock[i]) = Period(timer[i])
           /\ i \notin Wraps(e.clock) => Until(i, Cycle(e).clock[i]) = Until(i, e.clock[i]) - 1
<1>. DEFINE u == timer[i].mode
            c == e.clock[i]
            n == Cycle(e).clock[i]
            r == timer[i].reload
<1>1. u \in Nat \ {0} /\ timer[i].on /\ u # Chained /\ r \in 0 .. Values - 1 /\ Values \in Nat \ {0}
  <2>1. timer[i] \in TimerRecord
    BY DEF TimersTyped
  <2>2. u \in Nat \ {0} /\ timer[i].on /\ u # Chained
    BY <2>1, Units16, Zenon
  <2>3. r \in 0 .. Values - 1
    BY <2>1 DEF TimerRecord
  <2>. QED  BY <2>2, <2>3, TimersAssumption
<1>2. c.count \in 0 .. Values - 1 /\ c.sub \in 0 .. u - 1
  BY DEF Ranged
<1>3. (c.sub + 1) % u = IF c.sub = u - 1 THEN 0 ELSE c.sub + 1
  BY <1>1, <1>2, NextSub
<1>4. /\ i \in Ticks(e.clock) <=> c.sub = u - 1
      /\ i \in Wraps(e.clock) <=> c.count = Values - 1 /\ c.sub = u - 1
  BY WrapsEnabled
<1>5. n = [count |-> IF i \in Wraps(e.clock) THEN r
                     ELSE IF i \in Ticks(e.clock) THEN c.count + 1 ELSE c.count,
           sub |-> (c.sub + 1) % u]
  BY <1>1, CycleClock, Zenon
<1>6. /\ n.count = IF i \in Wraps(e.clock) THEN r ELSE IF i \in Ticks(e.clock) THEN c.count + 1 ELSE c.count
      /\ n.sub = IF c.sub = u - 1 THEN 0 ELSE c.sub + 1
  BY <1>3, <1>5
<1>7. /\ Until(i, c) = (Values - c.count) * u - c.sub /\ Until(i, n) = (Values - n.count) * u - n.sub
      /\ Period(timer[i]) = (Values - r) * u
  BY DEF Until, Period
<1>. HIDE DEF u, c, n, r
<1>8. /\ (Values - c.count) * u - c.sub \in Nat \ {0}
      /\ (Values - c.count) * u - c.sub = 1 <=> c.count = Values - 1 /\ c.sub = u - 1
      /\ (Values - c.count) * u - (c.sub + 1) = ((Values - c.count) * u - c.sub) - 1
      /\ c.sub = u - 1 => (Values - (c.count + 1)) * u - 0 = ((Values - c.count) * u - c.sub) - 1
  <2>1. \A s \in 0 .. u - 1, k \in 0 .. Values - 1 :
           /\ (Values - k) * u - s \in Nat \ {0}
           /\ (Values - k) * u - s = 1 <=> k = Values - 1 /\ s = u - 1
           /\ (Values - k) * u - (s + 1) = ((Values - k) * u - s) - 1
           /\ s = u - 1 => (Values - (k + 1)) * u - 0 = ((Values - k) * u - s) - 1
    BY <1>1, UntilFacts
  <2>. QED  BY <1>2, <2>1, Zenon
<1>9. n.count \in 0 .. Values - 1 /\ n.sub \in 0 .. u - 1
  BY <1>1, <1>2, <1>4, <1>6
<1>10. i \in Wraps(e.clock) <=> Until(i, c) = 1
  BY <1>4, <1>7, <1>8
<1>11. ASSUME i \in Wraps(e.clock) PROVE Until(i, n) = Period(timer[i])
  <2>1. n.count = r /\ n.sub = 0
    BY <1>4, <1>6, <1>11
  <2>2. (Values - r) * u \in Int
    BY <1>1
  <2>. QED  BY <1>7, <2>1, <2>2
<1>12. ASSUME i \notin Wraps(e.clock) PROVE Until(i, n) = Until(i, c) - 1
  <2>1. CASE c.sub = u - 1
    <3>1. n.count = c.count + 1 /\ n.sub = 0
      BY <1>4, <1>6, <1>12, <2>1
    <3>. QED  BY <1>7, <1>8, <2>1, <3>1
  <2>2. CASE c.sub # u - 1
    <3>1. n.count = c.count /\ n.sub = c.sub + 1
      BY <1>4, <1>6, <1>12, <2>2
    <3>. QED  BY <1>7, <1>8, <3>1
  <2>. QED  BY <2>1, <2>2
<1>13. Ranged(i, n)
  BY <1>9 DEF Ranged, u
<1>14. Until(i, c) \in Nat \ {0}
  BY <1>7, <1>8
<1>. QED  BY <1>10, <1>11, <1>12, <1>13, <1>14 DEF c, n

(* A chained counter.                                                      *)
LEMMA CycleChained ==
    ASSUME NEW e, NEW i \in Timer, timer[i].on, timer[i].mode = Chained
    PROVE  /\ Cycle(e).clock[i].sub = -1
           /\ Cycle(e).clock[i].count =
                IF i \in Wraps(e.clock) THEN timer[i].reload
                ELSE IF i \in Ticks(e.clock) THEN e.clock[i].count + 1 ELSE e.clock[i].count
<1>. DEFINE k == IF i \in Wraps(e.clock) THEN timer[i].reload
                 ELSE IF i \in Ticks(e.clock) THEN e.clock[i].count + 1 ELSE e.clock[i].count
<1>1. Cycle(e).clock[i] = [count |-> k, sub |-> -1]
  BY CycleClock, Zenon
<1>. HIDE DEF k
<1>2. Cycle(e).clock[i].count = k /\ Cycle(e).clock[i].sub = -1
  BY <1>1
<1>. QED  BY <1>2 DEF k

(* No counter gets past its last value.                                    *)
LEMMA CycleTyped ==
    ASSUME TimersTyped, NEW e, e.clock \in Clocks
    PROVE  Cycle(e).clock \in Clocks
<1>. DEFINE c == e.clock
<1>1. Cycle(e).clock = [i \in Timer |-> Cycle(e).clock[i]]
  BY DEF Cycle
<1>2. ASSUME NEW i \in Timer PROVE Cycle(e).clock[i] \in [count : 0 .. Values - 1, sub : Int]
  <2>1. c[i] \in [count : 0 .. Values - 1, sub : Int] /\ timer[i] \in TimerRecord
    BY DEF Clocks, TimersTyped
  <2>2. c[i].count \in 0 .. Values - 1 /\ c[i].sub \in Int /\ timer[i].reload \in 0 .. Values - 1
    BY <2>1 DEF TimerRecord
  <2>3. CASE ~timer[i].on
    BY <2>1, <2>3, CycleClock
  <2>4. CASE timer[i].on
    <3>1. i \in Ticks(c) /\ i \notin Wraps(c) => c[i].count # Values - 1
      <4>1. CASE timer[i].mode # Chained
        <5>1. Enabled(timer[i])
          BY <2>4, <4>1, Zenon DEF Enabled
        <5>. QED  BY <5>1, WrapsEnabled, Zenon
      <4>2. CASE timer[i].mode = Chained
        <5>. SUFFICES ASSUME i \in Ticks(c), i \notin Wraps(c), c[i].count = Values - 1 PROVE FALSE
          OBVIOUS
        <5>1. PICK b \in Timer : WrapsWith(c, b, i) /\ Top(Counts(c), b, i - 1)
          BY <2>4, <4>2, TicksChained, Zenon
        <5>2. Top(Counts(c), b, i)
          <6>. SUFFICES ASSUME NEW j \in b + 1 .. i PROVE Counts(c)[j] = Values - 1
            BY DEF Top
          <6>1. j = i \/ j \in b + 1 .. i - 1
            BY DEF Timer
          <6>2. Counts(c)[i] = Values - 1
            BY DEF Counts
          <6>. QED  BY <5>1, <6>1, <6>2 DEF Top
        <5>. QED  BY <2>4, <4>2, <5>1, <5>2, WrapsChained, Zenon
      <4>. QED  BY <4>1, <4>2
    <3>2. (c[i].sub + 1) % timer[i].mode \in Int \/ timer[i].mode = Chained
      <4>1. CASE timer[i].mode # Chained
        <5>1. Enabled(timer[i])
          BY <2>4, <4>1, Zenon DEF Enabled
        <5>2. timer[i].mode \in Nat \ {0}
          BY <2>1, <5>1, Units16, Zenon
        <5>. QED  BY <2>2, <5>2
      <4>. QED  BY <4>1
    <3>. DEFINE k == IF i \in Wraps(c) THEN timer[i].reload ELSE IF i \in Ticks(c) THEN c[i].count + 1 ELSE c[i].count
                s == IF timer[i].mode = Chained THEN -1 ELSE (c[i].sub + 1) % timer[i].mode
    <3>3. k \in 0 .. Values - 1
      BY <2>2, <3>1, TimersAssumption
    <3>4. s \in Int
      BY <3>2
    <3>5. Cycle(e).clock[i] = [count |-> k, sub |-> s]
      BY <2>4, CycleClock, Zenon
    <3>. QED  BY <3>3, <3>4, <3>5
  <2>. QED  BY <2>3, <2>4
<1>. QED  BY <1>1, <1>2, Zenon DEF Clocks

-----------------------------------------------------------------------------
(* The timers that overflow within n cycles, and those that do it more     *)
(* than once.                                                              *)
Hits(b, n) == b \in Timer /\ Enabled(timer[b]) /\ timer[b].left - n <= 0

Many(b, n) == Hits(b, n) /\ (timer[b].left - n) + Period(timer[b]) <= 0

Lost(n) == UNION {Chain(timer, b) : b \in {c \in Timer : Many(c, n)}}

(* What one overflow of timer b does to the values v of its chain, and the *)
(* timers that interrupt.                                                  *)
StepOf(v, b, i) ==
    IF ~Top(v, b, i - 1) THEN v[i] ELSE IF v[i] = Values - 1 THEN timer[i].reload ELSE v[i] + 1

Asked(v, n) ==
    {i \in Timer : timer[i].irq /\ \E b \in Timer : Hits(b, n) /\ (i = b \/ (i \in Chain(timer, b) /\ Top(v, b, i)))}

(* The counters after n cycles: what each overflow has done, if it was the *)
(* first of its timer.                                                     *)
CountedTo(c, i, n) ==
    /\ Ranged(i, c[i])
    /\ \E k : /\ Times(k, timer[i].left - n, Period(timer[i]))
              /\ Until(i, c[i]) = (timer[i].left - n) + k * Period(timer[i])

ChainedTo(c, i, n) ==
    /\ c[i].sub = -1
    /\ (\A b \in Timer : Hits(b, n) => i \notin Chain(timer, b)) => c[i].count = clock[i].count
    /\ \A b \in Timer : Hits(b, n) /\ ~Many(b, n) /\ i \in Chain(timer, b) =>
           c[i].count = StepOf(Counts(clock), b, i)

TickedTo(e, n) ==
    /\ e.clock \in Clocks /\ e.irqs \subseteq Timer
    /\ \A i \in Timer : ~timer[i].on => e.clock[i] = clock[i]
    /\ \A i \in Timer : Enabled(timer[i]) => CountedTo(e.clock, i, n)
    /\ \A i \in Timer : timer[i].on /\ timer[i].mode = Chained => ChainedTo(e.clock, i, n)
    /\ \A i \in Timer : i \notin Lost(n) => (i \in e.irqs <=> i \in Asked(Counts(clock), n))

(* A counter of cycles overflows in the cycle in which its timer hits.     *)
LEMMA CountedNext ==
    ASSUME TimersTyped, NEW e, NEW n \in Nat, NEW b \in Timer, Enabled(timer[b]), CountedTo(e.clock, b, n)
    PROVE  /\ CountedTo(Cycle(e).clock, b, n + 1)
           /\ Hits(b, n) => Hits(b, n + 1)
           /\ Many(b, n) => Many(b, n + 1)
           /\ ~Hits(b, n) => (b \in Wraps(e.clock) <=> Hits(b, n + 1)) /\ ~Many(b, n + 1)
           /\ Hits(b, n) /\ ~Many(b, n) => (b \in Wraps(e.clock) <=> Many(b, n + 1))
<1>. DEFINE p == Period(timer[b])
            l == timer[b].left
<1>1. p \in Nat \ {0} /\ l \in Int
  <2>1. timer[b] \in TimerRecord
    BY DEF TimersTyped
  <2>2. p \in Nat \ {0}
    BY <2>1, Units16, Zenon
  <2>3. l \in Int
    BY <2>1 DEF TimerRecord
  <2>. QED  BY <2>2, <2>3
<1>2. PICK k : Times(k, l - n, p) /\ Until(b, e.clock[b]) = (l - n) + k * p
  BY DEF CountedTo
<1>3. Ranged(b, e.clock[b])
  BY DEF CountedTo
<1>4. /\ Ranged(b, Cycle(e).clock[b])
      /\ b \in Wraps(e.clock) <=> Until(b, e.clock[b]) = 1
      /\ b \in Wraps(e.clock) => Until(b, Cycle(e).clock[b]) = p
      /\ b \notin Wraps(e.clock) => Until(b, Cycle(e).clock[b]) = Until(b, e.clock[b]) - 1
  BY <1>3, CycleCounted, Zenon
<1>5. Hits(b, n) <=> l - n <= 0
  BY DEF Hits
<1>6. Many(b, n) <=> l - n <= 0 /\ (l - n) + p <= 0
  BY DEF Hits, Many
<1>7. Hits(b, n + 1) <=> l - (n + 1) <= 0
  BY DEF Hits
<1>8. Many(b, n + 1) <=> l - (n + 1) <= 0 /\ (l - (n + 1)) + p <= 0
  BY DEF Hits, Many
<1>. DEFINE until == Until(b, e.clock[b])
            next == Until(b, Cycle(e).clock[b])
            wraps == b \in Wraps(e.clock)
<1>. SUFFICES /\ \E m : Times(m, l - (n + 1), p) /\ next = (l - (n + 1)) + m * p
              /\ Hits(b, n) => Hits(b, n + 1)
              /\ Many(b, n) => Many(b, n + 1)
              /\ ~Hits(b, n) => (wraps <=> Hits(b, n + 1)) /\ ~Many(b, n + 1)
              /\ Hits(b, n) /\ ~Many(b, n) => (wraps <=> Many(b, n + 1))
  BY <1>4, Zenon DEF CountedTo
<1>9. (wraps <=> until = 1) /\ (wraps => next = p) /\ (~wraps => next = until - 1) /\ until = (l - n) + k * p
  BY <1>2, <1>4
<1>. HIDE DEF p, l, until, next, wraps
<1>10. l - (n + 1) = (l - n) - 1 /\ l - n \in Int
  BY <1>1
<1>11. /\ (l - n) + k * p # 1 => Times(k, (l - n) - 1, p) /\ ((l - n) - 1) + k * p = ((l - n) + k * p) - 1
       /\ (l - n) + k * p = 1 => Times(k + 1, (l - n) - 1, p) /\ ((l - n) - 1) + (k + 1) * p = p
  BY <1>1, <1>2, <1>10, TimesNext, Zenon
<1>12. \E m : Times(m, l - (n + 1), p) /\ next = (l - (n + 1)) + m * p
  <2>1. CASE until = 1
    <3>1. Times(k + 1, l - (n + 1), p) /\ next = (l - (n + 1)) + (k + 1) * p
      BY <1>9, <1>10, <1>11, <2>1, Zenon
    <3>. QED  BY <3>1, Zenon
  <2>2. CASE until # 1
    <3>1. Times(k, l - (n + 1), p) /\ next = (l - (n + 1)) + k * p
      BY <1>9, <1>10, <1>11, <2>2, Zenon
    <3>. QED  BY <3>1, Zenon
  <2>. QED  BY <2>1, <2>2
<1>13. /\ k * p \in Int /\ k \in Nat
       /\ l - n > 0 <=> k = 0
       /\ (l - n) + p > 0 <=> k <= 1
       /\ k = 0 => (l - n) + k * p = l - n
       /\ k = 1 => (l - n) + k * p = (l - n) + p
  <2>1. k \in Nat
    BY <1>2, Zenon DEF Times
  <2>2. \A x \in Int : Times(k, x, p) =>
           /\ k * p \in Int
           /\ x > 0 <=> k = 0
           /\ x + p > 0 <=> k <= 1
           /\ k = 0 => x + k * p = x
           /\ k = 1 => x + k * p = x + p
    BY <1>1, TimesZero
  <2>. QED  BY <1>2, <1>10, <2>1, <2>2, Zenon
<1>14. (l - n) + k * p > 0
  BY <1>2, Zenon DEF Times
<1>15. Hits(b, n) => Hits(b, n + 1)
  BY <1>1, <1>5, <1>7
<1>16. Many(b, n) => Many(b, n + 1)
  BY <1>1, <1>6, <1>8
<1>17. ASSUME ~Hits(b, n) PROVE (wraps <=> Hits(b, n + 1)) /\ ~Many(b, n + 1)
  BY <1>1, <1>5, <1>7, <1>8, <1>9, <1>13, <1>17
<1>18. ASSUME Hits(b, n), ~Many(b, n) PROVE wraps <=> Many(b, n + 1)
  BY <1>1, <1>5, <1>6, <1>8, <1>9, <1>13, <1>18
<1>. QED  BY <1>12, <1>15, <1>16, <1>17, <1>18

(* Until its timer hits, a chain is as it was.                             *)
LEMMA FreshChain ==
    ASSUME NEW e, NEW n \in Nat, TickedTo(e, n), NEW b \in Timer, Enabled(timer[b]), ~Hits(b, n),
           NEW i \in Chain(timer, b)
    PROVE  /\ \A j \in b + 1 .. i : e.clock[j].count = clock[j].count
           /\ e.clock[i].count = clock[i].count
           /\ Top(Counts(e.clock), b, i) <=> Top(Counts(clock), b, i)
           /\ Top(Counts(e.clock), b, i - 1) <=> Top(Counts(clock), b, i - 1)
<1>1. ASSUME NEW j \in Chain(timer, b) PROVE e.clock[j].count = clock[j].count
  <2>1. j \in Timer /\ timer[j].on /\ timer[j].mode = Chained
    BY ChainFacts, Zenon
  <2>2. \A c \in Timer : Hits(c, n) => j \notin Chain(timer, c)
    BY OneBase, Zenon DEF Hits
  <2>. QED  BY <2>1, <2>2, Zenon DEF TickedTo, ChainedTo
<1>2. \A j \in b + 1 .. i : j \in Timer /\ j \in Chain(timer, b)
  BY ChainFacts, Zenon
<1>3. \A j \in b + 1 .. i : Counts(e.clock)[j] = Counts(clock)[j]
  BY <1>1, <1>2, Zenon DEF Counts
<1>4. \A j \in b + 1 .. i - 1 : j \in b + 1 .. i
  BY DEF Chain, Timer
<1>. QED  BY <1>1, <1>2, <1>3, <1>4, Zenon DEF Top

(* One cycle of a chained counter.                                         *)
LEMMA ChainedNext ==
    ASSUME TimersTyped, NEW e, NEW n \in Nat, TickedTo(e, n),
           NEW i \in Timer, timer[i].on, timer[i].mode = Chained
    PROVE  ChainedTo(Cycle(e).clock, i, n + 1)
<1>. DEFINE c == Cycle(e).clock
<1>1. /\ c[i].sub = -1
      /\ c[i].count = IF i \in Wraps(e.clock) THEN timer[i].reload
                      ELSE IF i \in Ticks(e.clock) THEN e.clock[i].count + 1 ELSE e.clock[i].count
  BY CycleChained, Zenon
<1>2. ChainedTo(e.clock, i, n)
  BY Zenon DEF TickedTo
<1>3. ASSUME NEW b \in Timer, Enabled(timer[b])
      PROVE  /\ Hits(b, n) => Hits(b, n + 1)
             /\ Many(b, n) => Many(b, n + 1)
             /\ ~Hits(b, n) => (b \in Wraps(e.clock) <=> Hits(b, n + 1)) /\ ~Many(b, n + 1)
             /\ Hits(b, n) /\ ~Many(b, n) => (b \in Wraps(e.clock) <=> Many(b, n + 1))
  <2>1. CountedTo(e.clock, b, n)
    BY <1>3, Zenon DEF TickedTo
  <2>. QED  BY <1>3, <2>1, CountedNext, Zenon
<1>. HIDE DEF c
<1>4. ASSUME \A b \in Timer : Hits(b, n + 1) => i \notin Chain(timer, b)
      PROVE  c[i].count = clock[i].count
  <2>1. \A b \in Timer : Hits(b, n) => i \notin Chain(timer, b)
    BY <1>3, <1>4, Zenon DEF Hits
  <2>2. \A b \in Timer : ~WrapsWith(e.clock, b, i)
    BY <1>3, <1>4, <2>1, Zenon DEF WrapsWith
  <2>3. i \notin Wraps(e.clock) /\ i \notin Ticks(e.clock)
    BY <2>2, WrapsChained, TicksChained, Zenon
  <2>. QED  BY <1>1, <1>2, <2>1, <2>3, Zenon DEF ChainedTo
<1>5. ASSUME NEW b \in Timer, Hits(b, n + 1), ~Many(b, n + 1), i \in Chain(timer, b)
      PROVE  c[i].count = StepOf(Counts(clock), b, i)
  <2>1. Enabled(timer[b])
    BY <1>5, Zenon DEF Hits
  <2>2. \A d \in Timer : WrapsWith(e.clock, d, i) => d = b
    BY <1>5, <2>1, OneBase, Zenon DEF WrapsWith
  <2>3. CASE Hits(b, n)
    <3>1. ~Many(b, n) /\ b \notin Wraps(e.clock)
      BY <1>3, <1>5, <2>1, <2>3, Zenon
    <3>2. \A d \in Timer : ~WrapsWith(e.clock, d, i)
      BY <2>2, <3>1, Zenon DEF WrapsWith
    <3>3. i \notin Wraps(e.clock) /\ i \notin Ticks(e.clock)
      BY <3>2, WrapsChained, TicksChained, Zenon
    <3>. QED  BY <1>1, <1>2, <1>5, <2>3, <3>1, <3>3, Zenon DEF ChainedTo
  <2>4. CASE ~Hits(b, n)
    <3>1. WrapsWith(e.clock, b, i)
      BY <1>3, <1>5, <2>1, <2>4, Zenon DEF WrapsWith
    <3>2. /\ e.clock[i].count = clock[i].count
          /\ Top(Counts(e.clock), b, i) <=> Top(Counts(clock), b, i)
          /\ Top(Counts(e.clock), b, i - 1) <=> Top(Counts(clock), b, i - 1)
      BY <1>5, <2>1, <2>4, FreshChain, Zenon
    <3>3. /\ i \in Wraps(e.clock) <=> Top(Counts(clock), b, i)
          /\ i \in Ticks(e.clock) <=> Top(Counts(clock), b, i - 1)
      BY <2>2, <3>1, <3>2, WrapsChained, TicksChained, Zenon
    <3>4. Top(Counts(clock), b, i) <=> Top(Counts(clock), b, i - 1) /\ clock[i].count = Values - 1
      <4>1. \A j \in b + 1 .. i : j \in b + 1 .. i - 1 \/ j = i
        BY DEF Timer
      <4>2. i \in b + 1 .. i /\ \A j \in b + 1 .. i - 1 : j \in b + 1 .. i
        BY <1>5 DEF Chain, Timer
      <4>3. Counts(clock)[i] = clock[i].count
        BY DEF Counts
      <4>. QED  BY <4>1, <4>2, <4>3, Zenon DEF Top
    <3>5. Counts(clock)[i] = clock[i].count
      BY DEF Counts
    <3>. QED  BY <1>1, <3>2, <3>3, <3>4, <3>5, Zenon DEF StepOf
  <2>. QED  BY <2>3, <2>4
<1>. QED  BY <1>1, <1>4, <1>5, Zenon DEF ChainedTo, c

(* One cycle's interrupts.                                                 *)
LEMMA AskedNext ==
    ASSUME TimersTyped, NEW e, NEW n \in Nat, TickedTo(e, n), NEW i \in Timer, i \notin Lost(n + 1)
    PROVE  i \in Cycle(e).irqs <=> i \in Asked(Counts(clock), n + 1)
<1>1. i \in Cycle(e).irqs <=> i \in e.irqs \/ (i \in Wraps(e.clock) /\ timer[i].irq)
  BY CycleIrqs, Zenon
<1>2. ASSUME NEW b \in Timer, Enabled(timer[b])
      PROVE  /\ Hits(b, n) => Hits(b, n + 1)
             /\ Many(b, n) => Many(b, n + 1)
             /\ ~Hits(b, n) => (b \in Wraps(e.clock) <=> Hits(b, n + 1)) /\ ~Many(b, n + 1)
             /\ Hits(b, n) /\ ~Many(b, n) => (b \in Wraps(e.clock) <=> Many(b, n + 1))
  <2>1. CountedTo(e.clock, b, n)
    BY <1>2, Zenon DEF TickedTo
  <2>. QED  BY <1>2, <2>1, CountedNext, Zenon
<1>3. i \notin Lost(n)
  BY <1>2, Zenon DEF Lost, Many, Hits
<1>4. i \in e.irqs <=> i \in Asked(Counts(clock), n)
  BY <1>3, Zenon DEF TickedTo
<1>5. CASE ~timer[i].on
  <2>1. i \notin Wraps(e.clock)
    BY <1>5, WrapsOff, Zenon
  <2>2. \A b \in Timer : i \notin Chain(timer, b)
    BY <1>5, ChainFacts, Zenon
  <2>3. \A m : ~Hits(i, m)
    BY <1>5, Zenon DEF Hits, Enabled
  <2>4. \A m : i \notin Asked(Counts(clock), m)
    BY <2>2, <2>3, Zenon DEF Asked
  <2>. QED  BY <1>1, <1>4, <2>1, <2>4, Zenon
<1>6. CASE Enabled(timer[i])
  <2>1. timer[i].mode # Chained
    BY <1>6, Zenon DEF Enabled
  <2>2. \A b \in Timer : i \notin Chain(timer, b)
    BY <2>1, ChainFacts, Zenon
  <2>3. \A m : i \in Asked(Counts(clock), m) <=> timer[i].irq /\ Hits(i, m)
    BY <2>2, Zenon DEF Asked
  <2>4. ~Hits(i, n) => (i \in Wraps(e.clock) <=> Hits(i, n + 1))
    BY <1>2, <1>6, Zenon
  <2>5. Hits(i, n) => Hits(i, n + 1)
    BY <1>2, <1>6, Zenon
  <2>. QED  BY <1>1, <1>4, <2>3, <2>4, <2>5, Zenon
<1>7. CASE timer[i].on /\ timer[i].mode = Chained
  <2>1. ~Enabled(timer[i]) /\ \A m : ~Hits(i, m)
    BY <1>7, Zenon DEF Enabled, Hits
  <2>2. \A m : i \in Asked(Counts(clock), m)
                 <=> timer[i].irq /\ \E b \in Timer : Hits(b, m) /\ i \in Chain(timer, b) /\ Top(Counts(clock), b, i)
    BY <2>1, Zenon DEF Asked
  <2>3. ASSUME NEW b \in Timer, i \in Chain(timer, b) PROVE ~Many(b, n + 1) /\ ~Many(b, n)
    BY <1>2, <1>3, <2>3, Zenon DEF Lost
  <2>4. ASSUME NEW b \in Timer, WrapsWith(e.clock, b, i), Top(Counts(e.clock), b, i)
        PROVE  Hits(b, n + 1) /\ i \in Chain(timer, b) /\ Top(Counts(clock), b, i)
    <3>1. Enabled(timer[b]) /\ b \in Wraps(e.clock) /\ i \in Chain(timer, b)
      BY <2>4, Zenon DEF WrapsWith
    <3>2. ~Hits(b, n) /\ Hits(b, n + 1)
      BY <1>2, <2>3, <3>1, Zenon
    <3>. QED  BY <2>4, <3>1, <3>2, FreshChain, Zenon
  <2>5. ASSUME NEW b \in Timer, Hits(b, n + 1), ~Hits(b, n), i \in Chain(timer, b), Top(Counts(clock), b, i)
        PROVE  i \in Wraps(e.clock)
    <3>1. Enabled(timer[b]) /\ b \in Wraps(e.clock)
      BY <1>2, <2>5, Zenon DEF Hits
    <3>2. Top(Counts(e.clock), b, i)
      BY <2>5, <3>1, FreshChain, Zenon
    <3>. QED  BY <1>7, <2>5, <3>1, <3>2, WrapsChained, Zenon DEF WrapsWith
  <2>6. i \in Wraps(e.clock) => i \in Asked(Counts(clock), n + 1) \/ ~timer[i].irq
    BY <1>7, <2>2, <2>4, WrapsChained, Zenon
  <2>7. i \in Asked(Counts(clock), n) => i \in Asked(Counts(clock), n + 1)
    BY <1>2, <2>2, Zenon DEF Hits
  <2>8. i \in Asked(Counts(clock), n + 1) => timer[i].irq /\ (i \in Asked(Counts(clock), n) \/ i \in Wraps(e.clock))
    BY <2>2, <2>5, Zenon
  <2>. QED  BY <1>1, <1>4, <2>6, <2>7, <2>8, Zenon
<1>. QED  BY <1>5, <1>6, <1>7, Zenon DEF Enabled

LEMMA TickedNext ==
    ASSUME TimersTyped, NEW e, NEW n \in Nat, TickedTo(e, n)
    PROVE  TickedTo(Cycle(e), n + 1)
<1>1. e.clock \in Clocks /\ e.irqs \subseteq Timer
  BY Zenon DEF TickedTo
<1>2. Cycle(e).clock \in Clocks
  BY <1>1, CycleTyped
<1>3. Cycle(e).irqs \subseteq Timer
  BY <1>1, CycleIrqs, WrapsOff, Zenon
<1>4. \A i \in Timer : ~timer[i].on => Cycle(e).clock[i] = clock[i]
  BY CycleClock, Zenon DEF TickedTo
<1>5. \A i \in Timer : Enabled(timer[i]) => CountedTo(Cycle(e).clock, i, n + 1)
  <2>. SUFFICES ASSUME NEW i \in Timer, Enabled(timer[i]) PROVE CountedTo(Cycle(e).clock, i, n + 1)
    BY Zenon
  <2>1. CountedTo(e.clock, i, n)
    BY Zenon DEF TickedTo
  <2>. QED  BY <2>1, CountedNext, Zenon
<1>6. \A i \in Timer : timer[i].on /\ timer[i].mode = Chained => ChainedTo(Cycle(e).clock, i, n + 1)
  BY ChainedNext, Zenon
<1>7. \A i \in Timer : i \notin Lost(n + 1) => (i \in Cycle(e).irqs <=> i \in Asked(Counts(clock), n + 1))
  BY AskedNext, Zenon
<1>. QED  BY <1>2, <1>3, <1>4, <1>5, <1>6, <1>7, Zenon DEF TickedTo

(* The counters at the start.                                              *)
LEMMA TickedStart == ASSUME TimersInv PROVE TickedTo([clock |-> clock, irqs |-> {}], 0)
<1>. DEFINE e == [clock |-> clock, irqs |-> {}]
<1>1. e.clock = clock /\ e.irqs = {}
  OBVIOUS
<1>2. clock \in Clocks /\ TimersTyped
  BY TypedTimers, Zenon DEF TimersInv, TimersTypeOK, Clocks
<1>3. ASSUME NEW i \in Timer, Enabled(timer[i])
      PROVE  /\ Ranged(i, clock[i]) /\ timer[i].left \in Nat \ {0} /\ timer[i].left = Until(i, clock[i])
             /\ timer[i].left - 0 = timer[i].left
             /\ Times(0, timer[i].left, Period(timer[i])) /\ timer[i].left + 0 * Period(timer[i]) = timer[i].left
  <2>1. Ranged(i, clock[i]) /\ timer[i].left = Until(i, clock[i])
    <3>1. clock[i].count \in 0 .. Values - 1
      BY <1>2 DEF Clocks
    <3>. QED  BY <1>3, <3>1, Zenon DEF TimersInv, Ranged
  <2>2. Until(i, clock[i]) \in Nat \ {0}
    BY <1>1, <1>2, <1>3, <2>1, CycleCounted, Zenon
  <2>3. Period(timer[i]) \in Nat \ {0}
    BY <1>2, <1>3, Units16 DEF TimersTyped
  <2>. QED  BY <2>1, <2>2, <2>3 DEF Times
<1>. HIDE DEF e
<1>4. \A b : ~Hits(b, 0)
  <2>. SUFFICES ASSUME NEW b, Hits(b, 0) PROVE FALSE
    OBVIOUS
  <2>1. b \in Timer /\ Enabled(timer[b]) /\ timer[b].left - 0 <= 0
    BY Zenon DEF Hits
  <2>2. timer[b].left \in Nat \ {0}
    BY <2>1, <1>3, Zenon
  <2>. QED  BY <2>1, <2>2
<1>5. \A i \in Timer : Enabled(timer[i]) => CountedTo(e.clock, i, 0)
  <2>. SUFFICES ASSUME NEW i \in Timer, Enabled(timer[i]) PROVE CountedTo(e.clock, i, 0)
    OBVIOUS
  <2>1. Times(0, timer[i].left - 0, Period(timer[i])) /\ Until(i, e.clock[i]) = (timer[i].left - 0) + 0 * Period(timer[i])
    BY <1>1, <1>3, Zenon
  <2>. QED  BY <1>1, <1>3, <2>1, Zenon DEF CountedTo
<1>6. \A i \in Timer : timer[i].on /\ timer[i].mode = Chained => ChainedTo(e.clock, i, 0)
  BY <1>1, <1>4, Zenon DEF TimersInv, ChainedTo
<1>7. \A i : i \notin Asked(Counts(clock), 0)
  BY <1>4, Zenon DEF Asked
<1>8. TickedTo(e, 0)
  BY <1>1, <1>2, <1>5, <1>6, <1>7, Zenon DEF TickedTo
<1>. QED  BY <1>8 DEF e

(* The recursion of the cycles.                                            *)
LEMMA TickedDef ==
    Ticked = [n \in 0 .. MaxLate |->
                IF n = 0 THEN [clock |-> clock, irqs |-> {}] ELSE Cycle(Ticked[n - 1])]
<1>. DEFINE start == [clock |-> clock, irqs |-> {}]
            S == {n \in 0 .. MaxLate :
                    \E g : g = [m \in 0 .. n |-> IF m = 0 THEN start ELSE Cycle(g[m - 1])]}
<1>. HIDE DEF start
<1>1. 0 \in S
  <2>. DEFINE g == [m \in 0 .. 0 |-> start]
  <2>1. \A m \in 0 .. 0 : g[m] = IF m = 0 THEN start ELSE Cycle(g[m - 1])
    OBVIOUS
  <2>2. g = [m \in 0 .. 0 |-> g[m]]
    OBVIOUS
  <2>. HIDE DEF g
  <2>3. g = [m \in 0 .. 0 |-> IF m = 0 THEN start ELSE Cycle(g[m - 1])]
    BY <2>1, <2>2
  <2>4. 0 \in 0 .. MaxLate
    BY TimersAssumption
  <2>. QED  BY <2>3, <2>4, Zenon
<1>2. ASSUME NEW n \in 0 .. MaxLate - 1, n \in S PROVE n + 1 \in S
  <2>1. PICK g : g = [m \in 0 .. n |-> IF m = 0 THEN start ELSE Cycle(g[m - 1])]
    BY <1>2
  <2>. DEFINE h == [m \in 0 .. n + 1 |-> IF m = n + 1 THEN Cycle(g[n]) ELSE g[m]]
  <2>2. ASSUME NEW m \in 0 .. n + 1 PROVE h[m] = IF m = 0 THEN start ELSE Cycle(h[m - 1])
    <3>1. CASE m = n + 1
      <4>1. h[m] = Cycle(g[n]) /\ h[m - 1] = g[n] /\ m # 0
        BY <3>1
      <4>. QED  BY <4>1
    <3>2. CASE m # n + 1
      <4>1. m \in 0 .. n /\ h[m] = g[m]
        BY <3>2
      <4>2. m # 0 => m - 1 \in 0 .. n + 1 /\ m - 1 # n + 1
        BY <3>2
      <4>3. m # 0 => h[m - 1] = g[m - 1]
        BY <4>2
      <4>. HIDE DEF h
      <4>4. g[m] = IF m = 0 THEN start ELSE Cycle(g[m - 1])
        BY <2>1, <4>1, Zenon
      <4>. QED  BY <4>1, <4>3, <4>4
    <3>. QED  BY <3>1, <3>2
  <2>3. h = [m \in 0 .. n + 1 |-> h[m]]
    OBVIOUS
  <2>. HIDE DEF h
  <2>4. h = [m \in 0 .. n + 1 |-> IF m = 0 THEN start ELSE Cycle(h[m - 1])]
    BY <2>2, <2>3
  <2>. QED  BY <2>4, TimersAssumption
<1>3. MaxLate \in S
  <2>. HIDE DEF S
  <2>1. MaxLate \in Nat /\ MaxLate \in 0 .. MaxLate
    BY TimersAssumption
  <2>. QED  BY <1>1, <1>2, <2>1, Counting
<1>4. \E g : g = [n \in 0 .. MaxLate |-> IF n = 0 THEN start ELSE Cycle(g[n - 1])]
  BY <1>3
<1>5. Ticked = CHOOSE g : g = [n \in 0 .. MaxLate |-> IF n = 0 THEN start ELSE Cycle(g[n - 1])]
  BY Zenon DEF Ticked, start
<1>6. Ticked = [n \in 0 .. MaxLate |-> IF n = 0 THEN start ELSE Cycle(Ticked[n - 1])]
  BY <1>4, <1>5, Zenon
<1>. QED  BY <1>6 DEF start

(* The counters after each number of cycles.                               *)
LEMMA TickedFacts == ASSUME TimersInv, NEW d \in 0 .. MaxLate PROVE TickedTo(Ticked[d], d)
<1>. DEFINE S == {n \in 0 .. MaxLate : TickedTo(Ticked[n], n)}
<1>1. MaxLate \in Nat \ {0} /\ TimersTyped
  BY TimersAssumption, TypedTimers DEF TimersInv
<1>2. 0 \in S
  <2>1. Ticked[0] = [clock |-> clock, irqs |-> {}]
    BY <1>1, TickedDef
  <2>2. 0 \in 0 .. MaxLate
    BY <1>1
  <2>. QED  BY <2>1, <2>2, TickedStart, Zenon
<1>3. ASSUME NEW n \in 0 .. MaxLate - 1, n \in S PROVE n + 1 \in S
  <2>1. n \in Nat /\ n + 1 \in 0 .. MaxLate /\ n + 1 # 0 /\ (n + 1) - 1 = n
    BY <1>1
  <2>2. Ticked[n + 1] = Cycle(Ticked[n])
    BY <2>1, TickedDef, Zenon
  <2>3. TickedTo(Cycle(Ticked[n]), n + 1)
    BY <1>1, <1>3, <2>1, TickedNext, Zenon
  <2>. QED  BY <2>1, <2>2, <2>3, Zenon
<1>4. 0 .. MaxLate \subseteq S
  <2>. HIDE DEF S
  <2>. QED  BY <1>1, <1>2, <1>3, Counting
<1>. QED  BY <1>4

-----------------------------------------------------------------------------
ValuesOf(t) == [i \in Timer |-> t[i].value]

(* What the hardware has done when it has looked at the first n timers.    *)
LeftTo(t, i, n, d) ==
    IF i < n THEN \E k : /\ Times(k, timer[i].left - d, Period(timer[i]))
                         /\ t[i].left = (timer[i].left - d) + k * Period(timer[i])
             ELSE t[i].left = timer[i].left - d

ValueTo(t, i, n, d) ==
    /\ t[i].left = timer[i].left
    /\ (\A b \in Timer : b < n /\ Hits(b, d) => i \notin Chain(timer, b)) => t[i].value = timer[i].value
    /\ \A b \in Timer : b < n /\ Hits(b, d) /\ i \in Chain(timer, b) =>
           t[i].value = StepOf(ValuesOf(timer), b, i)

HandledTo(e, n, d) ==
    /\ e.timer \in [Timer -> TimerRecord] /\ SameSetup(e.timer, timer)
    /\ \A i \in Timer : Enabled(timer[i]) => LeftTo(e.timer, i, n, d)
    /\ \A i \in Timer : ~Enabled(timer[i]) => ValueTo(e.timer, i, n, d)
    /\ e.irqs = {i \in Timer : timer[i].irq /\ \E b \in Timer :
                    b < n /\ Hits(b, d) /\ (i = b \/ (i \in Chain(timer, b) /\ Top(ValuesOf(timer), b, i)))}
    /\ e.lost = UNION {Chain(timer, b) : b \in {c \in Timer : c < n /\ Many(c, d)}}

(* The number of overflows is not above the bound of the choice.           *)
LEMMA LateFacts ==
    ASSUME NEW t \in TimerRecord, Enabled(t), t.left <= 0, t.left > -MaxLate,
           NEW k, Times(k, t.left, Period(t))
    PROVE  Late(t) = k
<1>. DEFINE p == Period(t)
            l == t.left
<1>1. p \in Nat \ {0} /\ l \in Int /\ MaxLate \in Nat \ {0}
  <2>1. p \in Nat \ {0}
    BY Units16, Zenon
  <2>2. l \in Int /\ MaxLate \in Nat \ {0}
    BY TimersAssumption DEF TimerRecord
  <2>. QED  BY <2>1, <2>2
<1>. DEFINE P(j) == j * p + l > 0 /\ (j - 1) * p + l <= 0
<1>2. Late(t) = CHOOSE j \in 1 .. MaxLate + 1 : P(j)
  BY Zenon DEF Late
<1>3. Times(k, l, p) /\ l <= 0 /\ l > -MaxLate
  OBVIOUS
<1>. HIDE DEF p, l
<1>4. \A j \in 1 .. MaxLate + 1 : P(j) => Times(j, l, p)
  BY <1>1 DEF Times
<1>5. k \in 1 .. MaxLate + 1 /\ P(k)
  <2>1. k \in Nat /\ k # 0 /\ P(k)
    BY <1>1, <1>3 DEF Times
  <2>2. p * 1 <= p * (k - 1) \/ k = 1
    BY <1>1, <2>1, Product
  <2>3. k - 1 <= (k - 1) * p
    <3>1. (k - 1) * 1 = k - 1 /\ (k = 1 \/ k - 1 \in Nat \ {0}) /\ (1 - 1) * p = 0
      BY <1>1, <2>1
    <3>2. k - 1 \in Nat \ {0} => (k - 1) * 1 <= (k - 1) * p
      <4>. SUFFICES ASSUME k - 1 \in Nat \ {0} PROVE (k - 1) * 1 <= (k - 1) * p
        OBVIOUS
      <4>1. 1 <= p /\ 1 \in Int /\ p \in Int
        BY <1>1
      <4>. QED  BY <4>1, Product
    <3>. QED  BY <1>1, <2>1, <3>1, <3>2
  <2>4. (k - 1) * p \in Int
    BY <1>1, <2>1
  <2>. QED  BY <1>1, <1>3, <2>1, <2>3, <2>4
<1>6. Late(t) \in 1 .. MaxLate + 1 /\ P(Late(t))
  <2>. HIDE DEF P
  <2>. QED  BY <1>2, <1>5, Zenon
<1>7. Times(Late(t), l, p)
  <2>. HIDE DEF P
  <2>. QED  BY <1>4, <1>6, Zenon
<1>. QED  BY <1>1, <1>3, <1>7, TimesUnique, Zenon

(* The setup of a record that is made from another.                        *)
Changed(r, value, left) ==
    [on |-> r.on, mode |-> r.mode, irq |-> r.irq, reload |-> r.reload, value |-> value, left |-> left]

LEMMA ChangedFacts ==
    ASSUME NEW r \in TimerRecord, NEW value \in 0 .. Values - 1, NEW left \in Int
    PROVE  /\ Changed(r, value, left) \in TimerRecord
           /\ Changed(r, value, left).on = r.on /\ Changed(r, value, left).mode = r.mode
           /\ Changed(r, value, left).irq = r.irq /\ Changed(r, value, left).reload = r.reload
           /\ Changed(r, value, left).value = value /\ Changed(r, value, left).left = left
           /\ [r EXCEPT !.value = value] = Changed(r, value, r.left)
           /\ [r EXCEPT !.left = left] = Changed(r, r.value, left)
           /\ r = Changed(r, r.value, r.left)
  BY DEF TimerRecord, Changed

LEMMA ChangedFields ==
    \A r \in TimerRecord, v \in 0 .. Values - 1, x \in Int :
       /\ Changed(r, v, x) \in TimerRecord
       /\ Changed(r, v, x).on = r.on /\ Changed(r, v, x).mode = r.mode
       /\ Changed(r, v, x).irq = r.irq /\ Changed(r, v, x).reload = r.reload
       /\ Changed(r, v, x).value = v /\ Changed(r, v, x).left = x
  BY DEF TimerRecord, Changed

LEMMA ChangedLeft ==
    \A r \in TimerRecord, x \in Int : [r EXCEPT !.left = x] = Changed(r, r.value, x)
  BY DEF TimerRecord, Changed

LEMMA FieldsOf ==
    ASSUME NEW r \in TimerRecord
    PROVE  /\ r.on \in BOOLEAN /\ r.mode \in Modes16 /\ r.irq \in BOOLEAN
           /\ r.reload \in 0 .. Values - 1 /\ r.value \in 0 .. Values - 1 /\ r.left \in Int
  BY DEF TimerRecord

LEMMA ReloadedFacts ==
    ASSUME NEW r \in TimerRecord, NEW l \in Int
    PROVE  /\ Reloaded(r) = Changed(r, r.reload, r.left)
           /\ [Reloaded(r) EXCEPT !.left = l] = Changed(r, r.reload, l)
<1>1. r.reload \in 0 .. Values - 1 /\ r.left \in Int
  BY FieldsOf
<1>2. [r EXCEPT !.value = r.reload] = Changed(r, r.reload, r.left) /\ Changed(r, r.reload, r.left) \in TimerRecord
  BY <1>1, ChangedFacts
<1>3. Reloaded(r) = Changed(r, r.reload, r.left)
  BY <1>2, Zenon DEF Reloaded
<1>4. \A q \in TimerRecord : [q EXCEPT !.left = l] = Changed(q, q.value, l)
  BY ChangedLeft, Zenon
<1>5. Changed(Changed(r, r.reload, r.left), r.reload, l) = Changed(r, r.reload, l)
  BY DEF Changed
<1>6. Changed(r, r.reload, r.left).value = r.reload
  BY DEF Changed
<1>. QED  BY <1>2, <1>3, <1>4, <1>5, <1>6, Zenon

(* A timer that does not hit is left as it is.                             *)
LEMMA NotHandled ==
    ASSUME NEW d \in Nat, TimersTyped, NEW e, NEW n \in Timer, HandledTo(e, n, d),
           Enabled(timer[n]) => Times(0, timer[n].left - d, Period(timer[n])) \/ Hits(n, d),
           ~Hits(n, d)
    PROVE  Overflow(e, n) = e /\ HandledTo(e, n + 1, d)
<1>1. \A i \in Timer : Enabled(e.timer[i]) <=> Enabled(timer[i])
  BY Zenon DEF HandledTo, SameSetup, Enabled
<1>2. n \in Int /\ \A i \in Timer : i \in Int /\ (i < n + 1 <=> i < n \/ i = n) /\ ~(n < n)
  BY DEF Timer
<1>3. ASSUME Enabled(timer[n]) PROVE e.timer[n].left = timer[n].left - d /\ timer[n].left - d \in Int
  <2>1. e.timer[n].left = timer[n].left - d
    BY <1>2, <1>3, Zenon DEF HandledTo, LeftTo
  <2>2. timer[n].left \in Int
    BY FieldsOf DEF TimersTyped
  <2>. QED  BY <2>1, <2>2
<1>4. ~Enabled(e.timer[n]) \/ e.timer[n].left > 0
  <2>. SUFFICES ASSUME Enabled(e.timer[n]) PROVE e.timer[n].left > 0
    BY Zenon
  <2>1. Enabled(timer[n])
    BY <1>1, Zenon
  <2>2. ~(timer[n].left - d <= 0)
    BY <2>1, Zenon DEF Hits
  <2>. QED  BY <1>3, <2>1, <2>2
<1>5. Overflow(e, n) = e
  BY <1>4, Zenon DEF Overflow
<1>6. \A b \in Timer : Hits(b, d) => (b < n + 1 <=> b < n)
  BY <1>2, Zenon
<1>7. \A b \in Timer : Many(b, d) => (b < n + 1 <=> b < n)
  BY <1>6, Zenon DEF Many
<1>8. ASSUME NEW i \in Timer, Enabled(timer[i]) PROVE LeftTo(e.timer, i, n + 1, d)
  <2>1. CASE i = n
    <3>1. Times(0, timer[i].left - d, Period(timer[i]))
      BY <1>8, <2>1, Zenon
    <3>2. e.timer[i].left = timer[i].left - d /\ timer[i].left - d \in Int
      BY <1>3, <1>8, <2>1, Zenon
    <3>3. 0 * Period(timer[i]) = 0
      <4>1. Period(timer[i]) \in Nat
        BY <1>8, Units16 DEF TimersTyped
      <4>. QED  BY <4>1
    <3>4. e.timer[i].left = (timer[i].left - d) + 0 * Period(timer[i])
      BY <3>2, <3>3
    <3>. QED  BY <1>2, <2>1, <3>1, <3>4, Zenon DEF LeftTo
  <2>2. CASE i # n
    <3>1. LeftTo(e.timer, i, n, d)
      BY <1>8, Zenon DEF HandledTo
    <3>. QED  BY <1>2, <2>2, <3>1, Zenon DEF LeftTo
  <2>. QED  BY <2>1, <2>2
<1>9. ASSUME NEW i \in Timer, ~Enabled(timer[i]) PROVE ValueTo(e.timer, i, n + 1, d)
  <2>1. ValueTo(e.timer, i, n, d)
    BY <1>9, Zenon DEF HandledTo
  <2>. QED  BY <1>6, <2>1, Zenon DEF ValueTo
<1>10. e.irqs = {i \in Timer : timer[i].irq /\ \E b \in Timer :
                    b < n + 1 /\ Hits(b, d) /\ (i = b \/ (i \in Chain(timer, b) /\ Top(ValuesOf(timer), b, i)))}
  BY <1>6 DEF HandledTo
<1>11. e.lost = UNION {Chain(timer, b) : b \in {c \in Timer : c < n + 1 /\ Many(c, d)}}
  <2>1. {c \in Timer : c < n + 1 /\ Many(c, d)} = {c \in Timer : c < n /\ Many(c, d)}
    BY <1>7
  <2>. QED  BY <2>1, Zenon DEF HandledTo
<1>. QED  BY <1>5, <1>8, <1>9, <1>10, <1>11, Zenon DEF HandledTo

(* What the overflow of timer n does to each timer.                        *)
LEMMA OverflowTimer ==
    ASSUME NEW e, e.timer \in [Timer -> TimerRecord], NEW n \in Timer,
           Enabled(e.timer[n]), e.timer[n].left <= 0, Late(e.timer[n]) \in Nat, NEW i \in Timer
    PROVE  Overflow(e, n).timer[i] =
             IF i = n THEN Changed(e.timer[i], e.timer[i].reload, Late(e.timer[i]) * Period(e.timer[i]) + e.timer[i].left)
             ELSE IF i \notin Chain(e.timer, n) THEN e.timer[i]
             ELSE Changed(e.timer[i],
                          IF ~Top(ValuesOf(e.timer), n, i - 1) THEN e.timer[i].value
                          ELSE IF e.timer[i].value = Values - 1 THEN e.timer[i].reload ELSE e.timer[i].value + 1,
                          e.timer[i].left)
<1>. DEFINE t == e.timer
            over == Over(t, n)
            r == t[i]
<1>1. r \in TimerRecord
  OBVIOUS
<1>2. r.value \in 0 .. Values - 1 /\ r.reload \in 0 .. Values - 1 /\ r.left \in Int /\ t[n].left \in Int
  BY <1>1, FieldsOf
<1>. DEFINE new == [j \in Timer |->
                IF j = n THEN [Reloaded(t[j]) EXCEPT !.left = Rearmed(t[j], Late(t[j]))]
                ELSE IF j \in over THEN Reloaded(t[j])
                ELSE IF j \in Stepped(t, n) THEN [t[j] EXCEPT !.value = @ + 1] ELSE t[j]]
<1>3. /\ i = n => Overflow(e, n).timer[i] = [Reloaded(r) EXCEPT !.left = Rearmed(r, Late(r))]
      /\ i \in over \ {n} => Overflow(e, n).timer[i] = Reloaded(r)
      /\ i # n /\ i \in Stepped(t, n) \ over => Overflow(e, n).timer[i] = [r EXCEPT !.value = @ + 1]
      /\ i # n /\ i \notin over /\ i \notin Stepped(t, n) => Overflow(e, n).timer[i] = r
  <2>1. ~(~Enabled(t[n]) \/ t[n].left > 0)
    BY <1>2
  <2>2. Overflow(e, n).timer = new
    <3>1. Overflow(e, n) =
            [timer |-> new, irqs |-> e.irqs \cup Interrupts(t, n, over),
             lost |-> IF Late(t[n]) > 1 THEN e.lost \cup Chain(t, n) ELSE e.lost]
      BY <2>1, Zenon DEF Overflow
    <3>. HIDE DEF new, over, t
    <3>. QED  BY <3>1
  <2>3. /\ i = n => new[i] = [Reloaded(r) EXCEPT !.left = Rearmed(r, Late(r))]
        /\ i \in over \ {n} => new[i] = Reloaded(r)
        /\ i # n /\ i \in Stepped(t, n) \ over => new[i] = [r EXCEPT !.value = @ + 1]
        /\ i # n /\ i \notin over /\ i \notin Stepped(t, n) => new[i] = r
    <3>. HIDE DEF over
    <3>. QED  BY Zenon
  <2>. HIDE DEF new, over, t
  <2>. QED  BY <2>2, <2>3
<1>4. i \in Stepped(t, n) <=> i \in Chain(t, n) /\ Top(ValuesOf(t), n, i - 1)
  <2>1. i \in Chain(t, n) => \A j \in n + 1 .. i - 1 : ValuesOf(t)[j] = t[j].value
    <3>. SUFFICES ASSUME i \in Chain(t, n), NEW j \in n + 1 .. i - 1 PROVE ValuesOf(t)[j] = t[j].value
      OBVIOUS
    <3>1. j \in n + 1 .. i
      BY DEF Timer
    <3>2. j \in Timer
      BY <3>1, ChainFacts, Zenon
    <3>. QED  BY <3>2 DEF ValuesOf
  <2>. QED  BY <2>1, Zenon DEF Stepped, Top
<1>5. i \in over <=> i = n \/ (i \in Stepped(t, n) /\ r.value = Values - 1)
  BY Zenon DEF Over
<1>6. n \notin Chain(t, n)
  BY DEF Chain, Timer
<1>. HIDE DEF over, t, r
<1>7. CASE i = n
  <2>1. Rearmed(r, Late(r)) \in Int
    <3>1. Period(r) \in Int
      BY <1>1, <1>7, Units16 DEF t, r
    <3>. QED  BY <1>2, <1>7, <3>1 DEF Rearmed, t, r
  <2>2. Overflow(e, n).timer[i] = [Reloaded(r) EXCEPT !.left = Rearmed(r, Late(r))]
    BY <1>3, <1>7
  <2>3. Overflow(e, n).timer[i] = Changed(r, r.reload, Rearmed(r, Late(r)))
    BY <1>1, <2>1, <2>2, ReloadedFacts, Zenon
  <2>. QED  BY <1>7, <2>3, Zenon DEF Rearmed, t, r
<1>8. CASE i # n /\ i \notin Chain(t, n)
  <2>1. Overflow(e, n).timer[i] = r
    BY <1>3, <1>4, <1>5, <1>8
  <2>. QED  BY <1>8, <2>1, Zenon DEF t, r
<1>9. CASE i # n /\ i \in Chain(t, n) /\ ~Top(ValuesOf(t), n, i - 1)
  <2>1. Overflow(e, n).timer[i] = r
    BY <1>3, <1>4, <1>5, <1>9
  <2>2. r = Changed(r, r.value, r.left)
    BY <1>1, <1>2, ChangedFacts, Zenon
  <2>. QED  BY <1>9, <2>1, <2>2, Zenon DEF t, r
<1>10. CASE i # n /\ i \in Chain(t, n) /\ Top(ValuesOf(t), n, i - 1) /\ r.value = Values - 1
  <2>1. Overflow(e, n).timer[i] = Reloaded(r)
    BY <1>3, <1>4, <1>5, <1>10
  <2>2. Reloaded(r) = Changed(r, r.reload, r.left)
    BY <1>1, <1>2, ReloadedFacts, Zenon
  <2>. QED  BY <1>10, <2>1, <2>2, Zenon DEF t, r
<1>11. CASE i # n /\ i \in Chain(t, n) /\ Top(ValuesOf(t), n, i - 1) /\ r.value # Values - 1
  <2>1. Overflow(e, n).timer[i] = [r EXCEPT !.value = @ + 1]
    BY <1>3, <1>4, <1>5, <1>11
  <2>2. r.value + 1 \in 0 .. Values - 1
    BY <1>2, <1>11, TimersAssumption
  <2>3. [r EXCEPT !.value = @ + 1] = Changed(r, r.value + 1, r.left)
    BY <1>1, <1>2, <2>2, ChangedFacts, Zenon
  <2>. QED  BY <1>11, <2>1, <2>3, Zenon DEF t, r
<1>. QED  BY <1>7, <1>8, <1>9, <1>10, <1>11

(* The chain of a timer has not been stepped when the timer overflows.     *)
LEMMA Untouched ==
    ASSUME NEW e, NEW d, NEW n \in Timer, HandledTo(e, n, d), Enabled(timer[n]), NEW i \in Chain(timer, n)
    PROVE  /\ e.timer[i].value = timer[i].value
           /\ Top(ValuesOf(e.timer), n, i) <=> Top(ValuesOf(timer), n, i)
           /\ Top(ValuesOf(e.timer), n, i - 1) <=> Top(ValuesOf(timer), n, i - 1)
<1>1. ASSUME NEW j \in Chain(timer, n) PROVE e.timer[j].value = timer[j].value
  <2>1. j \in Timer /\ ~Enabled(timer[j])
    BY ChainFacts, Zenon DEF Enabled
  <2>2. ~(n < n)
    BY DEF Timer
  <2>3. \A b \in Timer : b < n /\ Hits(b, d) => j \notin Chain(timer, b)
    BY <2>2, OneBase, Zenon DEF Hits
  <2>. QED  BY <2>1, <2>3, Zenon DEF HandledTo, ValueTo
<1>2. \A j \in n + 1 .. i : j \in Timer /\ j \in Chain(timer, n)
  BY ChainFacts, Zenon
<1>3. \A j \in n + 1 .. i : ValuesOf(e.timer)[j] = ValuesOf(timer)[j]
  BY <1>1, <1>2, Zenon DEF ValuesOf
<1>4. \A j \in n + 1 .. i - 1 : j \in n + 1 .. i
  BY DEF Chain, Timer
<1>. QED  BY <1>1, <1>3, <1>4, Zenon DEF Top

LEMMA TopNext ==
    ASSUME NEW t, NEW b \in Timer, NEW i \in Chain(t, b), NEW s
    PROVE  Top(ValuesOf(s), b, i) <=> Top(ValuesOf(s), b, i - 1) /\ s[i].value = Values - 1
<1>1. \A j \in b + 1 .. i : j \in b + 1 .. i - 1 \/ j = i
  BY DEF Chain, Timer
<1>2. i \in Timer /\ i \in b + 1 .. i /\ \A j \in b + 1 .. i - 1 : j \in b + 1 .. i
  BY DEF Chain, Timer
<1>3. ValuesOf(s)[i] = s[i].value
  BY <1>2 DEF ValuesOf
<1>. QED  BY <1>1, <1>2, <1>3, Zenon DEF Top

(* A timer that hits.                                                      *)
LEMMA NowHandled ==
    ASSUME NEW d \in 1 .. MaxLate, TimersTyped, NEW e, NEW n \in Timer, HandledTo(e, n, d), Hits(n, d),
           timer[n].left > 0, NEW k, Times(k, timer[n].left - d, Period(timer[n]))
    PROVE  HandledTo(Overflow(e, n), n + 1, d)
<1>. DEFINE t == e.timer
            new == Overflow(e, n).timer
            p == Period(timer[n])
            l == timer[n].left - d
            shown(i) == IF ~Top(ValuesOf(timer), n, i - 1) THEN timer[i].value
                        ELSE IF timer[i].value = Values - 1 THEN timer[i].reload ELSE timer[i].value + 1
<1>1. /\ t \in [Timer -> TimerRecord] /\ timer \in [Timer -> TimerRecord]
      /\ SameSetup(t, timer)
  BY DEF HandledTo, TimersTyped
<1>2. \A b \in Timer : Chain(t, b) = Chain(timer, b)
  BY <1>1, ChainSame, Zenon
<1>3. Enabled(timer[n]) /\ Enabled(t[n]) /\ timer[n].left - d <= 0
  BY <1>1, Zenon DEF Hits, Enabled, SameSetup
<1>4. n \in Int /\ ~(n < n) /\ n < n + 1 /\ \A i \in Timer : i \in Int /\ (i < n + 1 <=> i < n \/ i = n)
  BY DEF Timer
<1>5. t[n].left = l /\ Period(t[n]) = p /\ l \in Int /\ p \in Nat \ {0}
  <2>1. t[n].left = l
    BY <1>3, <1>4, Zenon DEF HandledTo, LeftTo
  <2>2. Period(t[n]) = p
    BY <1>1, Zenon DEF Period, SameSetup
  <2>3. timer[n] \in TimerRecord
    BY <1>1
  <2>4. timer[n].left \in Int /\ d \in Int
    BY <2>3, FieldsOf
  <2>5. p \in Nat \ {0}
    BY <1>3, <2>3, Units16, Zenon
  <2>. QED  BY <2>1, <2>2, <2>4, <2>5
<1>6. k \in Nat /\ k * p \in Int /\ (k <= 1 <=> l + p > 0)
  <2>1. k \in Nat
    BY DEF Times
  <2>. HIDE DEF l, p
  <2>2. Times(k, l, p)
    BY DEF l, p
  <2>. QED  BY <1>5, <2>1, <2>2, TimesZero
<1>7. Late(t[n]) = k
  <2>1. timer[n].left \in Int /\ MaxLate \in Nat
    BY <1>1, FieldsOf, TimersAssumption
  <2>2. t[n].left > -MaxLate /\ t[n].left <= 0
    BY <1>3, <1>5, <2>1
  <2>3. t[n] \in TimerRecord
    BY <1>1
  <2>4. Times(k, t[n].left, Period(t[n]))
    BY <1>5
  <2>. QED  BY <1>3, <2>2, <2>3, <2>4, LateFacts, Zenon
<1>8. ASSUME NEW i \in Timer
      PROVE  new[i] = IF i = n THEN Changed(t[i], t[i].reload, k * p + l)
                      ELSE IF i \notin Chain(timer, n) THEN t[i]
                      ELSE Changed(t[i], shown(i), t[i].left)
  <2>1. t[n].left <= 0
    BY <1>3, <1>5
  <2>2. new[i] =
             IF i = n THEN Changed(t[i], t[i].reload, Late(t[i]) * Period(t[i]) + t[i].left)
             ELSE IF i \notin Chain(t, n) THEN t[i]
             ELSE Changed(t[i],
                          IF ~Top(ValuesOf(t), n, i - 1) THEN t[i].value
                          ELSE IF t[i].value = Values - 1 THEN t[i].reload ELSE t[i].value + 1,
                          t[i].left)
    BY <1>1, <1>3, <1>6, <1>7, <2>1, OverflowTimer, Zenon
  <2>3. i \in Chain(timer, n) => t[i].value = timer[i].value
             /\ (Top(ValuesOf(t), n, i - 1) <=> Top(ValuesOf(timer), n, i - 1))
    BY <1>3, Untouched, Zenon
  <2>4. t[i].reload = timer[i].reload
    BY <1>1, Zenon DEF SameSetup
  <2>. QED  BY <1>2, <1>5, <1>7, <2>2, <2>3, <2>4, Zenon
<1>9. \A i \in Timer : shown(i) \in 0 .. Values - 1
  <2>. SUFFICES ASSUME NEW i \in Timer PROVE shown(i) \in 0 .. Values - 1
    OBVIOUS
  <2>1. timer[i].value \in 0 .. Values - 1 /\ timer[i].reload \in 0 .. Values - 1
    BY <1>1, FieldsOf
  <2>. QED  BY <2>1, TimersAssumption
<1>. HIDE DEF shown, p, l
<1>10. k * p + l \in Int
  BY <1>5, <1>6
<1>11. ASSUME NEW i \in Timer
       PROVE  /\ new[i] \in TimerRecord /\ new[i].on = t[i].on /\ new[i].mode = t[i].mode
              /\ new[i].irq = t[i].irq /\ new[i].reload = t[i].reload
              /\ i = n => new[i].left = k * p + l
              /\ i # n => new[i].left = t[i].left
              /\ i # n /\ i \notin Chain(timer, n) => new[i] = t[i]
              /\ i \in Chain(timer, n) => new[i].value = shown(i)
  <2>1. t[i] \in TimerRecord
    BY <1>1
  <2>2. t[i].reload \in 0 .. Values - 1 /\ t[i].left \in Int
    BY <2>1, FieldsOf
  <2>3. \A v \in 0 .. Values - 1, x \in Int :
           /\ Changed(t[i], v, x) \in TimerRecord
           /\ Changed(t[i], v, x).on = t[i].on /\ Changed(t[i], v, x).mode = t[i].mode
           /\ Changed(t[i], v, x).irq = t[i].irq /\ Changed(t[i], v, x).reload = t[i].reload
           /\ Changed(t[i], v, x).value = v /\ Changed(t[i], v, x).left = x
    BY <2>1, ChangedFields, Zenon
  <2>4. n \notin Chain(timer, n)
    BY <1>4, Zenon DEF Chain
  <2>5. CASE i = n
    <3>1. new[i] = Changed(t[i], t[i].reload, k * p + l)
      BY <1>8, <2>5, Zenon
    <3>. HIDE DEF new, t
    <3>. DEFINE c == Changed(t[i], t[i].reload, k * p + l)
    <3>2. /\ c \in TimerRecord /\ c.on = t[i].on /\ c.mode = t[i].mode
          /\ c.irq = t[i].irq /\ c.reload = t[i].reload /\ c.value = t[i].reload /\ c.left = k * p + l
      BY <1>10, <2>2, <2>3, Zenon
    <3>3. new[i] = c
      BY <3>1, Zenon
    <3>. HIDE DEF c
    <3>. QED  BY <2>4, <2>5, <3>2, <3>3, Zenon
  <2>6. CASE i # n /\ i \notin Chain(timer, n)
    <3>1. new[i] = t[i]
      BY <1>8, <2>6, Zenon
    <3>. HIDE DEF new, t
    <3>. QED  BY <2>1, <2>6, <3>1, Zenon
  <2>7. CASE i # n /\ i \in Chain(timer, n)
    <3>1. new[i] = Changed(t[i], shown(i), t[i].left)
      BY <1>8, <2>7, Zenon
    <3>. HIDE DEF new, t
    <3>. DEFINE c == Changed(t[i], shown(i), t[i].left)
    <3>2. /\ c \in TimerRecord /\ c.on = t[i].on /\ c.mode = t[i].mode
          /\ c.irq = t[i].irq /\ c.reload = t[i].reload /\ c.value = shown(i) /\ c.left = t[i].left
      BY <1>9, <2>2, <2>3, Zenon
    <3>3. new[i] = c
      BY <3>1, Zenon
    <3>. HIDE DEF c
    <3>. QED  BY <2>4, <2>7, <3>2, <3>3, Zenon
  <2>. QED  BY <2>5, <2>6, <2>7
<1>12. ~(~Enabled(t[n]) \/ t[n].left > 0)
  BY <1>3, <1>5 DEF l
<1>13. /\ new = [i \in Timer |-> new[i]]
       /\ Overflow(e, n).irqs = e.irqs \cup Interrupts(t, n, Over(t, n))
       /\ Overflow(e, n).lost = IF k > 1 THEN e.lost \cup Chain(timer, n) ELSE e.lost
  <2>. DEFINE f == [i \in Timer |->
                IF i = n THEN [Reloaded(t[i]) EXCEPT !.left = Rearmed(t[i], Late(t[i]))]
                ELSE IF i \in Over(t, n) THEN Reloaded(t[i])
                ELSE IF i \in Stepped(t, n) THEN [t[i] EXCEPT !.value = @ + 1] ELSE t[i]]
              q == IF Late(t[n]) > 1 THEN e.lost \cup Chain(t, n) ELSE e.lost
  <2>1. Overflow(e, n) = [timer |-> f, irqs |-> e.irqs \cup Interrupts(t, n, Over(t, n)), lost |-> q]
    BY <1>12, Zenon DEF Overflow
  <2>2. f = [i \in Timer |-> f[i]]
    OBVIOUS
  <2>3. q = IF k > 1 THEN e.lost \cup Chain(timer, n) ELSE e.lost
    BY <1>2, <1>7, Zenon
  <2>. HIDE DEF f, q
  <2>4. Overflow(e, n).timer = f /\ Overflow(e, n).irqs = e.irqs \cup Interrupts(t, n, Over(t, n))
        /\ Overflow(e, n).lost = q
    BY <2>1
  <2>. QED  BY <2>2, <2>3, <2>4, Zenon
<1>. HIDE DEF new
<1>14. new \in [Timer -> TimerRecord]
  BY <1>11, <1>13, Zenon
<1>15. SameSetup(new, timer)
  BY <1>1, <1>11, Zenon DEF SameSetup
<1>16. ASSUME NEW i \in Timer, Enabled(timer[i]) PROVE LeftTo(new, i, n + 1, d)
  <2>1. CASE i = n
    <3>1. new[i].left = (timer[i].left - d) + k * Period(timer[i])
      BY <1>5, <1>6, <1>11, <2>1 DEF p, l
    <3>. QED  BY <1>4, <2>1, <3>1, Zenon DEF LeftTo
  <2>2. CASE i # n
    <3>1. LeftTo(t, i, n, d)
      BY <1>16, Zenon DEF HandledTo
    <3>. QED  BY <1>4, <1>11, <2>2, <3>1, Zenon DEF LeftTo
  <2>. QED  BY <2>1, <2>2
<1>17. ASSUME NEW i \in Timer, ~Enabled(timer[i]) PROVE ValueTo(new, i, n + 1, d)
  <2>1. ValueTo(t, i, n, d) /\ i # n
    BY <1>3, <1>17, Zenon DEF HandledTo
  <2>2. CASE i \notin Chain(timer, n)
    <3>1. new[i] = t[i]
      BY <1>11, <2>1, <2>2, Zenon
    <3>. QED  BY <1>4, <2>1, <2>2, <3>1, Zenon DEF ValueTo
  <2>3. CASE i \in Chain(timer, n)
    <3>1. \A b \in Timer : Hits(b, d) /\ i \in Chain(timer, b) => b = n
      BY <1>3, <2>3, OneBase, Zenon DEF Hits
    <3>2. new[i].value = StepOf(ValuesOf(timer), n, i)
      <4>1. ValuesOf(timer)[i] = timer[i].value
        BY DEF ValuesOf
      <4>. QED  BY <1>11, <2>3, <4>1, Zenon DEF StepOf, shown
    <3>3. new[i].left = timer[i].left
      BY <1>11, <2>1, Zenon DEF ValueTo
    <3>. QED  BY <1>4, <2>3, <3>1, <3>2, <3>3, Zenon DEF ValueTo
  <2>. QED  BY <2>2, <2>3
<1>18. Overflow(e, n).irqs = {i \in Timer : timer[i].irq /\ \E b \in Timer :
          b < n + 1 /\ Hits(b, d) /\ (i = b \/ (i \in Chain(timer, b) /\ Top(ValuesOf(timer), b, i)))}
  <2>. DEFINE by(i, b) == Hits(b, d) /\ (i = b \/ (i \in Chain(timer, b) /\ Top(ValuesOf(timer), b, i)))
  <2>1. ASSUME NEW i PROVE i \in Interrupts(t, n, Over(t, n)) <=> i \in Timer /\ timer[i].irq /\ by(i, n)
    <3>1. i \in Chain(timer, n) => i \in Timer
      BY ChainFacts, Zenon
    <3>2. i \in Chain(timer, n) => (i \in Stepped(t, n) /\ t[i].value = Values - 1 <=> Top(ValuesOf(timer), n, i))
      <4>. SUFFICES ASSUME i \in Chain(timer, n)
                    PROVE  i \in Stepped(t, n) /\ t[i].value = Values - 1 <=> Top(ValuesOf(timer), n, i)
        OBVIOUS
      <4>1. \A j \in n + 1 .. i - 1 : ValuesOf(t)[j] = t[j].value
        <5>. SUFFICES ASSUME NEW j \in n + 1 .. i - 1 PROVE ValuesOf(t)[j] = t[j].value
          OBVIOUS
        <5>1. j \in n + 1 .. i
          BY DEF Chain, Timer
        <5>2. j \in Timer
          BY <5>1, ChainFacts, Zenon
        <5>. QED  BY <5>2 DEF ValuesOf
      <4>2. i \in Stepped(t, n) <=> Top(ValuesOf(t), n, i - 1)
        BY <1>2, <4>1, Zenon DEF Stepped, Top
      <4>3. Top(ValuesOf(t), n, i) <=> Top(ValuesOf(t), n, i - 1) /\ t[i].value = Values - 1
        BY TopNext, Zenon
      <4>. QED  BY <1>3, <4>2, <4>3, Untouched, Zenon
    <3>3. i \in Stepped(t, n) => i \in Chain(timer, n)
      BY <1>2, Zenon DEF Stepped
    <3>4. i \in Timer => t[i].irq = timer[i].irq
      BY <1>1, Zenon DEF SameSetup
    <3>. QED  BY <3>1, <3>2, <3>3, <3>4, Zenon DEF Interrupts, Over
  <2>2. \A i : i \in e.irqs <=> i \in Timer /\ timer[i].irq /\ \E b \in Timer : b < n /\ by(i, b)
    BY Zenon DEF HandledTo
  <2>. HIDE DEF by
  <2>3. \A i : i \in Overflow(e, n).irqs <=> i \in Timer /\ timer[i].irq /\ \E b \in Timer : b < n + 1 /\ by(i, b)
    BY <1>4, <1>13, <2>1, <2>2, Zenon
  <2>4. Overflow(e, n).irqs = {i \in Timer : timer[i].irq /\ \E b \in Timer : b < n + 1 /\ by(i, b)}
    BY <2>3, Zenon
  <2>. QED  BY <2>4, Zenon DEF by
<1>19. Overflow(e, n).lost = UNION {Chain(timer, b) : b \in {c \in Timer : c < n + 1 /\ Many(c, d)}}
  <2>1. k > 1 <=> Many(n, d)
    BY <1>5, <1>6 DEF Many, p, l
  <2>2. e.lost = UNION {Chain(timer, b) : b \in {c \in Timer : c < n /\ Many(c, d)}}
    BY Zenon DEF HandledTo
  <2>3. \A i : i \in Overflow(e, n).lost <=> i \in UNION {Chain(timer, b) : b \in {c \in Timer : c < n + 1 /\ Many(c, d)}}
    BY <1>4, <1>13, <2>1, <2>2, Zenon
  <2>. QED  BY <2>3, Zenon
<1>. QED  BY <1>14, <1>15, <1>16, <1>17, <1>18, <1>19, Zenon DEF HandledTo, new

(* The recursion of the overflows.                                         *)
LEMMA ExecutedDef ==
    ASSUME NEW passed
    PROVE  Executed(passed) = [n \in 0 .. TimerNums |->
             IF n = 0 THEN [timer |-> passed, irqs |-> {}, lost |-> {}]
             ELSE Overflow(Executed(passed)[n - 1], n - 1)]
<1>. DEFINE start == [timer |-> passed, irqs |-> {}, lost |-> {}]
            S == {n \in 0 .. TimerNums :
                    \E g : g = [m \in 0 .. n |-> IF m = 0 THEN start ELSE Overflow(g[m - 1], m - 1)]}
<1>. HIDE DEF start
<1>1. 0 \in S
  <2>. DEFINE g == [m \in 0 .. 0 |-> start]
  <2>1. \A m \in 0 .. 0 : g[m] = IF m = 0 THEN start ELSE Overflow(g[m - 1], m - 1)
    OBVIOUS
  <2>2. g = [m \in 0 .. 0 |-> g[m]]
    OBVIOUS
  <2>. HIDE DEF g
  <2>3. g = [m \in 0 .. 0 |-> IF m = 0 THEN start ELSE Overflow(g[m - 1], m - 1)]
    BY <2>1, <2>2
  <2>4. 0 \in 0 .. TimerNums
    BY TimersAssumption
  <2>. QED  BY <2>3, <2>4, Zenon
<1>2. ASSUME NEW n \in 0 .. TimerNums - 1, n \in S PROVE n + 1 \in S
  <2>1. PICK g : g = [m \in 0 .. n |-> IF m = 0 THEN start ELSE Overflow(g[m - 1], m - 1)]
    BY <1>2
  <2>. DEFINE h == [m \in 0 .. n + 1 |-> IF m = n + 1 THEN Overflow(g[n], n) ELSE g[m]]
  <2>2. ASSUME NEW m \in 0 .. n + 1 PROVE h[m] = IF m = 0 THEN start ELSE Overflow(h[m - 1], m - 1)
    <3>1. CASE m = n + 1
      <4>1. h[m] = Overflow(g[n], n) /\ h[m - 1] = g[n] /\ m # 0 /\ m - 1 = n
        BY <3>1
      <4>. QED  BY <4>1
    <3>2. CASE m # n + 1
      <4>1. m \in 0 .. n /\ h[m] = g[m]
        BY <3>2
      <4>2. m # 0 => m - 1 \in 0 .. n + 1 /\ m - 1 # n + 1
        BY <3>2
      <4>3. m # 0 => h[m - 1] = g[m - 1]
        BY <4>2
      <4>. HIDE DEF h
      <4>4. g[m] = IF m = 0 THEN start ELSE Overflow(g[m - 1], m - 1)
        BY <2>1, <4>1, Zenon
      <4>. QED  BY <4>1, <4>3, <4>4
    <3>. QED  BY <3>1, <3>2
  <2>3. h = [m \in 0 .. n + 1 |-> h[m]]
    OBVIOUS
  <2>. HIDE DEF h
  <2>4. h = [m \in 0 .. n + 1 |-> IF m = 0 THEN start ELSE Overflow(h[m - 1], m - 1)]
    BY <2>2, <2>3
  <2>. QED  BY <2>4, TimersAssumption
<1>3. TimerNums \in S
  <2>. HIDE DEF S
  <2>1. TimerNums \in Nat /\ TimerNums \in 0 .. TimerNums
    BY TimersAssumption
  <2>. QED  BY <1>1, <1>2, <2>1, Counting
<1>4. \E g : g = [n \in 0 .. TimerNums |-> IF n = 0 THEN start ELSE Overflow(g[n - 1], n - 1)]
  BY <1>3
<1>5. Executed(passed) = CHOOSE g : g = [n \in 0 .. TimerNums |-> IF n = 0 THEN start ELSE Overflow(g[n - 1], n - 1)]
  BY Zenon DEF Executed, start
<1>6. Executed(passed) = [n \in 0 .. TimerNums |-> IF n = 0 THEN start ELSE Overflow(Executed(passed)[n - 1], n - 1)]
  BY <1>4, <1>5, Zenon
<1>. QED  BY <1>6 DEF start

(* The timers when the hardware starts to look at them.                    *)
LEMMA HandledStart ==
    ASSUME TimersTyped, NEW d \in Nat
    PROVE  HandledTo([timer |-> Passed(d), irqs |-> {}, lost |-> {}], 0, d)
<1>. DEFINE e == [timer |-> Passed(d), irqs |-> {}, lost |-> {}]
<1>1. e.timer = Passed(d) /\ e.irqs = {} /\ e.lost = {}
  OBVIOUS
<1>2. ASSUME NEW i \in Timer
      PROVE  /\ Passed(d)[i] \in TimerRecord
             /\ Passed(d)[i].on = timer[i].on /\ Passed(d)[i].mode = timer[i].mode
             /\ Passed(d)[i].irq = timer[i].irq /\ Passed(d)[i].reload = timer[i].reload
             /\ Passed(d)[i].value = timer[i].value
             /\ Passed(d)[i].left = IF Enabled(timer[i]) THEN timer[i].left - d ELSE timer[i].left
  <2>1. Passed(d)[i] = IF Enabled(timer[i]) THEN [timer[i] EXCEPT !.left = timer[i].left - d] ELSE timer[i]
    BY DEF Passed
  <2>2. timer[i] \in TimerRecord
    BY DEF TimersTyped
  <2>3. timer[i].left - d \in Int /\ timer[i].value \in 0 .. Values - 1
    BY <2>2, FieldsOf
  <2>4. [timer[i] EXCEPT !.left = timer[i].left - d] = Changed(timer[i], timer[i].value, timer[i].left - d)
    BY <2>2, <2>3, ChangedLeft, Zenon
  <2>. DEFINE c == Changed(timer[i], timer[i].value, timer[i].left - d)
  <2>5. /\ c \in TimerRecord /\ c.on = timer[i].on /\ c.mode = timer[i].mode /\ c.irq = timer[i].irq
        /\ c.reload = timer[i].reload /\ c.value = timer[i].value /\ c.left = timer[i].left - d
    <3>1. \A v \in 0 .. Values - 1, x \in Int :
            /\ Changed(timer[i], v, x) \in TimerRecord
            /\ Changed(timer[i], v, x).on = timer[i].on /\ Changed(timer[i], v, x).mode = timer[i].mode
            /\ Changed(timer[i], v, x).irq = timer[i].irq /\ Changed(timer[i], v, x).reload = timer[i].reload
            /\ Changed(timer[i], v, x).value = v /\ Changed(timer[i], v, x).left = x
      BY <2>2, ChangedFields, Zenon
    <3>. QED  BY <2>3, <3>1, Zenon
  <2>. HIDE DEF c
  <2>6. CASE Enabled(timer[i])
    <3>1. Passed(d)[i] = c
      BY <2>1, <2>4, <2>6, Zenon DEF c
    <3>. QED  BY <2>5, <2>6, <3>1, Zenon
  <2>7. CASE ~Enabled(timer[i])
    <3>1. Passed(d)[i] = timer[i]
      BY <2>1, <2>7, Zenon
    <3>. QED  BY <2>2, <2>7, <3>1, Zenon
  <2>. QED  BY <2>6, <2>7
<1>3. Passed(d) = [i \in Timer |-> Passed(d)[i]]
  BY DEF Passed
<1>4. Passed(d) \in [Timer -> TimerRecord] /\ SameSetup(Passed(d), timer)
  BY <1>2, <1>3, Zenon DEF SameSetup
<1>5. \A i \in Timer : ~(i < 0)
  BY DEF Timer
<1>6. \A i \in Timer : Enabled(timer[i]) => LeftTo(Passed(d), i, 0, d)
  BY <1>2, <1>5, Zenon DEF LeftTo
<1>7. \A i \in Timer : ~Enabled(timer[i]) => ValueTo(Passed(d), i, 0, d)
  BY <1>2, <1>5, Zenon DEF ValueTo
<1>8. {} = {i \in Timer : timer[i].irq /\ \E b \in Timer :
              b < 0 /\ Hits(b, d) /\ (i = b \/ (i \in Chain(timer, b) /\ Top(ValuesOf(timer), b, i)))}
  BY <1>5, Zenon
<1>9. {} = UNION {Chain(timer, b) : b \in {c \in Timer : c < 0 /\ Many(c, d)}}
  BY <1>5, Zenon
<1>. HIDE DEF e
<1>10. HandledTo(e, 0, d)
  BY <1>1, <1>4, <1>6, <1>7, <1>8, <1>9, Zenon DEF HandledTo
<1>. QED  BY <1>10 DEF e

(* An enabled timer has cycles left.                                       *)
LEMMA LeftPositive ==
    ASSUME TimersInv, NEW i \in Timer, Enabled(timer[i])
    PROVE  /\ Ranged(i, clock[i]) /\ timer[i].left \in Nat \ {0} /\ timer[i].left = Until(i, clock[i])
           /\ timer[i].mode \in Nat \ {0}
<1>1. TimersTyped /\ clock \in Clocks
  BY TypedTimers, Zenon DEF TimersInv, TimersTypeOK, Clocks
<1>2. Ranged(i, clock[i]) /\ timer[i].left = Until(i, clock[i])
  <2>1. clock[i].count \in 0 .. Values - 1
    BY <1>1 DEF Clocks
  <2>. QED  BY <2>1, Zenon DEF TimersInv, Ranged
<1>. DEFINE e == [clock |-> clock, irqs |-> {}]
<1>3. e.clock = clock
  OBVIOUS
<1>. HIDE DEF e
<1>4. Until(i, clock[i]) \in Nat \ {0}
  BY <1>1, <1>2, <1>3, CycleCounted, Zenon
<1>5. timer[i].mode \in Nat \ {0}
  BY <1>1, Units16 DEF TimersTyped
<1>. QED  BY <1>2, <1>4, <1>5, Zenon

(* The timers after the hardware has executed those that are due.          *)
LEMMA ExecutedFacts ==
    ASSUME TimersInv, NEW d \in 1 .. MaxLate
    PROVE  HandledTo(Executed(Passed(d))[TimerNums], TimerNums, d)
<1>. DEFINE run == Executed(Passed(d))
            S == {n \in 0 .. TimerNums : HandledTo(run[n], n, d)}
<1>1. TimerNums \in Nat \ {0} /\ TimersTyped /\ d \in Nat /\ d \in 0 .. MaxLate
  BY TimersAssumption, TypedTimers DEF TimersInv
<1>7. run = [m \in 0 .. TimerNums |->
         IF m = 0 THEN [timer |-> Passed(d), irqs |-> {}, lost |-> {}] ELSE Overflow(run[m - 1], m - 1)]
  BY ExecutedDef
<1>. HIDE DEF run
<1>2. 0 \in S
  <2>2. 0 \in 0 .. TimerNums
    BY <1>1
  <2>1. run[0] = [timer |-> Passed(d), irqs |-> {}, lost |-> {}]
    BY <1>7, <2>2, Zenon
  <2>. QED  BY <1>1, <2>1, <2>2, HandledStart, Zenon
<1>3. ASSUME NEW n \in 0 .. TimerNums - 1, n \in S PROVE n + 1 \in S
  <2>1. n \in Timer /\ n + 1 \in 0 .. TimerNums /\ n + 1 # 0 /\ (n + 1) - 1 = n
    BY <1>1 DEF Timer
  <2>2. run[n + 1] = Overflow(run[n], n)
    BY <1>7, <2>1, Zenon
  <2>3. HandledTo(run[n], n, d)
    BY <1>3, Zenon
  <2>4. HandledTo(Overflow(run[n], n), n + 1, d)
    <3>1. CASE Enabled(timer[n])
      <4>1. CountedTo(Ticked[d].clock, n, d)
        BY <1>1, <2>1, <3>1, TickedFacts, Zenon DEF TickedTo
      <4>2. PICK k : Times(k, timer[n].left - d, Period(timer[n]))
        BY <4>1, Zenon DEF CountedTo
      <4>3. timer[n].left \in Nat \ {0} /\ Period(timer[n]) \in Nat \ {0}
        BY <1>1, <2>1, <3>1, LeftPositive, Units16 DEF TimersTyped
      <4>4. CASE Hits(n, d)
        <5>1. timer[n].left > 0
          BY <4>3
        <5>. QED  BY <1>1, <2>1, <2>3, <4>2, <4>4, <5>1, NowHandled, Zenon
      <4>5. CASE ~Hits(n, d)
        <5>1. ~(timer[n].left - d <= 0)
          BY <2>1, <3>1, <4>5, Zenon DEF Hits
        <5>2. Times(0, timer[n].left - d, Period(timer[n]))
          BY <4>3, <5>1 DEF Times
        <5>. QED  BY <1>1, <2>1, <2>3, <4>5, <5>2, NotHandled, Zenon
      <4>. QED  BY <4>4, <4>5
    <3>2. CASE ~Enabled(timer[n])
      <4>1. ~Hits(n, d)
        BY <3>2, Zenon DEF Hits
      <4>. QED  BY <1>1, <2>1, <2>3, <3>2, <4>1, NotHandled, Zenon
    <3>. QED  BY <3>1, <3>2
  <2>. QED  BY <2>1, <2>2, <2>4, Zenon
<1>4. 0 .. TimerNums \subseteq S
  <2>. HIDE DEF S
  <2>. QED  BY <1>1, <1>2, <1>3, Counting
<1>5. TimerNums \in 0 .. TimerNums
  BY <1>1
<1>6. HandledTo(run[TimerNums], TimerNums, d)
  BY <1>4, <1>5, Zenon
<1>. QED  BY <1>6, Zenon DEF run

-----------------------------------------------------------------------------
(* What software reads of a timer that has not missed a tick.              *)
LEMMA ReadExact ==
    ASSUME TimersInv, NEW i \in Timer
    PROVE  /\ i \notin yikes => read_timer(timer[i]) = Shown(clock[i])
           /\ read_timer(timer[i]) \in 0 .. Values - 1
<1>1. clock[i].count \in 0 .. Values - 1 /\ timer[i].value \in 0 .. Values - 1 /\ Values \in Nat \ {0}
  <2>1. clock[i] \in [count : 0 .. Values - 1, sub : Int] /\ timer[i] \in TimerRecord
    BY TypedTimers DEF TimersInv, TimersTypeOK, TimersTyped
  <2>. QED  BY <2>1, FieldsOf, TimersAssumption
<1>2. CASE ~Enabled(timer[i])
  BY <1>1, <1>2, Zenon DEF read_timer, TimersInv
<1>3. CASE Enabled(timer[i])
  <2>. DEFINE u == timer[i].mode
              l == timer[i].left
              c == clock[i].count
              s == clock[i].sub
              q == l \div u
  <2>1. u \in Nat \ {0} /\ l \in Nat \ {0} /\ s \in 0 .. u - 1 /\ c \in 0 .. Values - 1
    BY <1>1, <1>3, LeftPositive DEF Ranged
  <2>2. l = (Values - c) * u - s
    BY <1>3, LeftPositive, Zenon DEF Until
  <2>3. read_timer(timer[i]) = IF q = Values THEN 0 ELSE Values - 1 - q
    BY <1>3, Zenon DEF read_timer
  <2>4. Shown(clock[i]) = IF s = 0 /\ c # 0 THEN c - 1 ELSE c
    BY Zenon DEF Shown
  <2>5. /\ q \in Int /\ u * q <= l /\ l < u * q + u
        /\ \A k \in Int : u * k <= l => k <= q
    <3>1. l \in Int
      BY <2>1
    <3>. QED  BY <2>1, <3>1, TicksOf, Zenon
  <2>. HIDE DEF q, u, l, c, s
  <2>6. (Values - c) * u = u * (Values - c) /\ u * (Values - c) \in Int /\ u * q \in Int
        /\ u * (Values - c - 1) = u * (Values - c) - u /\ Values - c \in Int /\ Values - c - 1 \in Int
    BY <1>1, <2>1, <2>5
  <2>7. CASE s = 0
    <3>1. Values - c <= q
      BY <2>1, <2>2, <2>5, <2>6, <2>7
    <3>2. ~(Values - c < q)
      <4>. SUFFICES ASSUME Values - c < q PROVE FALSE
        OBVIOUS
      <4>1. u * (Values - c) + u <= u * q
        BY <2>1, <2>5, <2>6, Product
      <4>. QED  BY <2>1, <2>2, <2>5, <2>6, <4>1
    <3>3. q = Values - c
      BY <2>5, <2>6, <3>1, <3>2
    <3>. QED  BY <1>1, <2>1, <2>3, <2>4, <2>7, <3>3 DEF c
  <2>8. CASE s # 0
    <3>1. Values - c - 1 <= q
      BY <2>1, <2>2, <2>5, <2>6
    <3>2. ~(Values - c <= q)
      <4>. SUFFICES ASSUME Values - c <= q PROVE FALSE
        OBVIOUS
      <4>1. u * (Values - c) <= u * q
        BY <2>1, <2>5, <2>6, Product
      <4>. QED  BY <2>1, <2>2, <2>5, <2>6, <2>8, <4>1
    <3>3. q = Values - c - 1
      BY <2>5, <2>6, <3>1, <3>2
    <3>. QED  BY <1>1, <2>1, <2>3, <2>4, <2>8, <3>3 DEF c
  <2>. QED  BY <2>7, <2>8
<1>. QED  BY <1>2, <1>3

LEMMA InvExact == TimersInv => TimersExact
  BY ReadExact, Zenon DEF TimersInv, TimersExact

(* The invariant holds at the start.                                       *)
LEMMA TimersStart == TimersInit => TimersInv
<1>. SUFFICES ASSUME TimersInit PROVE TimersInv
  OBVIOUS
<1>. DEFINE u == CHOOSE m \in Units : TRUE
            r == [on |-> FALSE, mode |-> u, irq |-> FALSE, reload |-> 0, value |-> 0, left |-> 0]
            z == [count |-> 0, sub |-> 0]
<1>1. u \in Units
  BY TimersAssumption
<1>2. u \in Nat \ {0} /\ Values \in Nat \ {0} /\ 0 \in 0 .. Values - 1
  <2>1. u \in Nat \ {0}
    <3>. HIDE DEF u
    <3>. QED  BY <1>1, TimersAssumption, Zenon
  <2>2. Values \in Nat \ {0}
    BY TimersAssumption
  <2>. HIDE DEF u
  <2>. QED  BY <2>1, <2>2
<1>3. timer = [i \in Timer |-> r] /\ clock = [i \in Timer |-> z] /\ timerIrqs = {} /\ clockIrqs = {} /\ yikes = {}
  BY DEF TimersInit
<1>. HIDE DEF u
<1>4. r \in [on : BOOLEAN, mode : Modes16, irq : BOOLEAN, reload : 0 .. Values - 1,
             value : 0 .. Values - 1, left : Nat]
      /\ z \in [count : 0 .. Values - 1, sub : Int]
  BY <1>1, <1>2 DEF Modes16
<1>5. r.on = FALSE /\ r.left = 0 /\ r.value = 0 /\ r.mode = u /\ z.count = 0 /\ z.sub = 0 /\ 0 <= Values * u
  BY <1>2
<1>. HIDE DEF r, z
<1>6. \A i \in Timer : timer[i] = r /\ clock[i] = z
  BY <1>3
<1>7. TimersTypeOK
  BY <1>3, <1>4, <1>5, <1>6 DEF TimersTypeOK
<1>8. Shown(z) = 0
  BY <1>5 DEF Shown
<1>. QED  BY <1>3, <1>5, <1>6, <1>7, <1>8, Zenon DEF TimersInv, Enabled

(* The invariant, of each timer.                                           *)
ExactTimer(i) ==
    /\ Enabled(timer[i]) =>
          /\ i \notin yikes /\ clock[i].sub \in 0 .. timer[i].mode - 1
          /\ timer[i].left = Until(i, clock[i])
    /\ timer[i].on /\ timer[i].mode = Chained => clock[i].sub = -1
    /\ i \notin yikes /\ ~Enabled(timer[i]) => timer[i].value = Shown(clock[i])

LEMMA InvByTimer ==
    TimersInv <=> TimersTypeOK /\ (\A i \in Timer : ExactTimer(i)) /\ timerIrqs \ yikes = clockIrqs \ yikes
  BY Zenon DEF TimersInv, ExactTimer

(* A write of the control register starts the counter, or stops it at what *)
(* it shows.                                                               *)
LEMMA WriteTimerStep ==
    ASSUME TimersInv, NEW i \in Timer, NEW on \in BOOLEAN, NEW mode \in Modes16, write_timer(i, on, mode)
    PROVE  TimersInv'
<1>. DEFINE r == timer[i]
            v == IF on THEN r.reload ELSE read_timer(r)
            l == IF on /\ mode # Chained THEN (Values - r.reload) * mode ELSE 0
            new == [on |-> on, mode |-> mode, irq |-> i \in Asking, reload |-> r.reload, value |-> v, left |-> l]
            c == IF on THEN [count |-> r.reload, sub |-> IF mode = Chained THEN -1 ELSE 0] ELSE clock[i]
<1>1. TimersTyped /\ clock \in Clocks /\ yikes \subseteq Timer /\ TimersTypeOK
  BY TypedTimers, Zenon DEF TimersInv, TimersTypeOK, Clocks
<1>2. r \in TimerRecord
  BY <1>1 DEF TimersTyped
<1>3. r.reload \in 0 .. Values - 1 /\ Values \in Nat \ {0} /\ mode \in Nat /\ (mode # Chained => mode \in Nat \ {0})
  <2>1. r.reload \in 0 .. Values - 1 /\ Values \in Nat \ {0}
    BY <1>2, FieldsOf, TimersAssumption
  <2>2. mode = Chained \/ mode \in Units
    BY Zenon DEF Modes16
  <2>3. \A m \in Units : m \in Nat \ {0}
    BY TimersAssumption, Zenon
  <2>. QED  BY <2>1, <2>2, <2>3 DEF Chained
<1>4. timer' = [timer EXCEPT ![i] = new]
  <2>1. [r EXCEPT !.mode = mode].reload = r.reload /\ [r EXCEPT !.mode = mode].mode = mode
    BY <1>2 DEF TimerRecord
  <2>2. Period([r EXCEPT !.mode = mode]) = (Values - r.reload) * mode
    BY <2>1, Zenon DEF Period
  <2>3. timer' = [timer EXCEPT ![i] =
            [on |-> on, mode |-> mode, irq |-> i \in Asking, reload |-> r.reload,
             value |-> IF on THEN r.reload ELSE read_timer(r),
             left |-> IF on /\ mode # Chained THEN Period([r EXCEPT !.mode = mode]) ELSE 0]]
    BY Zenon DEF write_timer
  <2>. QED  BY <2>2, <2>3, Zenon
<1>5. clock' = [clock EXCEPT ![i] = c] /\ yikes' = (IF on THEN yikes \ {i} ELSE yikes)
      /\ timerIrqs' = {} /\ clockIrqs' = {}
  BY Zenon DEF write_timer
<1>6. v \in 0 .. Values - 1
  BY <1>3, ReadExact
<1>7. l \in Nat /\ l <= Values * mode
  <2>1. CASE on /\ mode # Chained
    <3>1. (Values - r.reload) * mode \in Nat
      <4>1. Values - r.reload \in Nat
        BY <1>3
      <4>. QED  BY <1>3, <4>1, ProductNat
    <3>2. mode * (Values - r.reload) <= mode * Values
      BY <1>3, <2>1, Product
    <3>3. (Values - r.reload) * mode = mode * (Values - r.reload) /\ Values * mode = mode * Values
      BY <1>3
    <3>. QED  BY <2>1, <3>1, <3>2, <3>3
  <2>2. CASE ~(on /\ mode # Chained)
    <3>1. Values * mode \in Nat
      BY <1>3, ProductNat
    <3>. QED  BY <2>2, <3>1
  <2>. QED  BY <2>1, <2>2
<1>. HIDE DEF v, l
<1>8. new \in [on : BOOLEAN, mode : Modes16, irq : BOOLEAN, reload : 0 .. Values - 1,
               value : 0 .. Values - 1, left : Nat]
  <2>1. (i \in Asking) \in BOOLEAN
    OBVIOUS
  <2>. QED  BY <1>3, <1>6, <1>7, <2>1
<1>9. new.on = on /\ new.mode = mode /\ new.value = v /\ new.left = l
  OBVIOUS
<1>10. c \in [count : 0 .. Values - 1, sub : Int]
  <2>1. clock[i] \in [count : 0 .. Values - 1, sub : Int]
    BY <1>1 DEF Clocks
  <2>. QED  BY <1>3, <2>1
<1>11. on => c.count = r.reload /\ c.sub = IF mode = Chained THEN -1 ELSE 0
  OBVIOUS
<1>12. ~on => c = clock[i]
  OBVIOUS
<1>. HIDE DEF new, c
<1>13. /\ timer'[i] = new /\ clock'[i] = c
       /\ \A j \in Timer : j # i => timer'[j] = timer[j] /\ clock'[j] = clock[j] /\ (j \in yikes' <=> j \in yikes)
  BY <1>1, <1>4, <1>5 DEF TimersTyped, Clocks
<1>14. TimersTypeOK'
  <2>1. /\ timer' \in [Timer -> [on : BOOLEAN, mode : Modes16, irq : BOOLEAN, reload : 0 .. Values - 1,
                                 value : 0 .. Values - 1, left : Nat]]
        /\ clock' \in [Timer -> [count : 0 .. Values - 1, sub : Int]]
    BY <1>1, <1>4, <1>5, <1>8, <1>10 DEF TimersTypeOK
  <2>2. \A j \in Timer : timer'[j].left <= Values * timer'[j].mode
    <3>. SUFFICES ASSUME NEW j \in Timer PROVE timer'[j].left <= Values * timer'[j].mode
      OBVIOUS
    <3>1. CASE j = i
      BY <1>7, <1>9, <1>13, <3>1
    <3>2. CASE j # i
      <4>1. timer[j].left <= Values * timer[j].mode
        BY <1>1, Zenon DEF TimersTypeOK
      <4>. QED  BY <1>13, <3>2, <4>1, Zenon
    <3>. QED  BY <3>1, <3>2
  <2>3. yikes' \subseteq Timer /\ timerIrqs' \subseteq Timer /\ clockIrqs' \subseteq Timer
    BY <1>1, <1>5
  <2>. QED  BY <2>1, <2>2, <2>3, Zenon DEF TimersTypeOK
<1>15. ExactTimer(i)'
  <2>1. timer'[i].on = on /\ timer'[i].mode = mode /\ timer'[i].value = v /\ timer'[i].left = l /\ clock'[i] = c
    BY <1>9, <1>13, Zenon
  <2>2. CASE on /\ mode # Chained
    <3>1. c.sub = 0 /\ c.count = r.reload /\ i \notin yikes' /\ l = (Values - r.reload) * mode
      BY <1>5, <1>11, <2>2 DEF l
    <3>2. c.sub \in 0 .. mode - 1 /\ l = (Values - c.count) * mode - c.sub
      <4>1. (Values - r.reload) * mode \in Int
        BY <1>3
      <4>. QED  BY <1>3, <2>2, <3>1, <4>1
    <3>3. Enabled(timer'[i])
      BY <2>1, <2>2, Zenon DEF Enabled
    <3>. QED  BY <2>1, <2>2, <3>1, <3>2, <3>3, Zenon DEF ExactTimer, Until, Enabled
  <2>3. CASE on /\ mode = Chained
    <3>1. c.sub = -1 /\ c.count = r.reload /\ v = r.reload
      BY <1>11, <2>3 DEF v
    <3>2. Shown(c) = r.reload
      BY <3>1 DEF Shown
    <3>. QED  BY <2>1, <2>3, <3>1, <3>2, Zenon DEF ExactTimer, Enabled
  <2>4. CASE ~on
    <3>1. v = read_timer(r) /\ c = clock[i] /\ yikes' = yikes
      BY <1>5, <1>12, <2>4 DEF v
    <3>2. i \notin yikes => v = Shown(c)
      BY <3>1, ReadExact, Zenon
    <3>. QED  BY <2>1, <2>4, <3>1, <3>2, Zenon DEF ExactTimer, Enabled
  <2>. QED  BY <2>2, <2>3, <2>4
<1>16. \A j \in Timer : j # i => ExactTimer(j)'
  <2>. SUFFICES ASSUME NEW j \in Timer, j # i PROVE ExactTimer(j)'
    OBVIOUS
  <2>1. ExactTimer(j)
    BY InvByTimer, Zenon
  <2>. QED  BY <1>13, <2>1, Zenon DEF ExactTimer, Enabled, Until
<1>17. \A j \in Timer : ExactTimer(j)'
  BY <1>15, <1>16, Zenon
<1>18. (timerIrqs \ yikes = clockIrqs \ yikes)'
  BY <1>5
<1>. QED  BY <1>14, <1>17, <1>18, Zenon DEF TimersInv, ExactTimer

LEMMA WriteReloadStep ==
    ASSUME TimersInv, NEW i \in Timer, WriteReload(i)
    PROVE  TimersInv'
<1>1. PICK r \in Reloads : timer' = [timer EXCEPT ![i].reload = r]
  BY Zenon DEF WriteReload
<1>2. clock' = clock /\ yikes' = yikes /\ timerIrqs' = {} /\ clockIrqs' = {}
  BY Zenon DEF WriteReload
<1>3. TimersTypeOK /\ r \in 0 .. Values - 1
  BY TimersAssumption DEF TimersInv
<1>4. timer' \in [Timer -> [on : BOOLEAN, mode : Modes16, irq : BOOLEAN, reload : 0 .. Values - 1,
                            value : 0 .. Values - 1, left : Nat]]
  BY <1>1, <1>3 DEF TimersTypeOK
<1>5. \A j \in Timer : timer'[j].on = timer[j].on /\ timer'[j].mode = timer[j].mode
                       /\ timer'[j].value = timer[j].value /\ timer'[j].left = timer[j].left
  BY <1>1, <1>3 DEF TimersTypeOK
<1>6. TimersTypeOK'
  BY <1>2, <1>3, <1>4, <1>5 DEF TimersTypeOK
<1>7. \A j \in Timer : ExactTimer(j)'
  <2>. SUFFICES ASSUME NEW j \in Timer PROVE ExactTimer(j)'
    OBVIOUS
  <2>1. ExactTimer(j)
    BY InvByTimer, Zenon
  <2>. QED  BY <1>2, <1>5, <2>1, Zenon DEF ExactTimer, Enabled, Until
<1>8. (timerIrqs \ yikes = clockIrqs \ yikes)'
  BY <1>2
<1>. QED  BY <1>6, <1>7, <1>8, Zenon DEF TimersInv, ExactTimer

(* The chain of a timer shows its counters, as none of it is lost.         *)
LEMMA SameSteps ==
    ASSUME TimersInv, NEW b \in Timer, NEW i \in Chain(timer, b),
           \A j \in Chain(timer, b) : (j < i => i \in Chain(timer, j)) /\ (j <= i => j \notin yikes)
    PROVE  /\ timer[i].value = clock[i].count
           /\ Top(ValuesOf(timer), b, i) <=> Top(Counts(clock), b, i)
           /\ StepOf(ValuesOf(timer), b, i) = StepOf(Counts(clock), b, i)
<1>1. ASSUME NEW j \in b + 1 .. i PROVE ValuesOf(timer)[j] = timer[j].value /\ Counts(clock)[j] = clock[j].count
                                         /\ timer[j].value = clock[j].count
  <2>1. j \in Timer /\ j \in Chain(timer, b) /\ j <= i
    <3>1. j \in Timer /\ j \in Chain(timer, b)
      BY ChainFacts, Zenon
    <3>2. j <= i
      OBVIOUS
    <3>. QED  BY <3>1, <3>2
  <2>2. timer[j].on /\ timer[j].mode = Chained
    BY <2>1, ChainFacts, Zenon
  <2>3. timer[j].value = Shown(clock[j]) /\ clock[j].sub = -1
    BY <2>1, <2>2, Zenon DEF TimersInv, Enabled
  <2>4. Shown(clock[j]) = clock[j].count
    BY <2>3 DEF Shown
  <2>. QED  BY <2>1, <2>3, <2>4, Zenon DEF ValuesOf, Counts
<1>2. i \in b + 1 .. i /\ \A j \in b + 1 .. i - 1 : j \in b + 1 .. i
  BY DEF Chain, Timer
<1>. QED  BY <1>1, <1>2, Zenon DEF Top, StepOf

(* Time passes.                                                            *)
LEMMA ElapseStep ==
    ASSUME TimersInv, NEW d \in 1 .. MaxLate, Elapse(d)
    PROVE  TimersInv'
<1>. DEFINE e == Executed(Passed(d))[TimerNums]
            k == Ticked[d]
            lost == yikes \cup e.lost
<1>1. /\ timer' = e.timer /\ timerIrqs' = e.irqs /\ clock' = k.clock /\ clockIrqs' = k.irqs
      /\ yikes' = lost \cup UNION {Chain(timer, i) : i \in lost}
  BY Zenon DEF Elapse
<1>2. HandledTo(e, TimerNums, d)
  BY ExecutedFacts
<1>3. TickedTo(k, d)
  <2>1. d \in 0 .. MaxLate
    BY TimersAssumption
  <2>. QED  BY <2>1, TickedFacts, Zenon
<1>. HIDE DEF e, k
<1>4. TimersTyped /\ TimersTypeOK
  BY TypedTimers, Zenon DEF TimersInv
<1>5. \A b \in Timer : b < TimerNums
  BY TimersAssumption DEF Timer
<1>6. e.lost = Lost(d) /\ e.irqs = Asked(ValuesOf(timer), d)
  <2>1. {c \in Timer : c < TimerNums /\ Many(c, d)} = {c \in Timer : Many(c, d)}
    BY <1>5
  <2>2. e.lost = Lost(d)
    BY <1>2, <2>1, Zenon DEF HandledTo, Lost
  <2>3. \A i : i \in e.irqs <=> i \in Asked(ValuesOf(timer), d)
    BY <1>2, <1>5, Zenon DEF HandledTo, Asked
  <2>4. \A i : i \in e.irqs => i \in Timer
    BY <1>2, Zenon DEF HandledTo
  <2>. QED  BY <2>2, <2>3, Zenon
<1>7. ASSUME NEW i \in Timer
      PROVE  /\ timer'[i].on = timer[i].on /\ timer'[i].mode = timer[i].mode
             /\ Enabled(timer[i]) <=> Enabled(timer'[i])
             /\ timer'[i] \in TimerRecord
  BY <1>1, <1>2, Zenon DEF HandledTo, SameSetup, Enabled
<1>8. lost \subseteq Timer /\ yikes' \subseteq Timer
  <2>1. \A b : Chain(timer, b) \subseteq Timer
    BY Zenon DEF Chain
  <2>2. yikes \subseteq Timer
    BY <1>4, Zenon DEF TimersTypeOK
  <2>3. e.lost \subseteq Timer
    BY <1>6, <2>1, Zenon DEF Lost
  <2>4. lost \subseteq Timer
    BY <2>2, <2>3, Zenon
  <2>5. \A x \in yikes' : x \in lost \/ \E j : x \in Chain(timer, j)
    BY <1>1, Zenon
  <2>. QED  BY <2>1, <2>4, <2>5, Zenon
<1>9. ASSUME NEW i \in Timer, i \notin yikes'
      PROVE  /\ i \notin yikes /\ i \notin Lost(d)
             /\ \A j \in Timer : i \in Chain(timer, j) => j \notin yikes
  BY <1>1, <1>6, <1>9, Zenon
<1>10. ASSUME NEW i \in Timer, Enabled(timer[i])
       PROVE  /\ i \notin yikes' /\ clock'[i].sub \in 0 .. timer[i].mode - 1 /\ clock'[i].count \in 0 .. Values - 1
              /\ timer'[i].left = (Values - clock'[i].count) * timer[i].mode - clock'[i].sub
  <2>1. \A b \in Timer : i \notin Chain(timer, b)
    BY <1>10, ChainFacts, Zenon DEF Enabled
  <2>2. i \notin yikes
    BY <1>10, Zenon DEF TimersInv
  <2>3. i \notin lost
    BY <1>6, <2>1, <2>2, Zenon DEF Lost
  <2>4. i \notin yikes'
    BY <1>1, <1>8, <2>1, <2>3, Zenon
  <2>. DEFINE p == Period(timer[i])
              l == timer[i].left - d
  <2>5. p \in Nat \ {0} /\ l \in Int
    <3>1. timer[i].left \in Nat /\ p \in Nat \ {0}
      BY <1>4, <1>10, LeftPositive, Units16 DEF TimersTyped
    <3>. QED  BY <3>1
  <2>6. LeftTo(timer', i, TimerNums, d)
    BY <1>1, <1>2, <1>10, Zenon DEF HandledTo
  <2>7. PICK m : Times(m, l, p) /\ timer'[i].left = l + m * p
    BY <1>5, <2>6, Zenon DEF LeftTo
  <2>8. CountedTo(clock', i, d)
    BY <1>1, <1>3, <1>10, Zenon DEF TickedTo
  <2>9. PICK n : Times(n, l, p) /\ Until(i, clock'[i]) = l + n * p
    BY <2>8, Zenon DEF CountedTo
  <2>10. Ranged(i, clock'[i])
    BY <2>8, Zenon DEF CountedTo
  <2>. HIDE DEF p, l
  <2>11. m = n
    BY <2>5, <2>7, <2>9, TimesUnique, Zenon
  <2>. QED  BY <2>4, <2>7, <2>9, <2>10, <2>11, Zenon DEF Ranged, Until
<1>11. ASSUME NEW i \in Timer, timer[i].on, timer[i].mode = Chained, i \notin yikes', NEW b \in Timer,
              i \in Chain(timer, b)
       PROVE  /\ ~Many(b, d) /\ timer[i].value = clock[i].count
              /\ Top(ValuesOf(timer), b, i) <=> Top(Counts(clock), b, i)
              /\ StepOf(ValuesOf(timer), b, i) = StepOf(Counts(clock), b, i)
  <2>1. ~Many(b, d)
    BY <1>9, <1>11, Zenon DEF Lost
  <2>2. \A j \in Chain(timer, b) : j < i => i \in Chain(timer, j)
    BY <1>11, ChainFacts, Zenon
  <2>3. \A j \in Chain(timer, b) : j <= i => j \notin yikes
    <3>. SUFFICES ASSUME NEW j \in Chain(timer, b), j <= i PROVE j \notin yikes
      OBVIOUS
    <3>1. j \in Timer /\ (j = i \/ j < i)
      BY DEF Chain, Timer
    <3>. QED  BY <1>9, <1>11, <2>2, <3>1, Zenon
  <2>. QED  BY <1>11, <2>1, <2>2, <2>3, SameSteps, Zenon
<1>12. ASSUME NEW i \in Timer, timer[i].on, timer[i].mode = Chained PROVE clock'[i].sub = -1
  BY <1>1, <1>3, <1>12, Zenon DEF TickedTo, ChainedTo
<1>13. ASSUME NEW i \in Timer, i \notin yikes', ~Enabled(timer[i]) PROVE timer'[i].value = Shown(clock'[i])
  <2>1. ValueTo(timer', i, TimerNums, d)
    BY <1>1, <1>2, <1>13, Zenon DEF HandledTo
  <2>2. timer[i].value = Shown(clock[i])
    BY <1>9, <1>13, Zenon DEF TimersInv
  <2>3. CASE ~timer[i].on
    <3>1. \A b \in Timer : i \notin Chain(timer, b)
      BY <2>3, ChainFacts, Zenon
    <3>2. timer'[i].value = timer[i].value
      BY <2>1, <3>1, Zenon DEF ValueTo
    <3>3. clock'[i] = clock[i]
      BY <1>1, <1>3, <2>3, Zenon DEF TickedTo
    <3>. QED  BY <2>2, <3>2, <3>3, Zenon
  <2>4. CASE timer[i].on
    <3>1. timer[i].mode = Chained
      BY <1>13, <2>4, Zenon DEF Enabled
    <3>2. ChainedTo(clock', i, d)
      BY <1>1, <1>3, <2>4, <3>1, Zenon DEF TickedTo
    <3>3. clock'[i].sub = -1 /\ clock[i].sub = -1
      BY <1>12, <2>4, <3>1, Zenon DEF TimersInv
    <3>4. Shown(clock'[i]) = clock'[i].count /\ Shown(clock[i]) = clock[i].count
      BY <3>3 DEF Shown
    <3>5. CASE \A b \in Timer : Hits(b, d) => i \notin Chain(timer, b)
      <4>1. timer'[i].value = timer[i].value
        BY <2>1, <3>5, Zenon DEF ValueTo
      <4>2. clock'[i].count = clock[i].count
        BY <3>2, <3>5, Zenon DEF ChainedTo
      <4>. QED  BY <2>2, <3>4, <4>1, <4>2, Zenon
    <3>6. ASSUME NEW b \in Timer, Hits(b, d), i \in Chain(timer, b) PROVE timer'[i].value = clock'[i].count
      <4>1. timer'[i].value = StepOf(ValuesOf(timer), b, i)
        BY <1>5, <2>1, <3>6, Zenon DEF ValueTo
      <4>2. ~Many(b, d) /\ StepOf(ValuesOf(timer), b, i) = StepOf(Counts(clock), b, i)
        BY <1>11, <1>13, <2>4, <3>1, <3>6, Zenon
      <4>3. clock'[i].count = StepOf(Counts(clock), b, i)
        BY <3>2, <3>6, <4>2, Zenon DEF ChainedTo
      <4>. QED  BY <4>1, <4>2, <4>3, Zenon
    <3>. QED  BY <3>4, <3>5, <3>6, Zenon
  <2>. QED  BY <2>3, <2>4
<1>14. ASSUME NEW i \in Timer, i \notin yikes' PROVE i \in timerIrqs' <=> i \in clockIrqs'
  <2>1. i \in clockIrqs' <=> i \in Asked(Counts(clock), d)
    BY <1>1, <1>3, <1>9, <1>14, Zenon DEF TickedTo
  <2>2. \A b \in Timer : i \in Chain(timer, b) => (Top(ValuesOf(timer), b, i) <=> Top(Counts(clock), b, i))
    <3>. SUFFICES ASSUME NEW b \in Timer, i \in Chain(timer, b)
                  PROVE  Top(ValuesOf(timer), b, i) <=> Top(Counts(clock), b, i)
      OBVIOUS
    <3>1. timer[i].on /\ timer[i].mode = Chained
      BY ChainFacts, Zenon
    <3>. QED  BY <1>11, <1>14, <3>1, Zenon
  <2>3. i \in Asked(ValuesOf(timer), d) <=> i \in Asked(Counts(clock), d)
    BY <2>2, Zenon DEF Asked
  <2>. QED  BY <1>1, <1>6, <2>1, <2>3, Zenon
<1>15. timerIrqs' \subseteq Timer /\ clockIrqs' \subseteq Timer
  BY <1>1, <1>3, <1>6, Zenon DEF TickedTo, Asked
<1>16. (timerIrqs \ yikes = clockIrqs \ yikes)'
  BY <1>14, <1>15, Zenon
<1>17. \A i \in Timer : ExactTimer(i)'
  BY <1>7, <1>10, <1>12, <1>13, Zenon DEF ExactTimer, Until
<1>18. ASSUME NEW i \in Timer PROVE timer'[i].left \in Nat /\ timer'[i].left <= Values * timer'[i].mode
  <2>1. CASE ~Enabled(timer[i])
    <3>1. timer'[i].left = timer[i].left
      BY <1>1, <1>2, <2>1, Zenon DEF HandledTo, ValueTo
    <3>2. timer[i].left \in Nat /\ timer[i].left <= Values * timer[i].mode
      BY <1>4 DEF TimersTypeOK
    <3>. QED  BY <1>7, <3>1, <3>2, Zenon
  <2>2. CASE Enabled(timer[i])
    <3>. DEFINE u == timer[i].mode
                c == clock'[i].count
                s == clock'[i].sub
    <3>1. u \in Nat \ {0} /\ c \in 0 .. Values - 1 /\ s \in 0 .. u - 1 /\ timer'[i].left = (Values - c) * u - s
          /\ timer'[i].mode = u /\ Values \in Nat \ {0}
      BY <1>7, <1>10, <2>2, LeftPositive, TimersAssumption
    <3>. HIDE DEF u, c, s
    <3>2. (Values - c) * u - s \in Nat \ {0}
      BY <3>1, UntilFacts
    <3>3. u * (Values - c) <= u * Values /\ u * (Values - c) = (Values - c) * u /\ u * Values = Values * u
      BY <3>1, Product
    <3>4. (Values - c) * u \in Int /\ Values * u \in Int
      BY <3>1
    <3>. QED  BY <3>1, <3>2, <3>3, <3>4
  <2>. QED  BY <2>1, <2>2
<1>19. timer' \in [Timer -> [on : BOOLEAN, mode : Modes16, irq : BOOLEAN, reload : 0 .. Values - 1,
                             value : 0 .. Values - 1, left : Nat]]
  <2>1. timer' \in [Timer -> TimerRecord]
    BY <1>1, <1>2, Zenon DEF HandledTo
  <2>. QED  BY <1>18, <2>1 DEF TimerRecord
<1>20. clock' \in [Timer -> [count : 0 .. Values - 1, sub : Int]]
  BY <1>1, <1>3, Zenon DEF TickedTo, Clocks
<1>21. TimersTypeOK'
  BY <1>8, <1>15, <1>18, <1>19, <1>20, Zenon DEF TimersTypeOK
<1>. QED  BY <1>16, <1>17, <1>21, Zenon DEF TimersInv, ExactTimer

LEMMA TimersStutter == TimersInv /\ UNCHANGED timerVars => TimersInv'
  BY Zenon DEF TimersInv, TimersTypeOK, timerVars, Enabled, Until, Shown

LEMMA TimersNextStep == TimersInv /\ [TimersNext]_timerVars => TimersInv'
<1>. SUFFICES ASSUME TimersInv, [TimersNext]_timerVars PROVE TimersInv'
  OBVIOUS
<1>1. ASSUME NEW i \in Timer, NEW mode \in Modes16, write_timer(i, TRUE, mode) PROVE TimersInv'
  BY <1>1, WriteTimerStep, Zenon
<1>2. ASSUME NEW i \in Timer, write_timer(i, FALSE, timer[i].mode) PROVE TimersInv'
  <2>1. timer[i].mode \in Modes16
    BY TypedTimers, FieldsOf DEF TimersInv, TimersTyped
  <2>2. FALSE \in BOOLEAN
    OBVIOUS
  <2>. QED  BY <1>2, <2>1, <2>2, WriteTimerStep, Zenon
<1>3. ASSUME NEW i \in Timer, WriteReload(i) PROVE TimersInv'
  BY <1>3, WriteReloadStep, Zenon
<1>4. ASSUME NEW d \in 1 .. MaxLate, Elapse(d) PROVE TimersInv'
  BY <1>4, ElapseStep, Zenon
<1>. QED  BY <1>1, <1>2, <1>3, <1>4, TimersStutter, Zenon DEF TimersNext

(* The timers have their types in every state.                             *)
THEOREM TimersTypeCorrect == TimersSpec => []TimersTypeOK
<1>1. TimersInv => TimersTypeOK
  BY Zenon DEF TimersInv
<1>. QED  BY <1>1, TimersStart, TimersNextStep, PTL DEF TimersSpec

(* What software reads of the timers, and what interrupts, is what         *)
(* counters that are stepped every cycle would show and ask for.           *)
THEOREM TimersAlwaysExact == TimersSpec => []TimersExact
  BY InvExact, TimersStart, TimersNextStep, PTL DEF TimersSpec
=============================================================================
