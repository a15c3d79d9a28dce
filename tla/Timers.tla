------------------------------- MODULE Timers -------------------------------
(***************************************************************************)
(* The hardware timers of one CPU (TSequenceItem_Timer, read_timer and     *)
(* write_timer).  A timer that counts cycles is not kept up to date: only  *)
(* the time of its overflow is (timerCycle, here `left', relative to       *)
(* nds_timer), and its value is computed when it is read.  A chained timer *)
(* is stepped by the overflow event of the timer below it.                 *)
(*                                                                         *)
(* `clock' is what the timers promise: counters stepped cycle by cycle.    *)
(***************************************************************************)
EXTENDS Integers

CONSTANTS TimerNums,    \* number of timers: 4
          Values,       \* values of a counter: 65536
          Units,        \* the prescalers: cycles of a tick, 1 << timerMODE
          Reloads,      \* bound: reload values software uses
          Asking,       \* bound: timers whose interrupt software enables
          MaxLate       \* cycles of the longest instruction

ASSUME TimersAssumption ==
    /\ TimerNums \in Nat \ {0} /\ Values \in Nat \ {0} /\ Reloads \subseteq 0 .. Values - 1
    /\ Asking \subseteq 0 .. TimerNums - 1
    /\ Units \subseteq Nat \ {0} /\ Units # {} /\ MaxLate \in Nat \ {0}

VARIABLES timer,      \* MMU.timer*, nds.timerCycle and the interrupt enable of each timer
          clock,      \* the counters as they should be
          timerIrqs,  \* timers that interrupted in the last step
          clockIrqs,  \* timers that should have
          yikes       \* timers that may have missed ticks since they were started

timerVars == <<timer, clock, timerIrqs, clockIrqs, yikes>>

Timer == 0 .. TimerNums - 1
Chained == 0        \* the mode 0xFFFF
Modes16 == Units \cup {Chained}

TimersInit ==
    /\ timer = [i \in Timer |-> [on |-> FALSE, mode |-> CHOOSE m \in Units : TRUE, irq |-> FALSE,
                                 reload |-> 0, value |-> 0, left |-> 0]]
    /\ clock = [i \in Timer |-> [count |-> 0, sub |-> 0]]
    /\ timerIrqs = {} /\ clockIrqs = {} /\ yikes = {}

(* TSequenceItem_Timer::schedule: chained timers have no event.            *)
Enabled(t) == t.on /\ t.mode # Chained

Period(t) == (Values - t.reload) * t.mode

(* read_timer, by 16 bit reads.                                            *)
read_timer(t) ==
    IF ~Enabled(t) THEN t.value
    ELSE LET units == t.left \div t.mode
         IN  IF units = Values THEN 0 ELSE Values - 1 - units

(* write_timer: any write that enables the timer reloads it.               *)
write_timer(i, on, mode) ==
    /\ timer' = [timer EXCEPT ![i] =
         [on |-> on, mode |-> mode, irq |-> i \in Asking, reload |-> @.reload,
          value |-> IF on THEN @.reload ELSE read_timer(@),
          left |-> IF on /\ mode # Chained THEN Period([@ EXCEPT !.mode = mode]) ELSE 0]]
    /\ clock' = [clock EXCEPT ![i] =
         IF on THEN [count |-> timer[i].reload, sub |-> IF mode = Chained THEN -1 ELSE 0] ELSE @]
    /\ yikes' = IF on THEN yikes \ {i} ELSE yikes
    /\ timerIrqs' = {} /\ clockIrqs' = {}

WriteReload(i) ==
    /\ \E r \in Reloads : timer' = [timer EXCEPT ![i].reload = r]
    /\ timerIrqs' = {} /\ clockIrqs' = {}
    /\ UNCHANGED <<clock, yikes>>

-----------------------------------------------------------------------------
(* Timers above num that its overflow may reach, and those it steps.       *)
Chain(t, num) == {i \in Timer : i > num /\ \A j \in num + 1 .. i : t[j].on /\ t[j].mode = Chained}

Stepped(t, num) ==
    {i \in Chain(t, num) : \A j \in num + 1 .. i - 1 : t[j].value = Values - 1}

Interrupts(t, num, over) == {i \in over : t[i].irq}

Reloaded(t) == [t EXCEPT !.value = t.reload]

(* The next overflow is a period after the last one.                       *)
RearmedNow(t, late) == Period(t)

Rearmed(t, late) == late * Period(t) + t.left

(* How often a timer overflows before it has cycles left.                  *)
Late(t) ==
    CHOOSE k \in 1 .. MaxLate + 1 : k * Period(t) + t.left > 0 /\ (k - 1) * Period(t) + t.left <= 0

(* The timers that overflow with num.                                      *)
Over(t, num) == {num} \cup {i \in Stepped(t, num) : t[i].value = Values - 1}

(* TSequenceItem_Timer::exec of timer num, late by some periods.           *)
Overflow(e, num) ==
    LET t == e.timer
        over == Over(t, num)
    IN  IF ~Enabled(t[num]) \/ t[num].left > 0 THEN e
        ELSE [timer |-> [i \in Timer |->
                IF i = num THEN [Reloaded(t[i]) EXCEPT !.left = Rearmed(t[i], Late(t[i]))]
                ELSE IF i \in over THEN Reloaded(t[i])
                ELSE IF i \in Stepped(t, num) THEN [t[i] EXCEPT !.value = @ + 1] ELSE t[i]],
              irqs |-> e.irqs \cup Interrupts(t, num, over),
              lost |-> IF Late(t[num]) > 1 THEN e.lost \cup Chain(t, num) ELSE e.lost]

-----------------------------------------------------------------------------
(* The counters of cycles that tick in a cycle, the counters that overflow *)
(* in it, and all that tick.                                               *)
Counted(c) == {i \in Timer : timer[i].mode # Chained /\ c[i].sub = timer[i].mode - 1}

Wraps(c) ==
    LET top == {i \in Timer : timer[i].on /\ c[i].count = Values - 1}
    IN  {i \in top : \E j \in Counted(c) \cap top :
            j <= i /\ \A k \in j + 1 .. i : k \in top /\ timer[k].mode = Chained}

Ticks(c) == Counted(c) \cup {i \in Timer : timer[i].mode = Chained /\ i - 1 \in Wraps(c)}

(* One cycle of the counters.                                              *)
Cycle(e) ==
    LET c == e.clock
        over == Wraps(c)
        steps == Ticks(c)
    IN  [clock |-> [i \in Timer |->
           IF ~timer[i].on THEN c[i]
           ELSE [count |-> IF i \in over THEN timer[i].reload
                           ELSE IF i \in steps THEN c[i].count + 1 ELSE c[i].count,
                 sub |-> IF timer[i].mode = Chained THEN -1 ELSE (c[i].sub + 1) % timer[i].mode]],
         irqs |-> e.irqs \cup {i \in over : timer[i].irq}]

(* The counters after n cycles.                                            *)
Ticked ==
    LET after[n \in 0 .. MaxLate] ==
          IF n = 0 THEN [clock |-> clock, irqs |-> {}] ELSE Cycle(after[n - 1])
    IN  after

(* The timers after the sequencer has looked at the first n of them.       *)
Passed(d) ==
    [i \in Timer |-> IF Enabled(timer[i]) THEN [timer[i] EXCEPT !.left = @ - d] ELSE timer[i]]

Executed(passed) ==
    LET due[n \in 0 .. TimerNums] ==
          IF n = 0 THEN [timer |-> passed, irqs |-> {}, lost |-> {}] ELSE Overflow(due[n - 1], n - 1)
    IN  due

(* The CPUs run for d cycles, up to the next event or past it by less than *)
(* an instruction, and the hardware executes the timers that are due.      *)
Elapse(d) ==
    LET e == Executed(Passed(d))[TimerNums]
        lost == yikes \cup e.lost
    IN  /\ timer' = e.timer /\ timerIrqs' = e.irqs
        /\ yikes' = lost \cup UNION {Chain(timer, i) : i \in lost}
        /\ clock' = Ticked[d].clock /\ clockIrqs' = Ticked[d].irqs

TimersNext ==
    \/ \E i \in Timer, mode \in Modes16 : write_timer(i, TRUE, mode)
    \/ \E i \in Timer : write_timer(i, FALSE, timer[i].mode)
    \/ \E i \in Timer : WriteReload(i)
    \/ \E d \in 1 .. MaxLate : Elapse(d)

TimersSpec == TimersInit /\ [][TimersNext]_timerVars

-----------------------------------------------------------------------------
TimersTypeOK ==
    /\ timer \in [Timer -> [on : BOOLEAN, mode : Modes16, irq : BOOLEAN, reload : 0 .. Values - 1,
                            value : 0 .. Values - 1, left : Nat]]
    /\ \A i \in Timer : timer[i].left <= Values * timer[i].mode
    /\ clock \in [Timer -> [count : 0 .. Values - 1, sub : Int]]
    /\ timerIrqs \subseteq Timer /\ clockIrqs \subseteq Timer /\ yikes \subseteq Timer

(* What a timer shows in the very cycle of a tick: one that counts cycles  *)
(* (but not at 0) still shows the value before it.                         *)
Shown(c) == IF c.sub = 0 /\ c.count # 0 THEN c.count - 1 ELSE c.count

(* What software reads is what a counter stepped every cycle would show,   *)
(* although overflows are handled late, reloads change under way and       *)
(* timers are stopped and chained: except for a chain whose first timer is *)
(* faster than an instruction ("yikes").  And the timers that overflow and *)
(* ask for it interrupt, no others, the chained ones too.                  *)
TimersExact ==
    /\ \A i \in Timer \ yikes : read_timer(timer[i]) = Shown(clock[i])
    /\ timerIrqs \ yikes = clockIrqs \ yikes
=============================================================================
