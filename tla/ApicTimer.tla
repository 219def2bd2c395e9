----------------------------- MODULE ApicTimer -----------------------------
(***************************************************************************)
(* The APIC timer as the guest sees it (apic.c): no countdown runs, the    *)
(* current count is computed from the time of the host when it is read.    *)
(* Time is counted in units of 10 ns, the period of the undivided timer.   *)
(*                                                                         *)
(* Beside the registers runs the timer the guest believes in: a count that *)
(* goes down by one every Period(timer_dcr) units.  The code has no such    *)
(* thing; the model compares what it returns with it.                      *)
(***************************************************************************)
EXTENDS Integers

CONSTANTS
    Counts,   \* values the guest writes to the initial count register
    Dcrs,     \* values the guest writes to the divide configuration register
    MaxNow    \* bound on the time of the host

ASSUME TimerAssumption == Counts \subseteq Nat /\ Dcrs \subseteq 0 .. 15 /\ MaxNow \in Nat \ {0}

VARIABLES
    now,        \* ktime_get_ns
    timer_icr, timer_start, timer_dcr, timer_mode,
    count,      \* the timer that runs: its current count,
    phase,      \* the units since it last counted,
    steady      \* only time has passed since it was armed, in a mode that counts

running == <<count, phase, steady>>
timerVars == <<now, timer_icr, timer_start, timer_dcr, timer_mode, running>>

Modes == {"ONESHOT", "PERIODIC", "TSC_DEADLINE"}

\* Type invariant. The divide register never has bit 2, which the code drops.
TimerTypeOK ==
    /\ now \in 1 .. MaxNow
    /\ timer_icr \in Counts \cup {0} /\ timer_start \in 0 .. now
    /\ timer_dcr \in {0, 1, 2, 3, 8, 9, 10, 11} /\ timer_mode \in Modes
    /\ count \in Nat /\ phase \in Nat /\ steady \in BOOLEAN

TimerInit ==
    /\ now = 1 /\ timer_icr = 0 /\ timer_start = 0
    /\ timer_dcr = 11 /\ timer_mode = "ONESHOT"
    /\ count = 0 /\ phase = 0 /\ steady = TRUE

----------------------------------------------------------------------------
(* The timer that runs. *)

\* It counts every 2^(b+1) units, where bits 3, 1 and 0 of the register are
\* the number b, or every unit when they are all 1.
Period(d) == LET b == (d \div 8) * 4 + (d % 4) IN IF b = 7 THEN 1 ELSE 2 ^ (b + 1)

\* One unit of time: at the end of a period the count goes down, and from 1
\* to the initial count again in periodic mode.
Run ==
    /\ IF count = 0 \/ phase + 1 < Period(timer_dcr)
       THEN /\ phase' = IF count = 0 THEN phase ELSE phase + 1
            /\ count' = count
       ELSE /\ phase' = 0
            /\ count' = IF count = 1 /\ timer_mode = "PERIODIC" THEN timer_icr ELSE count - 1
    /\ steady' = steady

\* Writing the initial count starts it; in TSC-deadline mode it is ignored.
Arm(n) ==
    /\ count' = IF timer_mode = "TSC_DEADLINE" THEN 0 ELSE n
    /\ phase' = 0
    /\ steady' = (n = 0 \/ timer_mode # "TSC_DEADLINE")

\* Another divider or mode applies from here on.  A change to or from
\* TSC-deadline mode disarms it.
Reprogram(changed, disarm) ==
    /\ count' = IF disarm THEN 0 ELSE count
    /\ phase' = phase
    /\ steady' = (steady /\ (changed => timer_icr = 0))

----------------------------------------------------------------------------
\* Mutant: a row of the table is wrong.
divisor_Mut(d) ==
    CASE d = 0 -> 4 [] d = 1 -> 4 [] d = 2 -> 8 [] d = 3 -> 16
      [] d = 8 -> 32 [] d = 9 -> 64 [] d = 10 -> 128 [] OTHER -> 1

divisor(d) ==
    CASE d = 0 -> 2 [] d = 1 -> 4 [] d = 2 -> 8 [] d = 3 -> 16
      [] d = 8 -> 32 [] d = 9 -> 64 [] d = 10 -> 128 [] OTHER -> 1

relm_apic_get_timer_ccr(icr, start, t, dcr, mode) ==
    LET ticks == (t - start) \div divisor(dcr)
    IN  IF icr = 0 \/ start = 0 THEN 0
        ELSE IF mode = "PERIODIC" THEN icr - (ticks % icr)
        ELSE IF ticks >= icr THEN 0 ELSE icr - ticks

Ccr == relm_apic_get_timer_ccr(timer_icr, timer_start, now, timer_dcr, timer_mode)

Tick ==
    /\ now < MaxNow
    /\ now' = now + 1
    /\ Run
    /\ UNCHANGED <<timer_icr, timer_start, timer_dcr, timer_mode>>

WriteTimerIcr(n) ==
    /\ timer_icr' = n
    /\ timer_start' = IF n # 0 THEN now ELSE 0
    /\ Arm(n)
    /\ UNCHANGED <<now, timer_dcr, timer_mode>>

\* Bit 2 is dropped.
WriteTimerDcr(d) ==
    /\ timer_dcr' = (IF d >= 8 THEN 8 ELSE 0) + (d % 4)
    /\ Reprogram(timer_dcr' # timer_dcr, FALSE)
    /\ UNCHANGED <<now, timer_icr, timer_start, timer_mode>>

WriteLvtTimer(m) ==
    /\ timer_mode' = m
    /\ Reprogram(m # timer_mode, m # timer_mode /\ "TSC_DEADLINE" \in {m, timer_mode})
    /\ UNCHANGED <<now, timer_icr, timer_start, timer_dcr>>

TimerNext ==
    \/ Tick
    \/ \E n \in Counts \cup {0} : WriteTimerIcr(n)
    \/ \E d \in Dcrs : WriteTimerDcr(d)
    \/ \E m \in Modes : WriteLvtTimer(m)

TimerSpec == TimerInit /\ [][TimerNext]_timerVars

----------------------------------------------------------------------------
(* Properties. *)

\* What the guest reads is the count of the timer that runs, as long as nobody
\* changed its divider or its mode since it was armed: no tick is lost, gained
\* or taken twice at the end of a period, at zero or at a reload, and a write
\* of 0 stops it (relm_apic_get_timer_ccr against the writes of ICR).
CountIsExact == steady => Ccr = count

----------------------------------------------------------------------------
(* A claim of a comment that the code does not meet. *)

\* apic.c:715 "One-shot mode counts down and clamps at 0": until the initial
\* count is written again the count of a one-shot timer never rises.  A new
\* divider applies to the time already counted, so that it can.
OneShotCountsDown ==
    [][timer_mode = "ONESHOT" /\ (Tick \/ \E d \in Dcrs : WriteTimerDcr(d)) => Ccr' <= Ccr]_timerVars

=============================================================================
