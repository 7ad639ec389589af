------------------------------- MODULE Timer -------------------------------
(***************************************************************************)
(* The timer of kernel/src/Drivers/PIT.c and the two interrupts of         *)
(* kernel/src/Core/Interrupts.c, acknowledged to the controller of         *)
(* kernel/src/Drivers/PIC.c.  One program sleeps with PIT_SleepSeconds,    *)
(* whose steps are those between which an interrupt makes a difference.    *)
(*                                                                         *)
(* Two things that the source leaves to the build are part of the model.   *)
(* kernel/Makefile compiles only Core/Interrupts.c with -mno-red-zone and  *)
(* -mgeneral-regs-only.  So PIT_SleepSeconds, which calls nothing, keeps   *)
(* its two locals below the stack pointer, where the processor stores the  *)
(* state it returns to: every interrupt overwrites them.  And the handlers *)
(* save no floating point registers, but PIT_Tick computes in them.        *)
(*                                                                         *)
(* Times are numbers in an arbitrary unit.  What the processor stores are  *)
(* small integers, which are doubles next to zero: two of them are less    *)
(* than a tick, and they vanish when added to one.                         *)
(***************************************************************************)
EXTENDS Integers, FiniteSetsExt

CONSTANTS
  TickLength,    (* what PIT_Tick adds: 1 / PIT_GetFrequency()            *)
  Overwritten,   (* what is left of a local that an interrupt overwrote   *)
  SleepTimes,    (* the seconds the program asks for                      *)
  MaxTime        (* a bound: TimeSinceBoot and elapsed stop there         *)

ASSUME TimeAssumption ==
  /\ TickLength \in Nat /\ Overwritten \in Nat \ {0} /\ 2 * Overwritten < TickLength
  /\ MaxTime \in Nat /\ TickLength <= MaxTime
  /\ SleepTimes \subseteq (0 .. MaxTime) \ {Overwritten}

VARIABLES
  TimeSinceBoot,
  sleeper,       (* where the program is in PIT_SleepSeconds              *)
  locals,        (* its startTime and seconds                             *)
  registers,     (* xmm0 and xmm1                                         *)
  pending,       (* lines raised at the controller                        *)
  inService,     (* lines delivered and not yet acknowledged              *)
  handler,       (* the handlers that run: the line of one, or none       *)
  asked,         (* history: the seconds the program asked for            *)
  elapsed,       (* history: the time since it did                        *)
  interrupted,   (* history: whether an interrupt came since it did       *)
  lost,          (* history: whether one came before the deadline         *)
  torn           (* history: whether a tick came before the comparison    *)

program    == <<sleeper, locals>>
controller == <<pending, inService, handler>>
history    == <<asked, elapsed, interrupted, lost, torn>>
timerVars  == <<TimeSinceBoot, registers, program, controller, history>>

Timer    == 0
Keyboard == 1
Lines    == {Timer, Keyboard}   (* unmasked, and with a gate *)

Bounded(time) == IF time <= MaxTime THEN time ELSE MaxTime

Plus(time, seconds) ==
  IF seconds = Overwritten /\ time >= TickLength THEN time ELSE time + seconds
-----------------------------------------------------------------------------
(***************************************************************************)
(* Interrupts.  Both gates are interrupt gates: no handler is interrupted. *)
(***************************************************************************)
Raise(line) ==
  /\ line \notin pending
  /\ pending' = pending \cup {line}
  /\ UNCHANGED <<TimeSinceBoot, registers, program, inService, handler, history>>

(* The processor pushes its state over the locals of a sleeper. *)
Push == locals' = IF sleeper = "idle" THEN locals
                  ELSE [startTime |-> Overwritten, seconds |-> Overwritten]

Deliver(line) ==
  /\ handler = {}
  /\ line \in pending \ inService
  /\ \A other \in (pending \cup inService) \ {line} : line < other
  /\ pending' = pending \ {line}
  /\ inService' = inService \cup {line}
  /\ handler' = {line}
  /\ Push
  /\ sleeper' = IF sleeper = "halted" THEN "deadline" ELSE sleeper
  /\ interrupted' = TRUE
  /\ lost' = (lost \/ sleeper \in {"start", "deadline", "halt", "halted"})
  /\ UNCHANGED <<TimeSinceBoot, registers, asked, elapsed, torn>>

(* Mutant: the end of interrupt goes elsewhere. *)
PIC_EndMaster_Missing == inService' = inService

(* PIC_EndMaster: the end of the most important line in service. *)
PIC_EndMaster == inService' = inService \ {Min(inService)}

(* Mutant: the frequency is taken for a higher one. *)
PIT_Tick_TooShort ==
  /\ TimeSinceBoot' = Bounded(TimeSinceBoot + TickLength \div 2)
  /\ registers' = [xmm0 |-> TimeSinceBoot', xmm1 |-> TickLength]

PIT_Tick ==
  /\ TimeSinceBoot' = Bounded(TimeSinceBoot + TickLength)
  /\ registers' = [xmm0 |-> TimeSinceBoot', xmm1 |-> TickLength]

PITInterrupt ==
  /\ Timer \in handler
  /\ PIT_Tick
  /\ PIC_EndMaster
  /\ handler' = {}
  /\ elapsed' = IF sleeper = "idle" THEN elapsed ELSE Bounded(elapsed + TickLength)
  /\ torn' = (torn \/ sleeper = "compare")
  /\ UNCHANGED <<program, pending, asked, interrupted, lost>>

(* What KeyboardHandler does is in Terminal; it uses no xmm register. *)
KeyInterrupt ==
  /\ Keyboard \in handler
  /\ PIC_EndMaster
  /\ handler' = {}
  /\ UNCHANGED <<TimeSinceBoot, registers, program, pending, history>>
-----------------------------------------------------------------------------
(***************************************************************************)
(* PIT_SleepSeconds.                                                       *)
(***************************************************************************)
CallSleepSeconds ==
  /\ handler = {} /\ sleeper = "idle"
  /\ \E seconds \in SleepTimes :
       /\ registers' = [registers EXCEPT !.xmm0 = seconds]
       /\ asked' = seconds
  /\ sleeper' = "store"
  /\ elapsed' = 0 /\ interrupted' = FALSE
  /\ UNCHANGED <<TimeSinceBoot, locals, controller, lost, torn>>

StoreSeconds ==
  /\ handler = {} /\ sleeper = "store"
  /\ locals' = [locals EXCEPT !.seconds = registers.xmm0]
  /\ sleeper' = "start"
  /\ lost' = FALSE
  /\ UNCHANGED <<TimeSinceBoot, registers, controller, asked, elapsed, interrupted, torn>>

StoreStartTime ==
  /\ handler = {} /\ sleeper = "start"
  /\ locals' = [locals EXCEPT !.startTime = TimeSinceBoot]
  /\ registers' = [registers EXCEPT !.xmm0 = TimeSinceBoot]
  /\ sleeper' = "deadline"
  /\ UNCHANGED <<TimeSinceBoot, controller, history>>

(* Mutant: startTime for startTime + seconds. *)
AddSeconds_Forgotten ==
  registers' = [registers EXCEPT !.xmm0 = locals.startTime]

AddSeconds ==
  registers' = [registers EXCEPT !.xmm0 = Plus(locals.startTime, locals.seconds)]

LoadDeadline ==
  /\ handler = {} /\ sleeper = "deadline"
  /\ AddSeconds
  /\ sleeper' = "time"
  /\ UNCHANGED <<TimeSinceBoot, locals, controller, history>>

LoadTime ==
  /\ handler = {} /\ sleeper = "time"
  /\ registers' = [registers EXCEPT !.xmm1 = TimeSinceBoot]
  /\ sleeper' = "compare"
  /\ torn' = FALSE
  /\ UNCHANGED <<TimeSinceBoot, locals, controller, asked, elapsed, interrupted, lost>>

(* Mutant: <= for <. *)
IsEarly_OrNot == registers.xmm1 <= registers.xmm0

IsEarly == registers.xmm1 < registers.xmm0

SleepOn ==
  /\ handler = {} /\ sleeper = "compare" /\ IsEarly
  /\ sleeper' = "halt"
  /\ UNCHANGED <<TimeSinceBoot, registers, locals, controller, history>>

Return ==
  /\ handler = {} /\ sleeper = "compare" /\ ~IsEarly
  /\ sleeper' = "idle"
  /\ UNCHANGED <<TimeSinceBoot, registers, locals, controller, history>>

Halt ==
  /\ handler = {} /\ sleeper = "halt"
  /\ sleeper' = "halted"
  /\ UNCHANGED <<TimeSinceBoot, registers, locals, controller, history>>
-----------------------------------------------------------------------------
(* After sti.  Whatever the registers and the stack hold, it is less than a tick. *)
TimerInit ==
  /\ TimeSinceBoot = 0
  /\ sleeper = "idle"
  /\ locals = [startTime |-> 0, seconds |-> 0]
  /\ registers = [xmm0 |-> 0, xmm1 |-> 0]
  /\ pending = {} /\ inService = {} /\ handler = {}
  /\ asked = 0 /\ elapsed = 0
  /\ interrupted = FALSE /\ lost = FALSE /\ torn = FALSE

Steps == StoreSeconds \/ StoreStartTime \/ LoadDeadline \/ LoadTime
         \/ SleepOn \/ Return \/ Halt

TimerNext ==
  \/ \E line \in Lines : Raise(line) \/ Deliver(line)
  \/ PITInterrupt \/ KeyInterrupt
  \/ CallSleepSeconds \/ Steps

TimerSpec == TimerInit /\ [][TimerNext]_timerVars

(***************************************************************************)
(* The processor goes on, the timer goes on raising its line, and between  *)
(* interrupts the program gets on: a handler is shorter than a tick.  Nor  *)
(* does a tick always hit the one instruction between LoadTime and the     *)
(* comparison: a return that is due again and again is taken.              *)
(***************************************************************************)
TimerFairness ==
  /\ SF_timerVars(Steps) /\ SF_timerVars(Return)
  /\ WF_timerVars(PITInterrupt \/ KeyInterrupt)
  /\ WF_timerVars(Raise(Timer)) /\ WF_timerVars(\E line \in Lines : Deliver(line))

FairTimerSpec == TimerSpec /\ TimerFairness
-----------------------------------------------------------------------------
(***************************************************************************)
(* Properties.                                                             *)
(***************************************************************************)
Times == 0 .. (2 * MaxTime)

(* Types, and: time is 0 until the first tick, and from then at least its  *)
(* length, so that an overwritten deadline is one that has passed.         *)
TimerTypeOK ==
  /\ TimeSinceBoot \in {0} \cup TickLength .. MaxTime
  /\ sleeper \in {"idle", "store", "start", "deadline", "time", "compare", "halt", "halted"}
  /\ locals \in [startTime : 0 .. MaxTime, seconds : 0 .. MaxTime]
  /\ registers \in [xmm0 : Times, xmm1 : Times]
  /\ pending \subseteq Lines /\ inService \subseteq Lines /\ handler \subseteq Lines
  /\ asked \in 0 .. MaxTime /\ elapsed \in 0 .. MaxTime
  /\ interrupted \in BOOLEAN /\ lost \in BOOLEAN /\ torn \in BOOLEAN

(* KeyInterrupt and PITInterrupt each acknowledge the line that they       *)
(* serve, with an end of interrupt that does not name it: none is left in  *)
(* service to hold back a line behind it.                                  *)
EachLineIsAcknowledged == inService = handler

(* PIT_SleepSeconds returns early only if an interrupt came since the      *)
(* call.                                                                   *)
EarlyOnlyIfInterrupted ==
  [][Return => elapsed >= asked \/ interrupted]_timerVars

(* And an interrupt does cut it short: PIT_SleepSeconds, whose locals are  *)
(* in the red zone, does not halt again after one, whatever was asked for, *)
(* but before the first tick since boot, or when a tick changes the        *)
(* registers that it is comparing.                                         *)
InterruptEndsSleep ==
  [][SleepOn /\ lost => torn \/ TimeSinceBoot = 0]_timerVars

(* PIT_SleepSeconds returns: no tick is held back by an interrupt that was *)
(* not acknowledged, and a tick between the comparison and hlt, which is   *)
(* not seen, is followed by another.                                       *)
SleepReturns == sleeper = "store" ~> sleeper = "idle"
=============================================================================
