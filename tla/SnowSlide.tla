----------------------------- MODULE SnowSlide -----------------------------
(***************************************************************************)
(* The overload guard of the request wrapper, wrap.SnowSlide: requests     *)
(* call Check concurrently, Check reads the wall clock BEFORE it takes the *)
(* mutex, and then counts the request in the window of the latest second   *)
(* seen so far.                                                            *)
(*                                                                         *)
(* All accesses to curTime and curCount are inside one critical section,   *)
(* so the section is one step; the clock read is a step of its own, and    *)
(* any number of seconds and of other requests may come between the two.   *)
(***************************************************************************)
EXTENDS Integers

CONSTANTS
    Procs,          \* the requests in flight at the same time
    LimitCnt,       \* SnowSlide.LimitCnt: <= 0 turns the guard off
    MaxTime,        \* bound: the last second the clock reaches
    ClockSetBack    \* TRUE: the wall clock may also be set back

ASSUME LimitCntAssumption == LimitCnt \in Int
ASSUME MaxTimeAssumption == MaxTime \in Nat \ {0}
ASSUME ClockSetBackAssumption == ClockSetBack \in BOOLEAN

Seconds == 1 .. MaxTime

VARIABLES
    now,        \* the wall clock, in seconds
    curTime,    \* SnowSlide.curTime, 0 before the first window
    curCount,   \* SnowSlide.curCount
    pc,         \* where each request is in Check
    timeNow,    \* the local timeNow of each request
    admitted    \* history: the requests admitted in each window

vars == <<now, curTime, curCount, pc, timeNow, admitted>>

Init ==
    /\ now = 1
    /\ curTime = 0
    /\ curCount = 0
    /\ pc = [p \in Procs |-> "idle"]
    /\ timeNow = [p \in Procs |-> 0]
    /\ admitted = [w \in Seconds |-> 0]

----------------------------------------------------------------------------
(* Plausible slips of the code, each the twin of the definition it names;  *)
(* no definition of the specification uses them.                           *)

WindowIsOverIfDifferent(t) == t # curTime       \* WindowIsOver
WindowIsFullOneEarly == curCount + 1 >= LimitCnt \* WindowIsFull
ClockReadingOneEarly == now - 1                 \* ClockReading

----------------------------------------------------------------------------
(* The tests and the values of Check. *)

GuardIsOff == LimitCnt <= 0
ClockReading == now
WindowIsOver(t) == t > curTime
WindowIsFull == curCount >= LimitCnt
FirstCount == 1     \* a request that opens a window is its first

(* Admission of p in window w, which is then counted. *)
Admit(p, w) ==
    /\ pc' = [pc EXCEPT ![p] = "admitted"]
    /\ admitted' = [admitted EXCEPT ![w] = @ + 1]

(* With the guard off the request is admitted and nothing else is touched; *)
(* otherwise the clock is read, before the mutex is taken.                 *)
Enter(p) ==
    /\ pc[p] = "idle"
    /\ IF GuardIsOff
       THEN /\ pc' = [pc EXCEPT ![p] = "admitted"]
            /\ UNCHANGED timeNow
       ELSE /\ pc' = [pc EXCEPT ![p] = "lock"]
            /\ timeNow' = [timeNow EXCEPT ![p] = ClockReading]
    /\ UNCHANGED <<now, curTime, curCount, admitted>>

OpenWindow(p) ==
    /\ pc[p] = "lock"
    /\ WindowIsOver(timeNow[p])
    /\ curTime' = timeNow[p]
    /\ curCount' = FirstCount
    /\ Admit(p, timeNow[p])
    /\ UNCHANGED <<now, timeNow>>

Deny(p) ==
    /\ pc[p] = "lock"
    /\ ~WindowIsOver(timeNow[p])
    /\ WindowIsFull
    /\ pc' = [pc EXCEPT ![p] = "denied"]
    /\ UNCHANGED <<now, curTime, curCount, timeNow, admitted>>

CountInWindow(p) ==
    /\ pc[p] = "lock"
    /\ ~WindowIsOver(timeNow[p])
    /\ ~WindowIsFull
    /\ curCount' = curCount + 1
    /\ Admit(p, curTime)
    /\ UNCHANGED <<now, curTime, timeNow>>

(* The wrapper takes the answer of Check; the next request may come. *)
Return(p) ==
    /\ pc[p] \in {"admitted", "denied"}
    /\ pc' = [pc EXCEPT ![p] = "idle"]
    /\ timeNow' = [timeNow EXCEPT ![p] = 0]
    /\ UNCHANGED <<now, curTime, curCount, admitted>>

Check(p) == Enter(p) \/ OpenWindow(p) \/ Deny(p) \/ CountInWindow(p)

----------------------------------------------------------------------------
(* The wall clock: time.Now() may jump, in either direction. *)

ClockTick ==
    /\ now < MaxTime
    /\ now' = now + 1
    /\ UNCHANGED <<curTime, curCount, pc, timeNow, admitted>>

ClockStepBack ==
    /\ ClockSetBack
    /\ now > 1
    /\ now' = now - 1
    /\ UNCHANGED <<curTime, curCount, pc, timeNow, admitted>>

Next ==
    \/ \E p \in Procs : Check(p) \/ Return(p)
    \/ ClockTick
    \/ ClockStepBack

Spec == Init /\ [][Next]_vars

----------------------------------------------------------------------------
(* The variables hold what the Go fields can hold: the counter is a real   *)
(* count, and a request in the critical section has read a real second.    *)
TypeOK ==
    /\ now \in Seconds
    /\ curTime \in 0 .. MaxTime
    /\ curCount \in Nat
    /\ pc \in [Procs -> {"idle", "lock", "admitted", "denied"}]
    /\ timeNow \in [Procs -> 0 .. MaxTime]
    /\ \A p \in Procs : pc[p] = "lock" => timeNow[p] \in Seconds
    /\ admitted \in [Seconds -> Nat]

(* No window admits more than LimitCnt requests, whatever the delay between *)
(* reading the clock and taking the mutex and wherever the clock jumps:     *)
(* Check never counts twice in a second it has left.                        *)
WindowLimit ==
    LimitCnt > 0 => \A w \in Seconds : admitted[w] <= LimitCnt

(* Check turns a request away only when the window it would be counted in   *)
(* has really admitted LimitCnt requests, never because of a counter left   *)
(* over from another second.                                                *)
DenyOnlyWhenFull ==
    \A p \in Procs :
        (pc[p] = "lock" /\ pc'[p] = "denied")
            => curTime \in Seconds /\ admitted[curTime] = LimitCnt

DeniedOnlyWhenFull == [][DenyOnlyWhenFull]_vars

(* The guard implements a quota per window: what the requests are told is   *)
(* what Quota allows, for a LimitCnt that turns the guard on.               *)
Verdict ==
    [p \in Procs |-> IF pc[p] \in {"idle", "lock"} THEN "none" ELSE pc[p]]

PerWindowQuota == INSTANCE Quota WITH
    Clients <- Procs, Windows <- Seconds, Limit <- LimitCnt,
    window <- curTime, granted <- admitted, verdict <- Verdict

ImplementsQuota == PerWindowQuota!Spec

(* The strengthening that makes WindowLimit inductive: the counter is the   *)
(* number of requests admitted in the latest window, and no later window    *)
(* has admitted anything.                                                   *)
CounterIsExact ==
    /\ curTime \in Seconds => curCount = admitted[curTime]
    /\ curTime = 0 => curCount = 0
    /\ \A w \in Seconds : w > curTime => admitted[w] = 0

IInv == TypeOK /\ CounterIsExact /\ WindowLimit
=============================================================================
