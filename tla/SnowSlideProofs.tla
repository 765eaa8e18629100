-------------------------- MODULE SnowSlideProofs --------------------------
(***************************************************************************)
(* Proofs about the overload guard, for every number of requests, every    *)
(* limit and every span of the clock.                                      *)
(***************************************************************************)
EXTENDS SnowSlide, TLAPS

USE DEF Seconds

(* Type correctness: the fields of SnowSlide and the locals of Check keep   *)
(* their types in every interleaving of Check.                              *)
THEOREM TypeCorrect == Spec => []TypeOK
<1>1. Init => TypeOK
  BY MaxTimeAssumption DEF Init, TypeOK
<1>2. TypeOK /\ [Next]_vars => TypeOK'
  <2> SUFFICES ASSUME TypeOK, [Next]_vars PROVE TypeOK'
    OBVIOUS
  <2> USE LimitCntAssumption, MaxTimeAssumption DEF TypeOK
  <2>1. ASSUME NEW p \in Procs, Enter(p) PROVE TypeOK'
    <3>1. pc' \in [Procs -> {"idle", "lock", "admitted", "denied"}]
      BY <2>1 DEF Enter
    <3>2. timeNow' \in [Procs -> 0 .. MaxTime]
      <4>1. ClockReading \in 0 .. MaxTime
        BY DEF ClockReading
      <4> QED
        BY <2>1, <4>1 DEF Enter
    <3>3. ASSUME NEW q \in Procs, pc'[q] = "lock" PROVE timeNow'[q] \in Seconds
      <4>1. CASE q = p
        BY <2>1, <3>3, <4>1 DEF Enter, ClockReading
      <4>2. CASE q # p
        BY <2>1, <3>3, <4>2 DEF Enter
      <4> QED
        BY <4>1, <4>2
    <3> QED
      BY <2>1, <3>1, <3>2, <3>3 DEF Enter
  <2>2. ASSUME NEW p \in Procs, OpenWindow(p) PROVE TypeOK'
    BY <2>2 DEF OpenWindow, Admit, FirstCount
  <2>3. ASSUME NEW p \in Procs, Deny(p) PROVE TypeOK'
    BY <2>3 DEF Deny
  <2>4. ASSUME NEW p \in Procs, CountInWindow(p) PROVE TypeOK'
    <3>1. curTime \in Seconds
      BY <2>4 DEF CountInWindow, WindowIsOver
    <3> QED
      BY <2>4, <3>1 DEF CountInWindow, Admit
  <2>5. ASSUME NEW p \in Procs, Return(p) PROVE TypeOK'
    BY <2>5 DEF Return
  <2>6. CASE ClockTick
    BY <2>6 DEF ClockTick
  <2>7. CASE ClockStepBack
    BY <2>7 DEF ClockStepBack
  <2>8. CASE UNCHANGED vars
    BY <2>8 DEF vars
  <2> QED
    BY <2>1, <2>2, <2>3, <2>4, <2>5, <2>6, <2>7, <2>8 DEF Next, Check
<1> QED
  BY <1>1, <1>2, PTL DEF Spec

(* The counter is exact and no window is over its limit: the inductive      *)
(* invariant. CounterIsExact carries WindowLimit through CountInWindow,     *)
(* whose guard speaks of curCount and not of the window it admits into.     *)
THEOREM Inductive == Spec => []IInv
<1>1. Init => CounterIsExact /\ WindowLimit
  BY LimitCntAssumption, MaxTimeAssumption DEF Init, CounterIsExact, WindowLimit
<1>2. TypeOK /\ CounterIsExact /\ WindowLimit /\ [Next]_vars
        => CounterIsExact' /\ WindowLimit'
  <2> SUFFICES ASSUME TypeOK, CounterIsExact, WindowLimit, [Next]_vars
               PROVE CounterIsExact' /\ WindowLimit'
    OBVIOUS
  <2> USE LimitCntAssumption, MaxTimeAssumption
  <2>1. ASSUME NEW p \in Procs, OpenWindow(p)
        PROVE CounterIsExact' /\ WindowLimit'
    <3>1. timeNow[p] \in Seconds /\ timeNow[p] > curTime
      BY <2>1 DEF OpenWindow, WindowIsOver, TypeOK
    <3>2. curTime' = timeNow[p] /\ curCount' = 1
      BY <2>1 DEF OpenWindow, FirstCount
    <3>3. admitted' = [admitted EXCEPT ![timeNow[p]] = @ + 1]
      BY <2>1 DEF OpenWindow, Admit
    <3>4. admitted[timeNow[p]] = 0
      BY <3>1 DEF CounterIsExact
    <3>5. CounterIsExact'
      BY <3>1, <3>2, <3>3, <3>4 DEF CounterIsExact, TypeOK
    <3>6. WindowLimit'
      BY <3>1, <3>3, <3>4 DEF WindowLimit, TypeOK
    <3> QED
      BY <3>5, <3>6
  <2>2. ASSUME NEW p \in Procs, CountInWindow(p)
        PROVE CounterIsExact' /\ WindowLimit'
    <3>1. curTime \in Seconds
      BY <2>2 DEF CountInWindow, WindowIsOver, TypeOK
    <3>2. curTime' = curTime /\ curCount' = curCount + 1 /\ curCount < LimitCnt
      BY <2>2 DEF CountInWindow, WindowIsFull, TypeOK
    <3>3. admitted' = [admitted EXCEPT ![curTime] = @ + 1]
      BY <2>2 DEF CountInWindow, Admit
    <3>4. curCount = admitted[curTime]
      BY <3>1 DEF CounterIsExact
    <3>5. CounterIsExact'
      BY <3>1, <3>2, <3>3, <3>4 DEF CounterIsExact, TypeOK
    <3>6. WindowLimit'
      BY <3>1, <3>2, <3>3, <3>4 DEF WindowLimit, TypeOK
    <3> QED
      BY <3>5, <3>6
  <2>3. CASE UNCHANGED <<curTime, curCount, admitted>>
    BY <2>3 DEF CounterIsExact, WindowLimit
  <2> QED
    BY <2>1, <2>2, <2>3 DEF Next, Check, Enter, Deny, Return,
       ClockTick, ClockStepBack, vars
<1> QED
  BY <1>1, <1>2, TypeCorrect, PTL DEF Spec, IInv

(* curCount is always the number of requests admitted in window curTime,    *)
(* and no later window has admitted any.                                    *)
THEOREM CounterStaysExact == Spec => []CounterIsExact
<1>1. IInv => CounterIsExact
  BY DEF IInv
<1> QED
  BY <1>1, Inductive, PTL

(* No window of the guard ever admits more than LimitCnt requests, for any  *)
(* number of concurrent calls of Check and any jump of the clock.           *)
THEOREM WindowLimitHolds == Spec => []WindowLimit
<1>1. IInv => WindowLimit
  BY DEF IInv
<1> QED
  BY <1>1, Inductive, PTL

(* In a state of the inductive invariant, a request that finds the guard    *)
(* full is denied by a real window that has admitted exactly LimitCnt.      *)
LEMMA FullWindowIsReal ==
  ASSUME IInv, NEW p \in Procs, Deny(p), LimitCnt > 0
  PROVE  curTime \in Seconds /\ admitted[curTime] = LimitCnt
<1> USE LimitCntAssumption, MaxTimeAssumption
<1>1. timeNow[p] \in Seconds /\ ~(timeNow[p] > curTime) /\ curCount >= LimitCnt
  BY DEF Deny, WindowIsOver, WindowIsFull, IInv, TypeOK
<1>2. curTime \in Seconds
  BY <1>1 DEF IInv, TypeOK
<1>3. curCount = admitted[curTime]
  BY <1>2 DEF IInv, CounterIsExact
<1>4. admitted[curTime] <= LimitCnt /\ admitted[curTime] \in Nat
  BY <1>2 DEF IInv, WindowLimit, TypeOK
<1> QED
  BY <1>1, <1>2, <1>3, <1>4

(* A request only waits for the mutex when the guard is on.                 *)
LEMMA LockOnlyWhenOn ==
  Spec => [](\A p \in Procs : pc[p] \in {"lock", "denied"} => LimitCnt > 0)
<1> DEFINE P == \A p \in Procs : pc[p] \in {"lock", "denied"} => LimitCnt > 0
<1>1. Init => P
  BY DEF Init
<1>2. TypeOK /\ P /\ [Next]_vars => P'
  BY LimitCntAssumption DEF TypeOK, Next, Check, Enter, OpenWindow, Deny,
     CountInWindow, Return, Admit, ClockTick, ClockStepBack, vars, GuardIsOff
<1> QED
  BY <1>1, <1>2, TypeCorrect, PTL DEF Spec

(* Check turns a request away only when the window it would be counted in   *)
(* has admitted LimitCnt requests.                                          *)
THEOREM DenialsAreJustified == Spec => DeniedOnlyWhenFull
<1> DEFINE P == \A p \in Procs : pc[p] \in {"lock", "denied"} => LimitCnt > 0
<1>1. IInv /\ P /\ [Next]_vars => [DenyOnlyWhenFull]_vars
  <2> SUFFICES ASSUME IInv, P, [Next]_vars, NEW p \in Procs,
                      pc[p] = "lock", pc'[p] = "denied"
               PROVE  curTime \in Seconds /\ admitted[curTime] = LimitCnt
    BY DEF DenyOnlyWhenFull
  <2>1. Deny(p)
    BY DEF IInv, TypeOK, Next, Check, Enter, OpenWindow, Deny,
       CountInWindow, Return, Admit, ClockTick, ClockStepBack, vars
  <2> QED
    BY <2>1, FullWindowIsReal
<1> QED
  BY <1>1, Inductive, LockOnlyWhenOn, PTL DEF Spec, DeniedOnlyWhenFull

(* The guard implements the quota it promises: seen through the answers of  *)
(* Check, every step of the concurrent code is a step of Quota or none.     *)
THEOREM GuardImplementsQuota == LimitCnt > 0 => (Spec => ImplementsQuota)
<1> SUFFICES ASSUME LimitCnt > 0 PROVE Spec => ImplementsQuota
  OBVIOUS
<1> USE LimitCntAssumption, MaxTimeAssumption
<1>1. Init => PerWindowQuota!Init
  BY DEF Init, PerWindowQuota!Init, Verdict
<1>2. IInv /\ [Next]_vars => [PerWindowQuota!Next]_(PerWindowQuota!vars)
  <2> SUFFICES ASSUME IInv, [Next]_vars
               PROVE  PerWindowQuota!Next \/ UNCHANGED PerWindowQuota!vars
    OBVIOUS
  <2> USE DEF IInv, TypeOK
  <2>1. ASSUME NEW p \in Procs, OpenWindow(p)
        PROVE  PerWindowQuota!GrantInNewWindow(p)
    <3>1. timeNow[p] \in Seconds /\ timeNow[p] > curTime /\ curTime' = timeNow[p]
      BY <2>1 DEF OpenWindow, WindowIsOver
    <3>2. Verdict[p] = "none" /\ Verdict' = [Verdict EXCEPT ![p] = "admitted"]
      BY <2>1 DEF OpenWindow, Admit, Verdict
    <3>3. admitted[timeNow[p]] < LimitCnt
      BY <3>1 DEF CounterIsExact
    <3>4. admitted' = [admitted EXCEPT ![timeNow[p]] = @ + 1]
      BY <2>1 DEF OpenWindow, Admit
    <3> QED
      BY <3>1, <3>2, <3>3, <3>4 DEF PerWindowQuota!GrantInNewWindow, PerWindowQuota!Grant
  <2>2. ASSUME NEW p \in Procs, CountInWindow(p)
        PROVE  PerWindowQuota!GrantInWindow(p)
    <3>1. curTime \in Seconds /\ curTime' = curTime
      BY <2>2 DEF CountInWindow, WindowIsOver
    <3>2. Verdict[p] = "none" /\ Verdict' = [Verdict EXCEPT ![p] = "admitted"]
      BY <2>2 DEF CountInWindow, Admit, Verdict
    <3>3. admitted[curTime] < LimitCnt
      BY <2>2, <3>1 DEF CountInWindow, WindowIsFull, CounterIsExact
    <3>4. admitted' = [admitted EXCEPT ![curTime] = @ + 1]
      BY <2>2 DEF CountInWindow, Admit
    <3> QED
      BY <3>1, <3>2, <3>3, <3>4 DEF PerWindowQuota!GrantInWindow, PerWindowQuota!Grant
  <2>3. ASSUME NEW p \in Procs, Deny(p)
        PROVE  PerWindowQuota!Deny(p)
    <3>1. curTime \in Seconds /\ admitted[curTime] = LimitCnt
      BY <2>3, FullWindowIsReal
    <3>2. Verdict[p] = "none" /\ Verdict' = [Verdict EXCEPT ![p] = "denied"]
      BY <2>3 DEF Deny, Verdict
    <3> QED
      BY <2>3, <3>1, <3>2 DEF PerWindowQuota!Deny, Deny
  <2>4. ASSUME NEW p \in Procs, Return(p)
        PROVE  PerWindowQuota!Forget(p)
    BY <2>4 DEF Return, PerWindowQuota!Forget, Verdict
  <2>5. ASSUME NEW p \in Procs, Enter(p)
        PROVE  UNCHANGED PerWindowQuota!vars
    BY <2>5 DEF Enter, GuardIsOff, PerWindowQuota!vars, Verdict
  <2>6. CASE ClockTick \/ ClockStepBack \/ UNCHANGED vars
    BY <2>6 DEF ClockTick, ClockStepBack, vars, PerWindowQuota!vars, Verdict
  <2> QED
    BY <2>1, <2>2, <2>3, <2>4, <2>5, <2>6 DEF Next, Check, PerWindowQuota!Next
<1> QED
  BY <1>1, <1>2, Inductive, PTL DEF Spec, ImplementsQuota, PerWindowQuota!Spec
=============================================================================
