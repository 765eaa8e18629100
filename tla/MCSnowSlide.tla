---------------------------- MODULE MCSnowSlide ----------------------------
(* Model-checking module of SnowSlide, with a history of its own: the       *)
(* requests admitted in each second of the wall clock, whatever window      *)
(* Check counted them in.                                                   *)
EXTENDS SnowSlide, TLC, FiniteSets

VARIABLE admittedAt     \* history: admissions during each second

mcVars == <<now, curTime, curCount, pc, timeNow, admitted, admittedAt>>

JustAdmitted == {p \in Procs : pc[p] = "lock" /\ pc'[p] = "admitted"}

MCInit == Init /\ admittedAt = [s \in Seconds |-> 0]

MCNext ==
    /\ Next
    /\ admittedAt' = [admittedAt EXCEPT ![now] = @ + Cardinality(JustAdmitted)]

MCSpec == MCInit /\ [][MCNext]_mcVars

(* wrapper.go:60 says of SnowSlideLimit that a value above zero is the      *)
(* largest number of requests within a second: counted by the clock, no     *)
(* second admits more than that.                                            *)
SecondLimit ==
    LimitCnt > 0 => \A s \in Seconds : admittedAt[s] <= LimitCnt

Symmetry == Permutations(Procs)
=============================================================================
