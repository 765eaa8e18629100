-------------------------------- MODULE Call --------------------------------
(***************************************************************************)
(* What an invoke client promises for a call, with no circuit, no timer,   *)
(* no goroutine and no connection: the caller is told once whether the     *)
(* call succeeded, with a whole answer if it did, and that stays so. The   *)
(* monitor hears of every call, and what it hears last is what the caller  *)
(* is told; it may have heard of a failure before.                         *)
(***************************************************************************)
EXTENDS Sequences

CONSTANTS
    Calls,
    Answers,    \* what a successful call may bring
    NoAnswer

Verdicts == {"success", "failed"}

VARIABLES
    told,       \* "pending", or the verdict the caller was told
    answer,     \* what the caller has
    reports     \* what the monitor has heard of each call

vars == <<told, answer, reports>>

Init ==
    /\ told = [x \in Calls |-> "pending"]
    /\ answer = [x \in Calls |-> NoAnswer]
    /\ reports = [x \in Calls |-> <<>>]

(* The call is reported before the caller is told.                          *)
Report(x) ==
    /\ told[x] = "pending"
    /\ reports[x] = <<>>
    /\ \E v \in Verdicts : reports' = [reports EXCEPT ![x] = <<v>>]
    /\ UNCHANGED <<told, answer>>

Outcomes(v) == IF v = "success" THEN Answers ELSE {NoAnswer}

(* The caller is told what was reported, or what is reported now: a failure  *)
(* reported before may turn out to be an answer.                            *)
Return(x) ==
    /\ told[x] = "pending"
    /\ \E v \in Verdicts :
        /\ told' = [told EXCEPT ![x] = v]
        /\ \E a \in Outcomes(v) : answer' = [answer EXCEPT ![x] = a]
        /\ \/ reports[x] = <<v>> /\ UNCHANGED reports
           \/ /\ reports[x] \in {<<>>, <<"failed">>}
              /\ reports' = [reports EXCEPT ![x] = Append(@, v)]

Next == \E x \in Calls : Report(x) \/ Return(x)

Spec == Init /\ [][Next]_vars
=============================================================================
