------------------------------ MODULE Wrapper ------------------------------
(***************************************************************************)
(* The life of a request under wrap.Wrapper.Wrap: the overload guard       *)
(* (module SnowSlide, instantiated), the wrapped function, the report to   *)
(* the monitor, and the deferred function that recovers from a panic and   *)
(* writes the answer. Requests run concurrently and share the guard.       *)
(*                                                                         *)
(* An error is a code.Error: made with an mcode, or with a number only, in *)
(* which case its Mcode() is empty and the answer says PREFIX_number.      *)
(***************************************************************************)
EXTENDS Integers, Sequences, FiniteSets

CONSTANTS
    Requests,               \* the requests, each served once
    SnowSlideLimit,         \* Option.SnowSlideLimit
    DefaultSnowSlideLimit,  \* wrap.DefaultSnowSlideLimit
    ReturnNilDataHijack,    \* wrap.ReturnNilDataHijack
    MaxTime, ClockSetBack   \* of the guard

ASSUME LimitsAssumption ==
    SnowSlideLimit \in Int /\ DefaultSnowSlideLimit \in Nat \ {0}
ASSUME HijackAssumption == ReturnNilDataHijack \in BOOLEAN
ASSUME ClockAssumption == MaxTime \in Nat \ {0} /\ ClockSetBack \in BOOLEAN

Errors == {"denied", "mcode", "number", "internal"}
NoError == "none"

(* What Mcode() returns for each error, and what the answer says. *)
Mcode == [denied |-> "SNOWSLIDE_DENIED", mcode |-> "BUSINESS", number |-> "", internal |-> ""]
PrefixedCode == [number |-> "PREFIX_NUMBER", internal |-> "PREFIX_100000000"]

(* What the wrapped function may return without an error. *)
Data == {"nil", "data", "hijacked"}

VARIABLES
    now, curTime, curCount, pc, timeNow, admitted,  \* of the guard
    stage,      \* where each request is in Wrap
    data, cerr, \* the locals of Wrap
    panicking,  \* a panic is on its way to the deferred function
    answers,    \* the answers each request has had, in order
    reported,   \* what was reported to the monitor for it
    handled     \* history: requests whose wrapped function was called

guardVars == <<now, curTime, curCount, pc, timeNow, admitted>>
vars == <<guardVars, stage, data, cerr, panicking, answers, reported, handled>>

----------------------------------------------------------------------------
(* Plausible slips of the code, each the twin of the definition it names.  *)

RunsAnyway(r) == TRUE                                       \* MayRun
WritesAlways(r) == TRUE                                     \* WritesAnswer
ReportIgnoresError(r) == [ok |-> TRUE, code |-> ""]         \* ReportOf
WritesOnlyErrors(r) == panicking[r] # NoError \/ cerr[r] # NoError  \* WritesAnswer
LimitOneMore == SnowSlideLimit + 1                          \* LimitCnt

----------------------------------------------------------------------------
(* wrap.New: a limit that is not positive becomes the default one. *)
LimitCnt == IF SnowSlideLimit <= 0 THEN DefaultSnowSlideLimit ELSE SnowSlideLimit

Guard == INSTANCE SnowSlide WITH Procs <- Requests, LimitCnt <- LimitCnt

Init ==
    /\ Guard!Init
    /\ stage = [r \in Requests |-> "new"]
    /\ data = [r \in Requests |-> "nil"]
    /\ cerr = [r \in Requests |-> NoError]
    /\ panicking = [r \in Requests |-> NoError]
    /\ answers = [r \in Requests |-> <<>>]
    /\ reported = [r \in Requests |-> <<>>]
    /\ handled = {}

GoTo(r, s) == stage' = [stage EXCEPT ![r] = s]

(* The guard is asked first, and takes its steps in SnowSlide.Check. *)
CheckOverload(r) ==
    /\ stage[r] = "new"
    /\ Guard!Check(r)
    /\ UNCHANGED <<stage, data, cerr, panicking, answers, reported, handled>>

MayRun(r) == pc[r] = "admitted"

(* A denied request keeps the guard's error and skips the wrapped function. *)
TakeVerdict(r) ==
    /\ stage[r] = "new"
    /\ Guard!Return(r)
    /\ cerr' = [cerr EXCEPT ![r] = IF pc[r] = "denied" THEN "denied" ELSE NoError]
    /\ IF MayRun(r)
       THEN GoTo(r, "run") /\ handled' = handled \cup {r}
       ELSE GoTo(r, "report") /\ UNCHANGED handled
    /\ UNCHANGED <<data, panicking, answers, reported>>

(* The wrapped function is application code. One that hijacks the response, *)
(* or returns nil where that means the same, says that it has answered.     *)
OwnsAnswer(d) == d = "hijacked" \/ (d = "nil" /\ ReturnNilDataHijack)

(* Whether it really has is its own affair: it is handed the gin context,   *)
(* and may write to it or not, whatever it does or returns then.            *)
OwnAnswer == [by |-> "handler", result |-> TRUE, mcode |-> ""]

MayWrite(r) == \E own \in {<<>>, <<OwnAnswer>>} : answers' = [answers EXCEPT ![r] = @ \o own]

HandlerSucceeds(r) ==
    /\ stage[r] = "run"
    /\ MayWrite(r)
    /\ \E d \in Data : data' = [data EXCEPT ![r] = d]
    /\ cerr' = [cerr EXCEPT ![r] = NoError]
    /\ GoTo(r, "report")
    /\ UNCHANGED <<guardVars, panicking, reported, handled>>

HandlerFails(r) ==
    /\ stage[r] = "run"
    /\ MayWrite(r)
    /\ \E d \in Data : data' = [data EXCEPT ![r] = d]
    /\ \E e \in {"mcode", "number"} : cerr' = [cerr EXCEPT ![r] = e]
    /\ GoTo(r, "report")
    /\ UNCHANGED <<guardVars, panicking, reported, handled>>

(* A panic with a code.Error keeps it, any other becomes an internal error; *)
(* the report is skipped on the way to the deferred function.               *)
HandlerPanics(r) ==
    /\ stage[r] = "run"
    /\ MayWrite(r)
    /\ \E e \in {"mcode", "number", "internal"} :
        panicking' = [panicking EXCEPT ![r] = e]
    /\ GoTo(r, "deferred")
    /\ UNCHANGED <<guardVars, data, cerr, reported, handled>>

(* reportProcessResultToMonitor, with the monitor enabled. *)
ReportOf(r) ==
    IF cerr[r] = NoError
    THEN [ok |-> TRUE, code |-> ""]
    ELSE [ok |-> FALSE, code |-> Mcode[cerr[r]]]

ReportToMonitor(r) ==
    /\ stage[r] = "report"
    /\ reported' = [reported EXCEPT ![r] = Append(@, ReportOf(r))]
    /\ GoTo(r, "deferred")
    /\ UNCHANGED <<guardVars, data, cerr, panicking, answers, handled>>

(* The deferred function: recover, then answer unless the handler says it   *)
(* has. What the handler did write before is not looked at.                 *)
FinalError(r) == IF panicking[r] # NoError THEN panicking[r] ELSE cerr[r]

WritesAnswer(r) == FinalError(r) # NoError \/ ~OwnsAnswer(data[r])

AnswerOf(e) ==
    IF e = NoError
    THEN [by |-> "wrapper", result |-> TRUE, mcode |-> ""]
    ELSE [by |-> "wrapper", result |-> FALSE,
          mcode |-> IF Mcode[e] # "" THEN Mcode[e] ELSE PrefixedCode[e]]

Deferred(r) ==
    /\ stage[r] = "deferred"
    /\ cerr' = [cerr EXCEPT ![r] = FinalError(r)]
    /\ panicking' = [panicking EXCEPT ![r] = NoError]
    /\ answers' = [answers EXCEPT ![r] =
            IF WritesAnswer(r) THEN Append(@, AnswerOf(FinalError(r))) ELSE @]
    /\ GoTo(r, "done")
    /\ UNCHANGED <<guardVars, data, reported, handled>>

Clock ==
    /\ Guard!ClockTick \/ Guard!ClockStepBack
    /\ UNCHANGED <<stage, data, cerr, panicking, answers, reported, handled>>

Serve(r) ==
    \/ CheckOverload(r) \/ TakeVerdict(r)
    \/ HandlerSucceeds(r) \/ HandlerFails(r) \/ HandlerPanics(r)
    \/ ReportToMonitor(r) \/ Deferred(r)

Next == (\E r \in Requests : Serve(r)) \/ Clock

Spec == Init /\ [][Next]_vars

(* Goroutines run; so does application code, which returns or panics. *)
FairSpec == Spec /\ \A r \in Requests : WF_vars(Serve(r))

----------------------------------------------------------------------------
Done(r) == stage[r] = "done"
LastAnswer(r) == answers[r][Len(answers[r])]

(* A wrapped function that took the answer upon itself, and one that wrote.   *)
Hijacked(r) == cerr[r] = NoError /\ OwnsAnswer(data[r])
Wrote(r) == \E k \in DOMAIN answers[r] : answers[r][k].by = "handler"

(* A request gets one answer if, and only if, the wrapped function does as it *)
(* says: it writes when it hijacks the response and not otherwise. A denied   *)
(* request gets one; a function that writes and then fails, panics or returns *)
(* data makes two bodies, one that hijacks and writes nothing makes none.     *)
AnsweredOnce ==
    \A r \in Requests : Done(r) => (Len(answers[r]) = 1 <=> (Wrote(r) <=> Hijacked(r)))

(* The monitor is told what the client is told last about a request: one     *)
(* report of success or of failure, with the code of that answer or, for an  *)
(* error made with a number, none; success where the answer is left to the   *)
(* wrapped function. Only one that panicked goes unreported.                 *)
FinalAnswer(r) == IF Hijacked(r) THEN OwnAnswer ELSE LastAnswer(r)

ReportAgreesWithAnswer ==
    \A r \in Requests : Done(r) =>
        \/ /\ Len(reported[r]) = 1
           /\ reported[r][1].ok = FinalAnswer(r).result
           /\ reported[r][1].code \in {FinalAnswer(r).mcode, ""}
        \/ Len(reported[r]) = 0 /\ ~FinalAnswer(r).result /\ r \in handled

(* The admissions of the guard, one pair for each that a window counts, and  *)
(* the requests that have one: those still to be told, and those whose       *)
(* wrapped function was called.                                              *)
Admissions == UNION {{w} \X (1 .. admitted[w]) : w \in 1 .. MaxTime}
LetThrough == handled \cup {r \in Requests : pc[r] = "admitted"}

(* The wrapped function is called for the requests the guard admitted and    *)
(* for no other, so the limit of a window bounds what reaches it.            *)
OnlyAdmittedRun == Cardinality(LetThrough) = Cardinality(Admissions)

(* No window lets more requests reach the wrapped function than the limit    *)
(* that the option asks for.                                                 *)
OptionLimitsWindow ==
    SnowSlideLimit > 0 => \A w \in 1 .. MaxTime : admitted[w] <= SnowSlideLimit

(* Every request is answered in the end, unless the wrapped function took    *)
(* that upon itself.                                                         *)
EveryoneAnswered == \A r \in Requests : <>(Done(r) /\ (answers[r] # <<>> \/ Hijacked(r)))

(* The locals of Wrap keep their types, and only a request on its way to the *)
(* deferred function carries a panic.                                        *)
TypeOK ==
    /\ Guard!TypeOK
    /\ stage \in [Requests -> {"new", "run", "report", "deferred", "done"}]
    /\ data \in [Requests -> Data]
    /\ cerr \in [Requests -> Errors \cup {NoError}]
    /\ panicking \in [Requests -> Errors \cup {NoError}]
    /\ \A r \in Requests : panicking[r] # NoError => stage[r] = "deferred" /\ cerr[r] = NoError
    /\ handled \subseteq Requests
=============================================================================
