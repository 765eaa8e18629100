--------------------------- MODULE WrapperProofs ---------------------------
(***************************************************************************)
(* Proofs about the request wrapper, for any requests, limits and clock.   *)
(* The guard inside the wrapper takes steps of the guard only, so what     *)
(* SnowSlideProofs proves of the guard alone holds of it here.             *)
(***************************************************************************)
EXTENDS Wrapper, FiniteSetTheorems, SequenceTheorems, TLAPS

GuardProofs == INSTANCE SnowSlideProofs WITH Procs <- Requests, LimitCnt <- LimitCnt

(* The guard of a wrapper is always on.                                    *)
LEMMA LimitIsPositive == LimitCnt \in Nat \ {0}
BY LimitsAssumption DEF LimitCnt

(* The steps of the guard are those the theorems of the guard are about.   *)
LEMMA GuardSteps ==
    /\ \A r : Guard!Check(r) => GuardProofs!Check(r)
    /\ \A r : Guard!Return(r) => GuardProofs!Return(r)
    /\ Guard!ClockTick => GuardProofs!ClockTick
    /\ Guard!ClockStepBack => GuardProofs!ClockStepBack
<1>1. ASSUME NEW r, Guard!Check(r) PROVE GuardProofs!Check(r)
  <2> USE DEF GuardProofs!Check
  <2>1. CASE Guard!Enter(r)
    BY <2>1 DEF Guard!Enter, GuardProofs!Enter, Guard!GuardIsOff, GuardProofs!GuardIsOff,
                Guard!ClockReading, GuardProofs!ClockReading
  <2>2. CASE Guard!OpenWindow(r)
    BY <2>2 DEF Guard!OpenWindow, GuardProofs!OpenWindow, Guard!WindowIsOver,
                GuardProofs!WindowIsOver, Guard!FirstCount, GuardProofs!FirstCount,
                Guard!Admit, GuardProofs!Admit
  <2>3. CASE Guard!Deny(r)
    BY <2>3 DEF Guard!Deny, GuardProofs!Deny, Guard!WindowIsOver, GuardProofs!WindowIsOver,
                Guard!WindowIsFull, GuardProofs!WindowIsFull
  <2>4. CASE Guard!CountInWindow(r)
    BY <2>4 DEF Guard!CountInWindow, GuardProofs!CountInWindow, Guard!WindowIsOver,
                GuardProofs!WindowIsOver, Guard!WindowIsFull, GuardProofs!WindowIsFull,
                Guard!Admit, GuardProofs!Admit
  <2> QED
    BY <1>1, <2>1, <2>2, <2>3, <2>4 DEF Guard!Check
<1>2. ASSUME NEW r, Guard!Return(r) PROVE GuardProofs!Return(r)
  BY <1>2 DEF Guard!Return, GuardProofs!Return
<1>3. Guard!ClockTick => GuardProofs!ClockTick
  BY DEF Guard!ClockTick, GuardProofs!ClockTick
<1>4. Guard!ClockStepBack => GuardProofs!ClockStepBack
  BY DEF Guard!ClockStepBack, GuardProofs!ClockStepBack
<1> QED
  BY <1>1, <1>2, <1>3, <1>4

(* The wrapper implements the guard's specification: it calls Check for a    *)
(* request and takes its answer once, and touches the guard nowhere else.    *)
THEOREM WrapperImplementsGuard == Spec => GuardProofs!Spec
<1>1. Init => GuardProofs!Init
  BY DEF Init, Guard!Init, GuardProofs!Init, Guard!Seconds, GuardProofs!Seconds
<1>2. [Next]_vars => [GuardProofs!Next]_(GuardProofs!vars)
  <2> SUFFICES ASSUME [Next]_vars PROVE GuardProofs!Next \/ UNCHANGED GuardProofs!vars
    OBVIOUS
  <2>1. ASSUME NEW r \in Requests, CheckOverload(r) PROVE GuardProofs!Next
    BY <2>1, GuardSteps DEF CheckOverload, GuardProofs!Next
  <2>2. ASSUME NEW r \in Requests, TakeVerdict(r) PROVE GuardProofs!Next
    BY <2>2, GuardSteps DEF TakeVerdict, GuardProofs!Next
  <2>3. CASE Clock
    BY <2>3, GuardSteps DEF Clock, GuardProofs!Next
  <2>4. ASSUME NEW r \in Requests,
               \/ HandlerSucceeds(r) \/ HandlerFails(r) \/ HandlerPanics(r)
               \/ ReportToMonitor(r) \/ Deferred(r)
        PROVE UNCHANGED guardVars
    BY <2>4, Zenon DEF HandlerSucceeds, HandlerFails, HandlerPanics, ReportToMonitor, Deferred
  <2>5. CASE UNCHANGED vars
    BY <2>5 DEF vars, guardVars, GuardProofs!vars
  <2>6. UNCHANGED guardVars => UNCHANGED GuardProofs!vars
    BY DEF guardVars, GuardProofs!vars
  <2> QED
    BY <2>1, <2>2, <2>3, <2>4, <2>5, <2>6 DEF Next, Serve
<1> QED
  BY <1>1, <1>2, PTL DEF Spec, GuardProofs!Spec

(* No window lets more requests reach the wrapped function than the option   *)
(* asks for: the limit of the guard is the option when that is positive.     *)
THEOREM OptionIsTheLimit == Spec => []OptionLimitsWindow
<1>1. GuardProofs!Spec => []GuardProofs!WindowLimit
  BY ClockAssumption, LimitIsPositive, GuardProofs!WindowLimitHolds
<1>2. GuardProofs!WindowLimit => OptionLimitsWindow
  BY LimitsAssumption
     DEF GuardProofs!WindowLimit, OptionLimitsWindow, LimitCnt, GuardProofs!Seconds
<1> QED
  BY <1>1, <1>2, WrapperImplementsGuard, PTL
(* What the requests under the wrapper are told is what a quota per window   *)
(* of the configured limit allows: the guard's own refinement, carried       *)
(* through the wrapper's.                                                    *)
THEOREM WrapperImplementsQuota == Spec => GuardProofs!ImplementsQuota
<1>1. GuardProofs!Spec => GuardProofs!ImplementsQuota
  BY ClockAssumption, LimitIsPositive, GuardProofs!GuardImplementsQuota
<1> QED
  BY <1>1, WrapperImplementsGuard, PTL

----------------------------------------------------------------------------
(* Type correctness: the guard's from the guard's own theorem; only a        *)
(* request on its way to the deferred function carries a panic.              *)
OwnTypes ==
    /\ stage \in [Requests -> {"new", "run", "report", "deferred", "done"}]
    /\ data \in [Requests -> Data]
    /\ cerr \in [Requests -> Errors \cup {NoError}]
    /\ panicking \in [Requests -> Errors \cup {NoError}]
    /\ \A r \in Requests :
        /\ panicking[r] # NoError => stage[r] = "deferred" /\ cerr[r] = NoError
        /\ stage[r] \in {"new", "run"} => cerr[r] = NoError
    /\ DOMAIN answers = Requests /\ DOMAIN reported = Requests
    /\ handled \subseteq Requests

(* The wrapper's own variables keep their types, whatever the guard says.    *)
THEOREM OwnTypesCorrect == Spec => []OwnTypes
<1>1. Init => OwnTypes
  BY DEF Init, OwnTypes, Data, NoError
<1>2. OwnTypes /\ [Next]_vars => OwnTypes'
  <2> SUFFICES ASSUME OwnTypes, [Next]_vars PROVE OwnTypes'
    OBVIOUS
  <2> USE DEF OwnTypes, GoTo
  <2>1. ASSUME NEW r \in Requests, CheckOverload(r) PROVE OwnTypes'
    BY <2>1 DEF CheckOverload
  <2>2. ASSUME NEW r \in Requests, TakeVerdict(r) PROVE OwnTypes'
    BY <2>2 DEF TakeVerdict, MayRun, Errors, NoError, Guard!Return
  <2>3. ASSUME NEW r \in Requests, HandlerSucceeds(r) PROVE OwnTypes'
    BY <2>3 DEF HandlerSucceeds, MayWrite
  <2>4. ASSUME NEW r \in Requests, HandlerFails(r) PROVE OwnTypes'
    BY <2>4 DEF HandlerFails, MayWrite, Errors, NoError
  <2>5. ASSUME NEW r \in Requests, HandlerPanics(r) PROVE OwnTypes'
    BY <2>5 DEF HandlerPanics, MayWrite, Errors, NoError
  <2>6. ASSUME NEW r \in Requests, ReportToMonitor(r) PROVE OwnTypes'
    BY <2>6 DEF ReportToMonitor
  <2>7. ASSUME NEW r \in Requests, Deferred(r) PROVE OwnTypes'
    <3>1. FinalError(r) \in Errors \cup {NoError}
      BY DEF FinalError
    <3> QED
      BY <2>7, <3>1 DEF Deferred
  <2>8. CASE Clock
    BY <2>8 DEF Clock
  <2>9. CASE UNCHANGED vars
    BY <2>9 DEF vars
  <2> QED
    BY <2>1, <2>2, <2>3, <2>4, <2>5, <2>6, <2>7, <2>8, <2>9 DEF Next, Serve
<1> QED
  BY <1>1, <1>2, PTL DEF Spec

(* All of them do, the guard's types being carried over by the refinement.   *)
THEOREM TypeCorrect == Spec => []TypeOK
<1>1. GuardProofs!Spec => []GuardProofs!TypeOK
  BY ClockAssumption, LimitIsPositive, GuardProofs!TypeCorrect
<1>2. GuardProofs!TypeOK /\ OwnTypes => TypeOK
  <2>1. GuardProofs!TypeOK => Guard!TypeOK
    BY DEF GuardProofs!TypeOK, Guard!TypeOK, GuardProofs!Seconds, Guard!Seconds
  <2> QED
    BY <2>1 DEF OwnTypes, TypeOK
<1> QED
  BY <1>1, <1>2, OwnTypesCorrect, WrapperImplementsGuard, PTL

----------------------------------------------------------------------------
(* What a request has been told and what was reported of it, stage by stage. *)
(* The wrapped function has written once or not at all, as it liked.         *)
Own == {<<>>, <<OwnAnswer>>}

Answered(r) ==
    IF Hijacked(r)
    THEN answers[r] \in Own
    ELSE answers[r] \in {<<AnswerOf(cerr[r])>>, <<OwnAnswer, AnswerOf(cerr[r])>>}

Agrees(r) ==
    \/ /\ Len(reported[r]) = 1
       /\ reported[r][1].ok = FinalAnswer(r).result
       /\ reported[r][1].code \in {FinalAnswer(r).mcode, ""}
    \/ Len(reported[r]) = 0 /\ ~FinalAnswer(r).result /\ r \in handled

RequestInv(r) ==
    /\ stage[r] \in {"new", "run"} => answers[r] = <<>> /\ reported[r] = <<>>
    /\ stage[r] = "run" => r \in handled
    /\ stage[r] = "report" => answers[r] \in Own /\ reported[r] = <<>>
    /\ (stage[r] = "deferred" /\ panicking[r] = NoError) =>
        answers[r] \in Own /\ reported[r] = <<ReportOf(r)>>
    /\ (stage[r] = "deferred" /\ panicking[r] # NoError) =>
        answers[r] \in Own /\ reported[r] = <<>> /\ r \in handled
    /\ stage[r] = "done" => Answered(r) /\ Agrees(r)

IInv == OwnTypes /\ \A r \in Requests : RequestInv(r)

(* A request is touched by its own goroutine only.                           *)
Same(r) ==
    /\ stage'[r] = stage[r] /\ data'[r] = data[r] /\ cerr'[r] = cerr[r]
    /\ panicking'[r] = panicking[r] /\ answers'[r] = answers[r]
    /\ reported'[r] = reported[r] /\ (r \in handled => r \in handled')

(* A step of one request leaves what is known of the others.               *)
LEMMA OthersStaySame ==
    ASSUME OwnTypes, NEW r \in Requests, NEW s \in Requests, r # s, Serve(s)
    PROVE Same(r)
<1> USE DEF OwnTypes, Same, GoTo
<1>1. CASE CheckOverload(s) \/ TakeVerdict(s)
  BY <1>1 DEF CheckOverload, TakeVerdict
<1>2. CASE HandlerSucceeds(s) \/ HandlerFails(s) \/ HandlerPanics(s)
  BY <1>2 DEF HandlerSucceeds, HandlerFails, HandlerPanics, MayWrite
<1>3. CASE ReportToMonitor(s) \/ Deferred(s)
  BY <1>3 DEF ReportToMonitor, Deferred
<1> QED
  BY <1>1, <1>2, <1>3 DEF Serve

(* What holds of a request goes on holding meanwhile.                      *)
LEMMA SameKeepsInv ==
    ASSUME NEW r \in Requests, RequestInv(r), Same(r)
    PROVE RequestInv(r)'
BY DEF Same, RequestInv, Answered, Hijacked, Agrees, FinalAnswer, LastAnswer, ReportOf

(* A sequence is its length and its elements: what is appended to one answer *)
(* makes a pair.                                                             *)
LEMMA PairOfTwo ==
    ASSUME NEW A, NEW x \in A, NEW y \in A,
           NEW s \in Seq(A), Len(s) = 2, s[1] = x, s[2] = y
    PROVE  s = <<x, y>>
<1>1. <<x, y>> \in Seq(A) /\ Len(<<x, y>>) = 2 /\ <<x, y>>[1] = x /\ <<x, y>>[2] = y
  OBVIOUS
<1>2. \A i \in 1 .. Len(s) : s[i] = <<x, y>>[i]
  BY <1>1
<1> QED
  BY <1>1, <1>2, SeqEqual

(* What is appended to a sequence of one makes it the pair of the two.       *)
LEMMA AppendToOne ==
    ASSUME NEW A, NEW x \in A, NEW y \in A
    PROVE  Append(<<x>>, y) = <<x, y>>
<1>1. Append(<<x>>, y) \in Seq(A) /\ Len(Append(<<x>>, y)) = 2
  OBVIOUS
<1>2. Append(<<x>>, y)[1] = x /\ Append(<<x>>, y)[2] = y
  OBVIOUS
<1> QED
  BY <1>1, <1>2, PairOfTwo

(* An answer after what the wrapped function has written is the last one.    *)
LEMMA AnswerComesLast ==
    ASSUME NEW own \in Own, NEW a
    PROVE  /\ Append(own, a) \in {<<a>>, <<OwnAnswer, a>>}
           /\ Append(own, a)[Len(Append(own, a))] = a
<1>1. CASE own = <<>>
  BY <1>1
<1>2. CASE own = <<OwnAnswer>>
  <2>1. OwnAnswer \in {OwnAnswer, a} /\ a \in {OwnAnswer, a}
    OBVIOUS
  <2>2. Append(<<OwnAnswer>>, a) = <<OwnAnswer, a>>
    BY <2>1, AppendToOne, Zenon
  <2>3. Len(<<OwnAnswer, a>>) = 2 /\ <<OwnAnswer, a>>[2] = a
    OBVIOUS
  <2> QED
    BY <1>2, <2>2, <2>3
<1> QED
  BY <1>1, <1>2 DEF Own

(* The deferred function writes an answer unless the wrapped function has    *)
(* taken that upon itself, and what it writes is what was reported.          *)
LEMMA DeferredAgrees ==
    ASSUME OwnTypes, NEW r \in Requests, RequestInv(r), Deferred(r)
    PROVE RequestInv(r)'
<1> DEFINE e == FinalError(r)
<1>1. /\ stage[r] = "deferred" /\ stage'[r] = "done"
      /\ answers'[r] = IF WritesAnswer(r) THEN Append(answers[r], AnswerOf(e)) ELSE answers[r]
      /\ reported'[r] = reported[r] /\ handled' = handled
      /\ cerr'[r] = e /\ data'[r] = data[r]
  BY DEF Deferred, OwnTypes, GoTo
<1>2. answers[r] \in Own /\ (panicking[r] # NoError => cerr[r] = NoError)
  BY <1>1 DEF OwnTypes, RequestInv
<1>3. /\ Hijacked(r)' <=> (e = NoError /\ OwnsAnswer(data[r]))
      /\ WritesAnswer(r) <=> ~Hijacked(r)'
  BY <1>1 DEF Hijacked, OwnsAnswer, WritesAnswer
<1>4. Answered(r)' /\ FinalAnswer(r)' = IF Hijacked(r)' THEN OwnAnswer ELSE AnswerOf(e)
  <2>1. CASE Hijacked(r)'
    BY <1>1, <1>2, <1>3, <2>1 DEF Answered, Own, FinalAnswer
  <2>2. CASE ~Hijacked(r)'
    <3>0. answers'[r] = Append(answers[r], AnswerOf(e))
      BY <1>1, <1>3, <2>2, Zenon
    <3>1. answers'[r] \in {<<AnswerOf(e)>>, <<OwnAnswer, AnswerOf(e)>>}
      BY <1>2, <3>0, AnswerComesLast, Zenon
    <3>2. AnswerOf(cerr[r])' = AnswerOf(e)
      BY <1>1 DEF AnswerOf
    <3>3. LastAnswer(r)' = AnswerOf(e)
      <4>1. \A own \in Own : Append(own, AnswerOf(e))[Len(Append(own, AnswerOf(e)))] = AnswerOf(e)
        <5> HIDE DEF e
        <5> QED
          BY AnswerComesLast, Zenon
      <4>2. LastAnswer(r)' = Append(answers[r], AnswerOf(e))[Len(Append(answers[r], AnswerOf(e)))]
        BY <3>0 DEF LastAnswer
      <4> QED
        BY <1>2, <4>1, <4>2, Zenon
    <3>4. Answered(r)'
      BY <2>2, <3>1, <3>2, Zenon DEF Answered
    <3>5. FinalAnswer(r)' = AnswerOf(e)
      BY <2>2, <3>3, Zenon DEF FinalAnswer
    <3> QED
      BY <2>2, <3>4, <3>5
  <2> QED
    BY <2>1, <2>2
<1>5. Agrees(r)'
  <2>1. CASE panicking[r] # NoError
    <3>1. e = panicking[r]
      BY <2>1 DEF FinalError
    <3>2. FinalAnswer(r)' = AnswerOf(e) /\ AnswerOf(e).result = FALSE
      BY <1>3, <1>4, <2>1, <3>1, Zenon DEF AnswerOf
    <3>3. Len(reported'[r]) = 0 /\ r \in handled'
      BY <1>1, <2>1 DEF RequestInv
    <3> QED
      BY <3>2, <3>3, Zenon DEF Agrees
  <2>2. CASE panicking[r] = NoError
    <3>1. e = cerr[r]
      BY <2>2 DEF FinalError
    <3>2. Len(reported'[r]) = 1 /\ reported'[r][1] = ReportOf(r)
      BY <1>1, <2>2 DEF RequestInv
    <3>3. CASE e = NoError
      <4>1. ReportOf(r).ok = TRUE /\ ReportOf(r).code = ""
        BY <3>1, <3>3, Zenon DEF ReportOf
      <4>2. FinalAnswer(r)'.result = TRUE
        <5>1. AnswerOf(NoError).result = TRUE /\ OwnAnswer.result = TRUE
          BY Zenon DEF OwnAnswer, AnswerOf
        <5> QED
          BY <1>4, <3>3, <5>1, Zenon
      <4> QED
        BY <3>2, <4>1, <4>2, Zenon DEF Agrees
    <3>4. CASE e # NoError
      <4>1. ReportOf(r).ok = FALSE /\ ReportOf(r).code = Mcode[e]
        BY <3>1, <3>4, Zenon DEF ReportOf
      <4>2. FinalAnswer(r)' = AnswerOf(e)
        BY <1>3, <1>4, <3>4
      <4>3. AnswerOf(e).result = FALSE /\ Mcode[e] \in {AnswerOf(e).mcode, ""}
        BY <3>4, Zenon DEF AnswerOf
      <4> QED
        BY <3>2, <4>1, <4>2, <4>3, Zenon DEF Agrees
    <3> QED
      BY <3>3, <3>4
  <2> QED
    BY <2>1, <2>2
<1> QED
  BY <1>1, <1>4, <1>5 DEF RequestInv

(* A step of a request keeps what is known of it.                          *)
LEMMA StepKeepsInv ==
    ASSUME OwnTypes, NEW r \in Requests, RequestInv(r), Serve(r)
    PROVE RequestInv(r)'
<1> USE DEF OwnTypes, GoTo
<1>1. CASE CheckOverload(r)
  <2>1. Same(r)
    BY <1>1 DEF CheckOverload, Same
  <2> QED
    BY <2>1, SameKeepsInv
<1>2. CASE TakeVerdict(r)
  <2>1. /\ stage[r] = "new" /\ answers'[r] = answers[r] /\ reported'[r] = reported[r]
        /\ \/ stage'[r] = "run" /\ r \in handled'
           \/ stage'[r] = "report" /\ cerr'[r] = "denied"
    BY <1>2 DEF TakeVerdict, MayRun, Guard!Return
  <2> QED
    BY <2>1 DEF RequestInv, Own
<1>3. CASE HandlerSucceeds(r) \/ HandlerFails(r) \/ HandlerPanics(r)
  <2>1. /\ stage[r] = "run" /\ reported'[r] = reported[r] /\ handled' = handled
        /\ \/ stage'[r] = "report"
           \/ stage'[r] = "deferred" /\ panicking'[r] # NoError
        /\ MayWrite(r)
    BY <1>3 DEF HandlerSucceeds, HandlerFails, HandlerPanics, NoError
  <2>2. answers[r] = <<>>
    BY <2>1 DEF RequestInv
  <2>3. answers'[r] \in Own
    <3>1. PICK own \in Own : answers' = [answers EXCEPT ![r] = @ \o own]
      BY <2>1 DEF MayWrite, Own
    <3>2. answers'[r] = <<>> \o own
      BY <2>2, <3>1
    <3>3. <<>> \o own = own
      BY DEF Own
    <3> QED
      BY <3>2, <3>3
  <2> QED
    BY <2>1, <2>3 DEF RequestInv
<1>4. CASE ReportToMonitor(r)
  <2>1. /\ stage[r] = "report" /\ stage'[r] = "deferred" /\ answers'[r] = answers[r]
        /\ reported'[r] = Append(reported[r], ReportOf(r))
        /\ cerr'[r] = cerr[r] /\ data'[r] = data[r]
        /\ panicking'[r] = panicking[r] /\ panicking[r] = NoError
    BY <1>4 DEF ReportToMonitor
  <2> QED
    <3>1. ReportOf(r)' = ReportOf(r)
      BY <2>1, Zenon DEF ReportOf
    <3>2. answers[r] \in Own /\ reported[r] = <<>>
      BY <2>1 DEF RequestInv
    <3>3. reported'[r] = <<ReportOf(r)'>>
      BY <2>1, <3>1, <3>2
    <3> QED
      BY <2>1, <3>1, <3>2, <3>3, Zenon DEF RequestInv
<1>5. CASE Deferred(r)
  BY <1>5, DeferredAgrees
<1> QED
  BY <1>1, <1>2, <1>3, <1>4, <1>5 DEF Serve

(* The invariant of the requests: what a request has been told and what was  *)
(* reported of it fit its stage.                                             *)
THEOREM Inductive == Spec => []IInv
<1>1. Init => \A r \in Requests : RequestInv(r)
  BY DEF Init, RequestInv
<1>2. OwnTypes /\ (\A r \in Requests : RequestInv(r)) /\ [Next]_vars
        => (\A r \in Requests : RequestInv(r))'
  <2> SUFFICES ASSUME OwnTypes, \A r \in Requests : RequestInv(r), [Next]_vars, NEW r \in Requests
               PROVE RequestInv(r)'
    OBVIOUS
  <2>1. ASSUME NEW s \in Requests, Serve(s) PROVE RequestInv(r)'
    <3>1. CASE r = s
      BY <2>1, <3>1, StepKeepsInv
    <3>2. CASE r # s
      BY <2>1, <3>2, OthersStaySame, SameKeepsInv
    <3> QED
      BY <3>1, <3>2
  <2>2. CASE Clock \/ UNCHANGED vars
    <3>1. Same(r)
      BY <2>2 DEF Clock, vars, Same
    <3> QED
      BY <3>1, SameKeepsInv
  <2> QED
    BY <2>1, <2>2 DEF Next
<1> QED
  BY <1>1, <1>2, OwnTypesCorrect, PTL DEF Spec, IInv

(* A request has one answer in the end exactly if its wrapped function, which *)
(* may write whatever it returns then, does as it says.                      *)
THEOREM OneAnswer == Spec => []AnsweredOnce
<1>1. IInv => AnsweredOnce
  <2> SUFFICES ASSUME IInv, NEW r \in Requests, stage[r] = "done"
               PROVE Len(answers[r]) = 1 <=> (Wrote(r) <=> Hijacked(r))
    BY DEF AnsweredOnce, Done
  <2>1. Answered(r)
    BY DEF IInv, RequestInv
  <2>2. OwnAnswer.by = "handler" /\ AnswerOf(cerr[r]).by = "wrapper"
    BY Zenon DEF OwnAnswer, AnswerOf
  <2>3. CASE Hijacked(r)
    BY <2>1, <2>2, <2>3 DEF Answered, Own, Wrote
  <2>4. CASE ~Hijacked(r)
    BY <2>1, <2>2, <2>4 DEF Answered, Wrote
  <2> QED
    BY <2>3, <2>4
<1> QED
  BY <1>1, Inductive, PTL

(* The monitor is told what the client is told last about a request.         *)
THEOREM ReportsAgree == Spec => []ReportAgreesWithAnswer
<1>1. IInv => ReportAgreesWithAnswer
  BY DEF IInv, ReportAgreesWithAnswer, Done, RequestInv, Agrees
<1> QED
  BY <1>1, Inductive, PTL

----------------------------------------------------------------------------
(* Every admission of the guard reaches one request, which runs at most      *)
(* once: a request waits for a verdict only before it has one, and each      *)
(* verdict "admitted" adds one pair to the admissions and one request to     *)
(* those let through.                                                        *)
AdmissionInv ==
    /\ pc \in [Requests -> {"idle", "lock", "admitted", "denied"}]
    /\ \A r \in Requests : pc[r] # "idle" => stage[r] = "new"
    /\ \A r \in handled : stage[r] # "new"
    /\ IsFiniteSet(LetThrough) /\ IsFiniteSet(Admissions)
    /\ OnlyAdmittedRun

(* One more admitted in a window is one more admission.                    *)
LEMMA AdmissionAddsOne ==
    ASSUME NEW w \in 1 .. MaxTime, admitted \in [1 .. MaxTime -> Nat], MaxTime \in Nat,
           admitted' = [admitted EXCEPT ![w] = @ + 1]
    PROVE  /\ Admissions' = Admissions \cup {<<w, admitted[w] + 1>>}
           /\ <<w, admitted[w] + 1>> \notin Admissions
<1>1. \A e : e \in Admissions <=> \E v \in 1 .. MaxTime : e \in {v} \X (1 .. admitted[v])
  BY DEF Admissions
<1>2. \A e : e \in Admissions' <=> \E v \in 1 .. MaxTime : e \in {v} \X (1 .. admitted'[v])
  BY DEF Admissions
<1>3. \A v \in 1 .. MaxTime : admitted'[v] = IF v = w THEN admitted[w] + 1 ELSE admitted[v]
  OBVIOUS
<1>4. {w} \X (1 .. admitted[w] + 1) = ({w} \X (1 .. admitted[w])) \cup {<<w, admitted[w] + 1>>}
  <2>1. admitted[w] \in Nat
    OBVIOUS
  <2>2. 1 .. admitted[w] + 1 = (1 .. admitted[w]) \cup {admitted[w] + 1}
    BY <2>1
  <2> QED
    BY <2>2
<1>5. ASSUME NEW e PROVE e \in Admissions' <=> e \in Admissions \/ e = <<w, admitted[w] + 1>>
  BY <1>1, <1>2, <1>3, <1>4
<1>6. ASSUME <<w, admitted[w] + 1>> \in Admissions PROVE FALSE
  <2>1. PICK v \in 1 .. MaxTime : <<w, admitted[w] + 1>> \in {v} \X (1 .. admitted[v])
    BY <1>1, <1>6
  <2>2. v = w /\ admitted[w] + 1 \in 1 .. admitted[w] /\ admitted[w] \in Nat
    BY <2>1
  <2> QED
    BY <2>2
<1> QED
  BY <1>5, <1>6

(* A check admits one request and counts it in one window, or does neither.*)
LEMMA GuardAdmits ==
    ASSUME Guard!TypeOK, NEW r \in Requests, Guard!Check(r)
    PROVE  /\ pc[r] \in {"idle", "lock"}
           /\ \/ /\ \E s \in {"lock", "denied"} : pc' = [pc EXCEPT ![r] = s]
                 /\ admitted' = admitted
              \/ /\ pc' = [pc EXCEPT ![r] = "admitted"]
                 /\ \E w \in 1 .. MaxTime : admitted' = [admitted EXCEPT ![w] = @ + 1]
<1> USE ClockAssumption DEF Guard!TypeOK, Guard!Seconds
<1>1. CASE Guard!Enter(r)
  BY <1>1, LimitIsPositive DEF Guard!Enter, Guard!GuardIsOff
<1>2. CASE Guard!OpenWindow(r)
  BY <1>2 DEF Guard!OpenWindow, Guard!Admit
<1>3. CASE Guard!Deny(r)
  BY <1>3 DEF Guard!Deny
<1>4. CASE Guard!CountInWindow(r)
  <2>1. curTime \in 1 .. MaxTime
    BY <1>4 DEF Guard!CountInWindow, Guard!WindowIsOver
  <2> QED
    BY <1>4, <2>1 DEF Guard!CountInWindow, Guard!Admit
<1> QED
  BY <1>1, <1>2, <1>3, <1>4 DEF Guard!Check

(* A request that is admitted is let through, and counted.                 *)
LEMMA CheckKeepsAdmissions ==
    ASSUME Guard!TypeOK, OwnTypes, AdmissionInv, NEW r \in Requests, CheckOverload(r)
    PROVE  AdmissionInv'
<1>1. /\ stage[r] = "new" /\ stage' = stage /\ handled' = handled
      /\ Guard!Check(r) /\ handled \subseteq Requests
  BY DEF CheckOverload, OwnTypes
<1>2. pc \in [Requests -> {"idle", "lock", "admitted", "denied"}]
  BY DEF AdmissionInv
<1>3. pc[r] \in {"idle", "lock"} /\ r \notin LetThrough
  BY <1>1, GuardAdmits DEF AdmissionInv, LetThrough
<1>4. CASE /\ \E s \in {"lock", "denied"} : pc' = [pc EXCEPT ![r] = s]
           /\ admitted' = admitted
  <2>1. LetThrough' = LetThrough
    BY <1>1, <1>2, <1>3, <1>4 DEF LetThrough
  <2>2. Admissions' = Admissions
    BY <1>4 DEF Admissions
  <2> QED
    BY <1>1, <1>4, <2>1, <2>2 DEF AdmissionInv, OnlyAdmittedRun
<1>5. CASE /\ pc' = [pc EXCEPT ![r] = "admitted"]
           /\ \E w \in 1 .. MaxTime : admitted' = [admitted EXCEPT ![w] = @ + 1]
  <2>1. LetThrough' = LetThrough \cup {r}
    BY <1>1, <1>2, <1>3, <1>5 DEF LetThrough
  <2>2. PICK w \in 1 .. MaxTime : admitted' = [admitted EXCEPT ![w] = @ + 1]
    BY <1>5
  <2>3. /\ Admissions' = Admissions \cup {<<w, admitted[w] + 1>>}
        /\ <<w, admitted[w] + 1>> \notin Admissions
    BY <2>2, AdmissionAddsOne, ClockAssumption DEF Guard!TypeOK, Guard!Seconds
  <2>4. IsFiniteSet(LetThrough) /\ IsFiniteSet(Admissions)
        /\ Cardinality(LetThrough) = Cardinality(Admissions)
    BY DEF AdmissionInv, OnlyAdmittedRun
  <2>5. IsFiniteSet(LetThrough') /\ Cardinality(LetThrough') = Cardinality(LetThrough) + 1
    BY <1>3, <2>1, <2>4, FS_AddElement
  <2>6. IsFiniteSet(Admissions') /\ Cardinality(Admissions') = Cardinality(Admissions) + 1
    BY <2>3, <2>4, FS_AddElement
  <2> QED
    BY <1>1, <1>2, <1>5, <2>4, <2>5, <2>6 DEF AdmissionInv, OnlyAdmittedRun
<1> QED
  BY <1>1, <1>4, <1>5, GuardAdmits

(* A request with a verdict runs exactly if it was admitted.               *)
LEMMA VerdictKeepsAdmissions ==
    ASSUME OwnTypes, AdmissionInv, NEW r \in Requests, TakeVerdict(r)
    PROVE  AdmissionInv'
<1>1. /\ stage[r] = "new" /\ pc[r] \in {"admitted", "denied"}
      /\ pc' = [pc EXCEPT ![r] = "idle"] /\ admitted' = admitted
      /\ IF pc[r] = "admitted"
         THEN stage' = [stage EXCEPT ![r] = "run"] /\ handled' = handled \cup {r}
         ELSE stage' = [stage EXCEPT ![r] = "report"] /\ handled' = handled
  BY DEF TakeVerdict, MayRun, GoTo, Guard!Return
<1>2. LetThrough' = LetThrough
  BY <1>1 DEF LetThrough, AdmissionInv
<1>3. Admissions' = Admissions
  BY <1>1 DEF Admissions
<1>4. /\ pc' \in [Requests -> {"idle", "lock", "admitted", "denied"}]
      /\ \A s \in Requests : pc'[s] # "idle" => stage'[s] = "new"
      /\ \A s \in handled' : stage'[s] # "new"
  BY <1>1 DEF AdmissionInv, OwnTypes
<1> QED
  BY <1>2, <1>3, <1>4 DEF AdmissionInv, OnlyAdmittedRun

(* The wrapped function is called for the requests the guard admitted, once  *)
(* for each admission, and for no other request.                             *)
THEOREM OnlyAdmittedRequestsRun == Spec => []OnlyAdmittedRun
<1>1. Init => AdmissionInv
  <2> SUFFICES ASSUME Init PROVE AdmissionInv
    OBVIOUS
  <2>1. LetThrough = {} /\ Admissions = {}
    BY DEF Init, Guard!Init, Guard!Seconds, LetThrough, Admissions
  <2>2. IsFiniteSet({})
    BY FS_EmptySet
  <2> QED
    BY <2>1, <2>2 DEF Init, Guard!Init, AdmissionInv, OnlyAdmittedRun
<1>2. Guard!TypeOK /\ OwnTypes /\ AdmissionInv /\ [Next]_vars => AdmissionInv'
  <2> SUFFICES ASSUME Guard!TypeOK, OwnTypes, AdmissionInv, [Next]_vars PROVE AdmissionInv'
    OBVIOUS
  <2>1. ASSUME NEW r \in Requests, CheckOverload(r) PROVE AdmissionInv'
    BY <2>1, CheckKeepsAdmissions
  <2>2. ASSUME NEW r \in Requests, TakeVerdict(r) PROVE AdmissionInv'
    BY <2>2, VerdictKeepsAdmissions
  <2>3. ASSUME NEW r \in Requests,
               \/ HandlerSucceeds(r) \/ HandlerFails(r) \/ HandlerPanics(r)
               \/ ReportToMonitor(r) \/ Deferred(r)
        PROVE AdmissionInv'
    <3>1. pc' = pc /\ admitted' = admitted /\ handled' = handled
      BY <2>3, Zenon
         DEF HandlerSucceeds, HandlerFails, HandlerPanics, ReportToMonitor, Deferred, guardVars
    <3>2. stage[r] # "new" /\ \E s \in {"report", "deferred", "done"} : stage' = [stage EXCEPT ![r] = s]
      BY <2>3 DEF HandlerSucceeds, HandlerFails, HandlerPanics, ReportToMonitor, Deferred, GoTo
    <3>3. LetThrough' = LetThrough /\ Admissions' = Admissions
      BY <3>1 DEF LetThrough, Admissions
    <3> QED
      BY <3>1, <3>2, <3>3 DEF AdmissionInv, OnlyAdmittedRun, OwnTypes
  <2>4. CASE Clock \/ UNCHANGED vars
    <3>1. pc' = pc /\ admitted' = admitted /\ handled' = handled /\ stage' = stage
      BY <2>4 DEF Clock, Guard!ClockTick, Guard!ClockStepBack, vars, guardVars
    <3>2. LetThrough' = LetThrough /\ Admissions' = Admissions
      BY <3>1 DEF LetThrough, Admissions
    <3> QED
      BY <3>1, <3>2 DEF AdmissionInv, OnlyAdmittedRun
  <2> QED
    BY <2>1, <2>2, <2>3, <2>4 DEF Next, Serve
<1>3. AdmissionInv => OnlyAdmittedRun
  BY DEF AdmissionInv
<1>4. TypeOK => Guard!TypeOK
  BY DEF TypeOK
<1> QED
  BY <1>1, <1>2, <1>3, <1>4, TypeCorrect, OwnTypesCorrect, PTL DEF Spec
=============================================================================
