------------------------- MODULE InvokeClientProofs -------------------------
(***************************************************************************)
(* Proofs about a call of service/invoke, for any number of calls and any  *)
(* statuses. What the caller returns rests on what the function that       *)
(* hystrix runs has done by then, so the invariant has a part for each.    *)
(***************************************************************************)
EXTENDS InvokeClient, TLAPS

Answered(x) ==
    /\ outcome[x].status # 0
    /\ kind[x] = "exec" =>
        IsSuccess(outcome[x].status) /\ out[x] = "decoded" /\ conn[x] = "free"

(* The function: status is what it assigned, once; it says nil to hystrix    *)
(* only with an answer, and then does nothing more to what it shares.        *)
RunInv(x) ==
    /\ run[x] \in {"none", "context", "build", "http"} => outcome[x] = NoOutcome
    /\ run[x] \in {"none", "context", "build", "http", "body", "assign"} => status[x] = 0
    /\ run[x] \in {"signal", "finish", "ended"} => status[x] = outcome[x].status
    /\ run[x] = "body" => kind[x] = "exec" /\ IsSuccess(outcome[x].status)
    /\ (run[x] \in {"assign", "signal", "finish"} \/ done[x]) /\ outcome[x].err = NoErr => Answered(x)
    /\ done[x] => run[x] \in {"finish", "ended"} /\ outcome[x].err = NoErr

(* The caller: without an error it has heard of the nil; a report is there,  *)
(* or a response for ExtractHttpResponse to report.                          *)
CallerInv(x) ==
    /\ pc[x] = "start" => run[x] = "none"
    /\ AfterDo(x) /\ err[x] = NoErr => done[x]
    /\ pc[x] \in {"start", "wait", "cancel", "report"} => reports[x] = <<>>
    /\ (kind[x] = "exec" /\ pc[x] \in {"return", "done"}) => reports[x] = <<ExecReport(x)>>
    /\ (kind[x] = "response" /\ pc[x] = "return") =>
        \/ reports[x] = <<"failed">>
        \/ reports[x] = <<>> /\ status[x] # NoResponse
    /\ pc[x] = "extract" =>
        /\ kind[x] = "response"
        /\ \/ reports[x] = <<"failed">>
           \/ reports[x] = <<>> /\ returned[x] # NoResponse
        /\ err[x] = NoErr => returned[x] # NoResponse
    /\ (kind[x] = "response" /\ pc[x] = "done") =>
        /\ reports[x] # <<>>
        /\ reports[x][Len(reports[x])] = "success" <=> result[x] = "ok"
        /\ err[x] = NoErr => conn[x] = "free"
    /\ result[x] # "panic"

IInv == TypeOK /\ \A x \in Calls : RunInv(x) /\ CallerInv(x)

----------------------------------------------------------------------------
(* ExtractHttpResponse reports nothing or once. *)
LEMMA ShortReports ==
    \A x, res : ReportsOf(x, res) \in Seq({"success", "failed"})
<1> TAKE x, res
<1>1. ReportsOf(x, res) \in {<<>>, <<"success">>, <<"failed">>}
  BY Zenon DEF ReportsOf
<1>2. <<>> \in Seq({"success", "failed"}) /\ <<"success">> \in Seq({"success", "failed"})
        /\ <<"failed">> \in Seq({"success", "failed"})
  OBVIOUS
<1> QED
  BY <1>1, <1>2, Zenon

(* Type correctness: what is captured keeps its type whoever writes it, and  *)
(* an error on the channel of hystrix is the timer's exactly when the timer  *)
(* ended the command.                                                        *)
THEOREM TypeCorrect == Spec => []TypeOK
<1> USE StatusesAssumption
<1>1. Init => TypeOK
  BY DEF Init, TypeOK, NoOutcome, NoErr, RunErrors, DoErrors, Kinds, Results
<1>2. TypeOK /\ [Next]_vars => TypeOK'
  <2> SUFFICES ASSUME TypeOK, [Next]_vars PROVE TypeOK'
    OBVIOUS
  <2> USE DEF TypeOK, CallerAt, RunAt, NoErr, RunErrors, DoErrors
  <2>1. ASSUME NEW x \in Calls, StartRequest(x) PROVE TypeOK'
    BY <2>1 DEF StartRequest, callerVars, hystrixVars, sharedVars, answerVars
  <2>2. ASSUME NEW x \in Calls, DoReturns(x) PROVE TypeOK'
    <3>1. err' \in [Calls -> DoErrors \cup {NoErr}] /\ err' = [err EXCEPT ![x] = err'[x]]
      <4>1. PICK e \in {NoErr, errChan[x]} : err' = [err EXCEPT ![x] = e]
        BY <2>2, Zenon DEF DoReturns
      <4>2. e \in DoErrors \cup {NoErr} /\ err \in [Calls -> DoErrors \cup {NoErr}]
        OBVIOUS
      <4> HIDE DEF TypeOK, DoErrors, RunErrors, NoErr
      <4> QED
        BY <4>1, <4>2
    <3>2. pc' = [pc EXCEPT ![x] = "cancel"]
      BY <2>2 DEF DoReturns
    <3>3. /\ UNCHANGED <<kind, useCircuit, hasContext, reports, code, returned, result>>
          /\ UNCHANGED <<run, outcome, hystrixVars, sharedVars, answerVars>>
      BY <2>2 DEF DoReturns
    <3> QED
      BY <3>1, <3>2, <3>3 DEF hystrixVars, sharedVars, answerVars
  <2>3. ASSUME NEW x \in Calls, CancelRequest(x) PROVE TypeOK'
    <3>1. cancelled' \in [Calls -> BOOLEAN]
      <4>1. cancelled' = cancelled \/ cancelled' = [cancelled EXCEPT ![x] = TRUE]
        BY <2>3, Zenon DEF CancelRequest
      <4> QED
        BY <4>1, Zenon
    <3>2. conn' \in [Calls -> {"none", "held", "free"}]
      <4>1. conn' = conn \/ conn' = [conn EXCEPT ![x] = IF @ = "held" THEN "free" ELSE @]
        BY <2>3, Zenon DEF CancelRequest
      <4>2. conn \in [Calls -> {"none", "held", "free"}]
        OBVIOUS
      <4> HIDE DEF TypeOK
      <4> QED
        BY <4>1, <4>2
    <3>3. pc' = [pc EXCEPT ![x] = "report"]
      BY <2>3, Zenon DEF CancelRequest
    <3>4. /\ UNCHANGED <<kind, useCircuit, hasContext, err, reports, code, returned, result>>
          /\ UNCHANGED <<run, outcome, hystrixVars, cancel, status, out>>
      BY <2>3, Zenon DEF CancelRequest
    <3> QED
      BY <3>1, <3>2, <3>3, <3>4 DEF hystrixVars
  <2>4. ASSUME NEW x \in Calls, ReportToMonitor(x) PROVE TypeOK'
    BY <2>4 DEF ReportToMonitor, callerVars, hystrixVars, sharedVars, answerVars, ExecReport, LeftForExtract
  <2>5. ASSUME NEW x \in Calls, Return(x) PROVE TypeOK'
    BY <2>5 DEF Return, callerVars, hystrixVars, sharedVars, answerVars
  <2>6. ASSUME NEW x \in Calls, Extract(x) PROVE TypeOK'
    <3>1. result' \in [Calls -> Results \cup {"none"}]
      BY <2>6 DEF Extract, ResultsOf, Results
    <3>2. reports' \in [Calls -> Seq({"success", "failed"})]
      <4>1. PICK res \in ResultsOf(x) : reports' = [reports EXCEPT ![x] = @ \o ReportsOf(x, res)]
        BY <2>6 DEF Extract
      <4>2. ReportsOf(x, res) \in Seq({"success", "failed"})
        BY ShortReports
      <4>3. reports[x] \o ReportsOf(x, res) \in Seq({"success", "failed"})
        BY <4>2
      <4> QED
        BY <4>1, <4>3
    <3>3. conn' \in [Calls -> {"none", "held", "free"}]
      BY <2>6 DEF Extract
    <3> QED
      BY <2>6, <3>1, <3>2, <3>3 DEF Extract, callerVars, hystrixVars, sharedVars, answerVars
  <2>7. ASSUME NEW x \in Calls, MakeContext(x) PROVE TypeOK'
    <3>1. HandlesContext(x) \in BOOLEAN
      BY Zenon DEF HandlesContext
    <3>2. cancel' \in [Calls -> BOOLEAN]
      BY <2>7, <3>1, Zenon DEF MakeContext
    <3> QED
      BY <2>7, <3>2 DEF MakeContext, callerVars, hystrixVars, sharedVars, answerVars
  <2>8. ASSUME NEW x \in Calls, BuildFails(x) PROVE TypeOK'
    BY <2>8 DEF BuildFails, callerVars, hystrixVars, sharedVars, answerVars, Ends
  <2>9. ASSUME NEW x \in Calls, SendRequest(x) PROVE TypeOK'
    BY <2>9 DEF SendRequest, callerVars, hystrixVars, sharedVars, answerVars
  <2>10. ASSUME NEW x \in Calls, RequestFails(x) PROVE TypeOK'
    BY <2>10 DEF RequestFails, callerVars, hystrixVars, sharedVars, answerVars, Ends
  <2>11. ASSUME NEW x \in Calls, AnswerArrives(x) PROVE TypeOK'
    <3>1. conn' \in [Calls -> {"none", "held", "free"}]
      BY <2>11 DEF AnswerArrives
    <3>2. outcome' \in [Calls -> [status : Statuses \cup {0}, err : RunErrors \cup {NoErr}]]
      <4>1. PICK s \in Statuses, e \in RunErrors \cup {NoErr} : Ends(x, s, e)
        BY <2>11 DEF AnswerArrives
      <4> QED
        BY <4>1 DEF Ends
    <3>3. run' \in [Calls -> {"none", "context", "build", "http", "body", "assign", "signal", "finish", "ended"}]
      <4>1. PICK next \in {"assign", "body"} : run' = [run EXCEPT ![x] = next]
        BY <2>11, Zenon DEF AnswerArrives
      <4>2. run \in [Calls -> {"none", "context", "build", "http", "body", "assign", "signal", "finish", "ended"}]
        OBVIOUS
      <4> HIDE DEF TypeOK
      <4> QED
        BY <4>1, <4>2
    <3>4. UNCHANGED <<callerVars, hystrixVars, sharedVars, out>>
      BY <2>11, Zenon DEF AnswerArrives
    <3> QED
      BY <3>1, <3>2, <3>3, <3>4 DEF callerVars, hystrixVars, sharedVars
  <2>12. ASSUME NEW x \in Calls, ReadBody(x) PROVE TypeOK'
    <3>1. outcome' \in [Calls -> [status : Statuses \cup {0}, err : RunErrors \cup {NoErr}]]
      BY <2>12 DEF ReadBody, Ends
    <3>2. out' \in [Calls -> {"untouched", "partly", "decoded"}]
      <4>1. \/ out' = out
            \/ \E w \in {"untouched", "partly", "decoded"} : out' = [out EXCEPT ![x] = w]
        BY <2>12, Zenon DEF ReadBody
      <4>2. out \in [Calls -> {"untouched", "partly", "decoded"}]
        OBVIOUS
      <4> HIDE DEF TypeOK
      <4> QED
        BY <4>1, <4>2
    <3>3. /\ run' = [run EXCEPT ![x] = "assign"]
          /\ conn' = [conn EXCEPT ![x] = "free"]
          /\ UNCHANGED <<callerVars, hystrixVars, sharedVars>>
      BY <2>12, Zenon DEF ReadBody
    <3> QED
      BY <3>1, <3>2, <3>3 DEF callerVars, hystrixVars, sharedVars
  <2>13. ASSUME NEW x \in Calls, Assign(x) PROVE TypeOK'
    BY <2>13 DEF Assign, callerVars, hystrixVars, sharedVars, answerVars, Captured
  <2>14. ASSUME NEW x \in Calls, Reject(x) PROVE TypeOK'
    <3>1. CASE once[x] = "none"
      <4>1. once' = [once EXCEPT ![x] = "run"] /\ errChan' = [errChan EXCEPT ![x] = "rejected"]
        BY <2>14, <3>1 DEF Reject
      <4>2. "rejected" \in (DoErrors \cup {NoErr}) \ {"timeout"}
        OBVIOUS
      <4> QED
        BY <2>14, <4>1, <4>2 DEF Reject, callerVars, hystrixVars, sharedVars, answerVars
    <3>2. CASE once[x] # "none"
      BY <2>14, <3>2 DEF Reject, callerVars, hystrixVars, sharedVars, answerVars
    <3> QED
      BY <3>1, <3>2
  <2>15. ASSUME NEW x \in Calls, Signal(x) PROVE TypeOK'
    BY <2>15 DEF Signal, callerVars, hystrixVars, sharedVars, answerVars
  <2>16. ASSUME NEW x \in Calls, Finish(x) PROVE TypeOK'
    <3>1. CASE once[x] = "none"
      <4>1. once' = [once EXCEPT ![x] = "run"] /\ errChan' = [errChan EXCEPT ![x] = outcome[x].err]
        BY <2>16, <3>1 DEF Finish
      <4>2. outcome[x].err \in (DoErrors \cup {NoErr}) \ {"timeout"}
        OBVIOUS
      <4> QED
        BY <2>16, <4>1, <4>2 DEF Finish, callerVars, hystrixVars, sharedVars, answerVars
    <3>2. CASE once[x] # "none"
      BY <2>16, <3>2 DEF Finish, callerVars, hystrixVars, sharedVars, answerVars
    <3> QED
      BY <3>1, <3>2
  <2>17. ASSUME NEW x \in Calls, TimerFires(x) PROVE TypeOK'
    BY <2>17 DEF TimerFires, callerVars, hystrixVars, sharedVars, answerVars
  <2>18. CASE UNCHANGED vars
    BY <2>18 DEF vars, callerVars, hystrixVars, sharedVars, answerVars
  <2> QED
    BY <2>1, <2>2, <2>3, <2>4, <2>5, <2>6, <2>7, <2>8, <2>9, <2>10, <2>11, <2>12, <2>13, <2>14, <2>15, <2>16, <2>17, <2>18
       DEF Next, Caller, Request, Hystrix
<1> QED
  BY <1>1, <1>2, PTL DEF Spec

----------------------------------------------------------------------------
(* A call is touched by its own caller, function and timer only.             *)
SameCaller(x) ==
    /\ kind'[x] = kind[x] /\ pc'[x] = pc[x] /\ err'[x] = err[x]
    /\ reports'[x] = reports[x] /\ returned'[x] = returned[x] /\ result'[x] = result[x]

SameRun(x) ==
    /\ run'[x] = run[x] /\ outcome'[x] = outcome[x] /\ done'[x] = done[x]
    /\ status'[x] = status[x] /\ out'[x] = out[x]

Same(x) == SameCaller(x) /\ SameRun(x) /\ conn'[x] = conn[x]

(* A step of one call leaves the variables of the others alone.            *)
LEMMA OthersStaySame ==
    ASSUME TypeOK, NEW x \in Calls, NEW y \in Calls, x # y,
           Caller(y) \/ Request(y) \/ Hystrix(y)
    PROVE Same(x)
<1> USE DEF Same, SameCaller, SameRun, TypeOK, CallerAt, RunAt, callerVars, hystrixVars, sharedVars, answerVars
<1>1. CASE Caller(y)
  <2>1. CASE StartRequest(y) \/ DoReturns(y) \/ CancelRequest(y)
    BY <2>1 DEF StartRequest, DoReturns, CancelRequest
  <2>2. CASE ReportToMonitor(y) \/ Return(y) \/ Extract(y)
    BY <2>2 DEF ReportToMonitor, Return, Extract
  <2> QED
    BY <1>1, <2>1, <2>2 DEF Caller
<1>2. CASE Request(y)
  <2>1. CASE MakeContext(y) \/ BuildFails(y) \/ SendRequest(y) \/ RequestFails(y)
    BY <2>1 DEF MakeContext, BuildFails, SendRequest, RequestFails, Ends
  <2>2. CASE AnswerArrives(y) \/ ReadBody(y) \/ Assign(y)
    BY <2>2 DEF AnswerArrives, ReadBody, Assign, Ends
  <2> QED
    BY <1>2, <2>1, <2>2 DEF Request
<1>3. CASE Hystrix(y)
  BY <1>3 DEF Hystrix, Reject, Signal, Finish, TimerFires
<1> QED
  BY <1>1, <1>2, <1>3

(* What holds of a call goes on holding while the others take their steps. *)
LEMMA SameKeepsInv ==
    ASSUME NEW x \in Calls, RunInv(x), CallerInv(x), Same(x)
    PROVE RunInv(x)' /\ CallerInv(x)'
BY DEF Same, SameCaller, SameRun, RunInv, CallerInv, Answered, AfterDo, ExecReport

(* What the call itself does keeps the invariant: the caller has read only   *)
(* what is final, and the function leaves alone what the caller has read.    *)
LEMMA StepKeepsInv ==
    ASSUME TypeOK, NEW x \in Calls, RunInv(x), CallerInv(x),
           Caller(x) \/ Request(x) \/ Hystrix(x)
    PROVE RunInv(x)' /\ CallerInv(x)'
<1> DEFINE Goal == RunInv(x)' /\ CallerInv(x)'
<1> HIDE DEF Goal
<1>1. ASSUME StartRequest(x) PROVE Goal
  <2>1. /\ pc[x] = "start"
        /\ run[x] = "none"
        /\ kind'[x] = kind[x]
        /\ pc'[x] = "wait"
        /\ err'[x] = err[x]
        /\ reports'[x] = reports[x]
        /\ returned'[x] = returned[x]
        /\ result'[x] = result[x]
        /\ run'[x] = "context"
        /\ outcome'[x] = outcome[x]
        /\ done'[x] = done[x]
        /\ status'[x] = status[x]
        /\ out'[x] = out[x]
        /\ conn'[x] = conn[x]
    BY <1>1 DEF StartRequest, TypeOK, Kinds, CallerAt, RunAt, SameCaller, SameRun, callerVars, hystrixVars, sharedVars, answerVars
  <2>2. RunInv(x)'
    BY <2>1 DEF RunInv, Answered, NoOutcome, NoErr, RunErrors, SameCaller, SameRun
  <2>3. CallerInv(x)'
    BY <2>1 DEF NoResponse, RunInv, Answered, CallerInv, AfterDo, NoErr, NoOutcome, ExecReport, SameCaller, SameRun
  <2> QED
    BY <2>2, <2>3 DEF Goal
<1>2. ASSUME DoReturns(x) PROVE Goal
  <2>1. /\ pc[x] = "wait"
        /\ err'[x] = NoErr => done[x]
        /\ kind'[x] = kind[x]
        /\ pc'[x] = "cancel"
        /\ reports'[x] = reports[x]
        /\ returned'[x] = returned[x]
        /\ result'[x] = result[x]
        /\ SameRun(x)
        /\ conn'[x] = conn[x]
    BY <1>2 DEF DoReturns, TypeOK, Kinds, CallerAt, RunAt, SameCaller, SameRun, callerVars, hystrixVars, sharedVars, answerVars, NilIsReady, ErrorIsReady
  <2>2. RunInv(x)'
    BY <2>1 DEF RunInv, Answered, NoOutcome, NoErr, RunErrors, SameCaller, SameRun
  <2>3. CallerInv(x)'
    BY <2>1 DEF NoResponse, RunInv, Answered, CallerInv, AfterDo, NoErr, NoOutcome, ExecReport, SameCaller, SameRun
  <2> QED
    BY <2>2, <2>3 DEF Goal
<1>3. ASSUME CancelRequest(x) PROVE Goal
  <2>1. /\ pc[x] = "cancel"
        /\ conn'[x] \in {conn[x], "free"}
        /\ kind'[x] = kind[x]
        /\ pc'[x] = "report"
        /\ err'[x] = err[x]
        /\ reports'[x] = reports[x]
        /\ returned'[x] = returned[x]
        /\ result'[x] = result[x]
        /\ SameRun(x)
    BY <1>3 DEF CancelRequest, TypeOK, Kinds, CallerAt, RunAt, SameCaller, SameRun, callerVars, hystrixVars, sharedVars, answerVars
  <2>2. RunInv(x)'
    BY <2>1 DEF RunInv, Answered, NoOutcome, NoErr, RunErrors, SameCaller, SameRun
  <2>3. CallerInv(x)'
    BY <2>1 DEF NoResponse, RunInv, Answered, CallerInv, AfterDo, NoErr, NoOutcome, ExecReport, SameCaller, SameRun
  <2> QED
    BY <2>2, <2>3 DEF Goal
<1>4. ASSUME ReportToMonitor(x) PROVE Goal
  <2>1. /\ pc[x] = "report"
        /\ kind[x] = "exec" => reports'[x] = Append(reports[x], ExecReport(x))
        /\ kind[x] # "exec" /\ status[x] # NoResponse => reports'[x] = reports[x]
        /\ kind[x] # "exec" /\ status[x] = NoResponse => reports'[x] = Append(reports[x], "failed")
        /\ kind'[x] = kind[x]
        /\ pc'[x] = "return"
        /\ err'[x] = err[x]
        /\ returned'[x] = returned[x]
        /\ result'[x] = result[x]
        /\ SameRun(x)
        /\ conn'[x] = conn[x]
    BY <1>4 DEF ReportToMonitor, TypeOK, Kinds, CallerAt, RunAt, SameCaller, SameRun, callerVars, hystrixVars, sharedVars, answerVars, LeftForExtract
  <2>2. RunInv(x)'
    BY <2>1 DEF RunInv, Answered, NoOutcome, NoErr, RunErrors, SameCaller, SameRun
  <2>3. CallerInv(x)'
    BY <2>1 DEF NoResponse, RunInv, Answered, CallerInv, AfterDo, NoErr, NoOutcome, ExecReport, SameCaller, SameRun
  <2> QED
    BY <2>2, <2>3 DEF Goal
<1>5. ASSUME Return(x) PROVE Goal
  <2>1. /\ pc[x] = "return"
        /\ kind[x] \in {"exec", "response"}
        /\ kind'[x] = kind[x]
        /\ pc'[x] = IF kind[x] = "exec" THEN "done" ELSE "extract"
        /\ err'[x] = err[x]
        /\ reports'[x] = reports[x]
        /\ returned'[x] = status[x]
        /\ result'[x] = result[x]
        /\ SameRun(x)
        /\ conn'[x] = conn[x]
    BY <1>5 DEF Return, TypeOK, Kinds, CallerAt, RunAt, SameCaller, SameRun, callerVars, hystrixVars, sharedVars, answerVars
  <2>2. RunInv(x)'
    BY <2>1 DEF RunInv, Answered, NoOutcome, NoErr, RunErrors, SameCaller, SameRun
  <2>3. CallerInv(x)'
    BY <2>1 DEF NoResponse, RunInv, Answered, CallerInv, AfterDo, NoErr, NoOutcome, ExecReport, SameCaller, SameRun
  <2> QED
    BY <2>2, <2>3 DEF Goal
<1>6. ASSUME Extract(x) PROVE Goal
  <2>1. PICK res \in ResultsOf(x) :
            /\ result' = [result EXCEPT ![x] = res]
            /\ reports' = [reports EXCEPT ![x] = @ \o ReportsOf(x, res)]
            /\ conn' = [conn EXCEPT ![x] =
                    IF ClosesBody(x, res) \/ returned[x] = 200 THEN "free" ELSE @]
    BY <1>6 DEF Extract
  <2>2. /\ pc[x] = "extract" /\ pc'[x] = "done"
        /\ kind'[x] = kind[x] /\ err'[x] = err[x] /\ returned'[x] = returned[x]
        /\ SameRun(x)
    BY <1>6 DEF Extract, TypeOK, CallerAt, SameRun, hystrixVars, sharedVars
  <2>3. /\ result'[x] = res
        /\ reports'[x] = reports[x] \o ReportsOf(x, res)
        /\ conn'[x] \in {conn[x], "free"}
        /\ err[x] = NoErr /\ returned[x] # NoResponse => conn'[x] = "free"
    BY <2>1 DEF TypeOK, ClosesBody
  <2>4. RunInv(x)'
    BY <2>2, <2>3 DEF RunInv, Answered, NoOutcome, NoErr, RunErrors, SameCaller, SameRun
  <2>5. /\ res # "panic"
        /\ returned[x] = NoResponse => res # "ok"
    BY <2>1, <2>2 DEF ResultsOf, CallerInv, NoErr
  <2>6. /\ reports'[x] # <<>>
        /\ reports'[x][Len(reports'[x])] = "success" <=> res = "ok"
    <3>1. CASE returned[x] = NoResponse
      <4>1. ReportsOf(x, res) = <<>>
        BY <3>1 DEF ReportsOf
      <4>2. reports[x] = <<"failed">> /\ res # "ok"
        BY <2>2, <2>5, <3>1 DEF CallerInv
      <4> QED
        BY <2>3, <4>1, <4>2
    <3>2. CASE returned[x] # NoResponse /\ res = "ok"
      <4>1. ReportsOf(x, res) = <<"success">>
        BY <3>2 DEF ReportsOf
      <4>2. reports[x] \in {<<>>, <<"failed">>}
        BY <2>2 DEF CallerInv
      <4> QED
        BY <2>3, <3>2, <4>1, <4>2
    <3>3. CASE returned[x] # NoResponse /\ res # "ok"
      <4>1. ReportsOf(x, res) = <<"failed">>
        BY <3>3 DEF ReportsOf
      <4>2. reports[x] \in {<<>>, <<"failed">>}
        BY <2>2 DEF CallerInv
      <4> QED
        BY <2>3, <3>3, <4>1, <4>2
    <3> QED
      BY <3>1, <3>2, <3>3
  <2>7. CallerInv(x)'
    BY <2>2, <2>3, <2>5, <2>6 DEF CallerInv, AfterDo, SameRun
  <2> QED
    BY <2>4, <2>7 DEF Goal
<1>7. ASSUME MakeContext(x) PROVE Goal
  <2>1. /\ run[x] = "context"
        /\ SameCaller(x)
        /\ run'[x] = "build"
        /\ outcome'[x] = outcome[x]
        /\ done'[x] = done[x]
        /\ status'[x] = status[x]
        /\ out'[x] = out[x]
        /\ conn'[x] = conn[x]
    BY <1>7 DEF MakeContext, TypeOK, Kinds, CallerAt, RunAt, SameCaller, SameRun, callerVars, hystrixVars, sharedVars, answerVars
  <2>2. RunInv(x)'
    BY <2>1 DEF RunInv, Answered, NoOutcome, NoErr, RunErrors, SameCaller, SameRun
  <2>3. CallerInv(x)'
    BY <2>1 DEF NoResponse, RunInv, Answered, CallerInv, AfterDo, NoErr, NoOutcome, ExecReport, SameCaller, SameRun
  <2> QED
    BY <2>2, <2>3 DEF Goal
<1>8. ASSUME BuildFails(x) PROVE Goal
  <2>1. /\ run[x] = "build"
        /\ SameCaller(x)
        /\ run'[x] = "assign"
        /\ outcome'[x] = [status |-> 0, err |-> "failed"]
        /\ done'[x] = done[x]
        /\ status'[x] = status[x]
        /\ out'[x] = out[x]
        /\ conn'[x] = conn[x]
    BY <1>8 DEF BuildFails, TypeOK, Kinds, CallerAt, RunAt, SameCaller, SameRun, callerVars, hystrixVars, sharedVars, answerVars, Ends
  <2>2. RunInv(x)'
    BY <2>1 DEF RunInv, Answered, NoOutcome, NoErr, RunErrors, SameCaller, SameRun
  <2>3. CallerInv(x)'
    BY <2>1 DEF NoResponse, RunInv, Answered, CallerInv, AfterDo, NoErr, NoOutcome, ExecReport, SameCaller, SameRun
  <2> QED
    BY <2>2, <2>3 DEF Goal
<1>9. ASSUME SendRequest(x) PROVE Goal
  <2>1. /\ run[x] = "build"
        /\ SameCaller(x)
        /\ run'[x] = "http"
        /\ outcome'[x] = outcome[x]
        /\ done'[x] = done[x]
        /\ status'[x] = status[x]
        /\ out'[x] = out[x]
        /\ conn'[x] = conn[x]
    BY <1>9 DEF SendRequest, TypeOK, Kinds, CallerAt, RunAt, SameCaller, SameRun, callerVars, hystrixVars, sharedVars, answerVars
  <2>2. RunInv(x)'
    BY <2>1 DEF RunInv, Answered, NoOutcome, NoErr, RunErrors, SameCaller, SameRun
  <2>3. CallerInv(x)'
    BY <2>1 DEF NoResponse, RunInv, Answered, CallerInv, AfterDo, NoErr, NoOutcome, ExecReport, SameCaller, SameRun
  <2> QED
    BY <2>2, <2>3 DEF Goal
<1>10. ASSUME RequestFails(x) PROVE Goal
  <2>1. /\ run[x] = "http"
        /\ outcome'[x].err \in RunErrors
        /\ SameCaller(x)
        /\ run'[x] = "assign"
        /\ done'[x] = done[x]
        /\ status'[x] = status[x]
        /\ out'[x] = out[x]
        /\ conn'[x] = conn[x]
    BY <1>10 DEF RequestFails, TypeOK, Kinds, CallerAt, RunAt, SameCaller, SameRun, callerVars, hystrixVars, sharedVars, answerVars, Ends
  <2>2. RunInv(x)'
    BY <2>1 DEF RunInv, Answered, NoOutcome, NoErr, RunErrors, SameCaller, SameRun
  <2>3. CallerInv(x)'
    BY <2>1 DEF NoResponse, RunInv, Answered, CallerInv, AfterDo, NoErr, NoOutcome, ExecReport, SameCaller, SameRun
  <2> QED
    BY <2>2, <2>3 DEF Goal
<1>11. ASSUME AnswerArrives(x) PROVE Goal
  <2>1. PICK s \in Statuses :
            \/ kind[x] = "response" /\ Ends(x, s, NoErr) /\ RunAt(x, "http", "assign")
            \/ kind[x] = "exec" /\ ~TakesStatus(s) /\ Ends(x, s, "failed") /\ RunAt(x, "http", "assign")
            \/ kind[x] = "exec" /\ TakesStatus(s) /\ Ends(x, s, NoErr) /\ RunAt(x, "http", "body")
    BY <1>11 DEF AnswerArrives
  <2>2. SameCaller(x) /\ done'[x] = done[x] /\ status'[x] = status[x] /\ out'[x] = out[x]
    BY <1>11 DEF AnswerArrives, SameCaller, callerVars, hystrixVars, sharedVars
  <2>3. /\ run[x] = "http"
        /\ outcome'[x].status = s /\ s # 0
        /\ \/ run'[x] = "assign" /\ kind[x] = "response"
           \/ run'[x] = "assign" /\ outcome'[x].err = "failed"
           \/ run'[x] = "body" /\ kind[x] = "exec" /\ IsSuccess(s)
    BY <2>1, StatusesAssumption DEF TypeOK, Ends, RunAt, TakesStatus, NoErr
  <2>4. ~done[x]
    BY <2>3 DEF RunInv
  <2>5. RunInv(x)'
    BY <2>2, <2>3, <2>4 DEF RunInv, Answered, NoErr, SameCaller
  <2>6. CallerInv(x)'
    BY <2>2, <2>3, <2>4 DEF CallerInv, AfterDo, ExecReport, SameCaller
  <2> QED
    BY <2>5, <2>6 DEF Goal
<1>12. ASSUME ReadBody(x) PROVE Goal
  <2>1. SameCaller(x) /\ done'[x] = done[x] /\ status'[x] = status[x]
    BY <1>12 DEF ReadBody, SameCaller, callerVars, hystrixVars, sharedVars
  <2>2. run[x] = "body" /\ run'[x] = "assign" /\ conn'[x] = "free"
    BY <1>12 DEF ReadBody, TypeOK, RunAt
  <2>3. \/ outcome'[x].err = "failed"
        \/ outcome'[x].status = outcome[x].status /\ out'[x] = "decoded"
    BY <1>12 DEF ReadBody, TypeOK, Ends
  <2>4. ~done[x]
    BY <2>2 DEF RunInv
  <2>5. RunInv(x)'
    BY <2>1, <2>2, <2>3, <2>4 DEF RunInv, Answered, NoErr, SameCaller, IsSuccess
  <2>6. CallerInv(x)'
    BY <2>1, <2>2, <2>4 DEF CallerInv, AfterDo, ExecReport, SameCaller
  <2> QED
    BY <2>5, <2>6 DEF Goal
<1>13. ASSUME Assign(x) PROVE Goal
  <2>1. /\ run[x] = "assign"
        /\ SameCaller(x)
        /\ run'[x] = "signal"
        /\ outcome'[x] = outcome[x]
        /\ done'[x] = done[x]
        /\ status'[x] = outcome[x].status
        /\ out'[x] = out[x]
        /\ conn'[x] = conn[x]
    BY <1>13 DEF Assign, TypeOK, Kinds, CallerAt, RunAt, SameCaller, SameRun, callerVars, hystrixVars, sharedVars, answerVars, Captured
  <2>2. RunInv(x)'
    BY <2>1 DEF RunInv, Answered, NoOutcome, NoErr, RunErrors, SameCaller, SameRun
  <2>3. CallerInv(x)'
    BY <2>1 DEF NoResponse, RunInv, Answered, CallerInv, AfterDo, NoErr, NoOutcome, ExecReport, SameCaller, SameRun
  <2> QED
    BY <2>2, <2>3 DEF Goal
<1>14. ASSUME Reject(x) PROVE Goal
  <2>1. /\ run[x] = "context"
        /\ SameCaller(x)
        /\ run'[x] = "ended"
        /\ outcome'[x] = outcome[x]
        /\ done'[x] = done[x]
        /\ status'[x] = status[x]
        /\ out'[x] = out[x]
        /\ conn'[x] = conn[x]
    BY <1>14 DEF Reject, TypeOK, Kinds, CallerAt, RunAt, SameCaller, SameRun, callerVars, hystrixVars, sharedVars, answerVars
  <2>2. RunInv(x)'
    BY <2>1 DEF RunInv, Answered, NoOutcome, NoErr, RunErrors, SameCaller, SameRun
  <2>3. CallerInv(x)'
    BY <2>1 DEF NoResponse, RunInv, Answered, CallerInv, AfterDo, NoErr, NoOutcome, ExecReport, SameCaller, SameRun
  <2> QED
    BY <2>2, <2>3 DEF Goal
<1>15. ASSUME Signal(x) PROVE Goal
  <2>1. /\ run[x] = "signal"
        /\ done'[x] <=> outcome[x].err = NoErr
        /\ SameCaller(x)
        /\ run'[x] = "finish"
        /\ outcome'[x] = outcome[x]
        /\ status'[x] = status[x]
        /\ out'[x] = out[x]
        /\ conn'[x] = conn[x]
    BY <1>15 DEF Signal, TypeOK, Kinds, CallerAt, RunAt, SameCaller, SameRun, callerVars, hystrixVars, sharedVars, answerVars
  <2>2. RunInv(x)'
    BY <2>1 DEF RunInv, Answered, NoOutcome, NoErr, RunErrors, SameCaller, SameRun
  <2>3. CallerInv(x)'
    BY <2>1 DEF NoResponse, RunInv, Answered, CallerInv, AfterDo, NoErr, NoOutcome, ExecReport, SameCaller, SameRun
  <2> QED
    BY <2>2, <2>3 DEF Goal
<1>16. ASSUME Finish(x) PROVE Goal
  <2>1. /\ run[x] = "finish"
        /\ SameCaller(x)
        /\ run'[x] = "ended"
        /\ outcome'[x] = outcome[x]
        /\ done'[x] = done[x]
        /\ status'[x] = status[x]
        /\ out'[x] = out[x]
        /\ conn'[x] = conn[x]
    BY <1>16 DEF Finish, TypeOK, Kinds, CallerAt, RunAt, SameCaller, SameRun, callerVars, hystrixVars, sharedVars, answerVars
  <2>2. RunInv(x)'
    BY <2>1 DEF RunInv, Answered, NoOutcome, NoErr, RunErrors, SameCaller, SameRun
  <2>3. CallerInv(x)'
    BY <2>1 DEF NoResponse, RunInv, Answered, CallerInv, AfterDo, NoErr, NoOutcome, ExecReport, SameCaller, SameRun
  <2> QED
    BY <2>2, <2>3 DEF Goal
<1>17. ASSUME TimerFires(x) PROVE Goal
  <2>1. /\ SameCaller(x)
        /\ SameRun(x)
        /\ conn'[x] = conn[x]
    BY <1>17 DEF TimerFires, TypeOK, Kinds, CallerAt, RunAt, SameCaller, SameRun, callerVars, hystrixVars, sharedVars, answerVars
  <2>2. RunInv(x)'
    BY <2>1 DEF RunInv, Answered, NoOutcome, NoErr, RunErrors, SameCaller, SameRun
  <2>3. CallerInv(x)'
    BY <2>1 DEF NoResponse, RunInv, Answered, CallerInv, AfterDo, NoErr, NoOutcome, ExecReport, SameCaller, SameRun
  <2> QED
    BY <2>2, <2>3 DEF Goal
<1>18. Caller(x) => Goal
  BY <1>1, <1>2, <1>3, <1>4, <1>5, <1>6 DEF Caller
<1>19. Request(x) => Goal
  BY <1>7, <1>8, <1>9, <1>10, <1>11, <1>12, <1>13 DEF Request
<1>20. Hystrix(x) => Goal
  BY <1>14, <1>15, <1>16, <1>17 DEF Hystrix
<1> QED
  BY <1>18, <1>19, <1>20 DEF Goal

(* The invariant of the two: what the caller may rely on.                    *)
THEOREM Inductive == Spec => []IInv
<1>1. Init => \A x \in Calls : RunInv(x) /\ CallerInv(x)
  <2> SUFFICES ASSUME Init, NEW x \in Calls PROVE RunInv(x) /\ CallerInv(x)
    OBVIOUS
  <2>1. /\ pc[x] = "start" /\ run[x] = "none" /\ outcome[x] = NoOutcome /\ ~done[x]
        /\ status[x] = 0 /\ reports[x] = <<>> /\ result[x] = "none"
    BY DEF Init
  <2> QED
    BY <2>1 DEF RunInv, CallerInv, AfterDo
<1>2. TypeOK /\ (\A x \in Calls : RunInv(x) /\ CallerInv(x)) /\ [Next]_vars
        => (\A x \in Calls : RunInv(x) /\ CallerInv(x))'
  <2> SUFFICES ASSUME TypeOK, \A x \in Calls : RunInv(x) /\ CallerInv(x), [Next]_vars,
                      NEW x \in Calls
               PROVE RunInv(x)' /\ CallerInv(x)'
    OBVIOUS
  <2>1. ASSUME NEW y \in Calls, Caller(y) \/ Request(y) \/ Hystrix(y)
        PROVE RunInv(x)' /\ CallerInv(x)'
    <3>1. CASE x = y
      BY <2>1, <3>1, StepKeepsInv
    <3>2. CASE x # y
      BY <2>1, <3>2, OthersStaySame, SameKeepsInv
    <3> QED
      BY <3>1, <3>2
  <2>2. CASE UNCHANGED vars
    <3>1. Same(x)
      BY <2>2 DEF vars, Same, SameCaller, SameRun, callerVars, hystrixVars, sharedVars, answerVars
    <3> QED
      BY <3>1, SameKeepsInv
  <2> QED
    BY <2>1, <2>2 DEF Next
<1> QED
  BY <1>1, <1>2, TypeCorrect, PTL DEF Spec, IInv

----------------------------------------------------------------------------
(* A call that returns no error has an answer, whatever the timer of hystrix *)
(* does: the caller has heard of the nil, and the function says nil after    *)
(* it has assigned the answer and decoded the body.                          *)
THEOREM NoErrorHasAnswer == Spec => []NoErrorMeansAnswer
<1>1. IInv => NoErrorMeansAnswer
  BY DEF IInv, NoErrorMeansAnswer, RunInv, CallerInv, Answered
<1> QED
  BY <1>1, Inductive, PTL

(* A failure that is not a timeout is known only once the function has ended, *)
(* so the status has its value by then. The code reported is that status, or *)
(* what it was before the function assigned it.                              *)
CodeInv(x) ==
    /\ errChan[x] \notin {NoErr, "timeout"} => run[x] = "ended"
    /\ AfterDo(x) /\ err[x] \notin {NoErr, "timeout"} => run[x] = "ended"
    /\ (kind[x] = "exec" /\ err[x] # NoErr) =>
        /\ pc[x] = "return" => code[x] = status[x] \/ (code[x] = 0 /\ err[x] = "timeout")
        /\ pc[x] = "done" => code[x] = returned[x] \/ (code[x] = 0 /\ err[x] = "timeout")

SameCode(x) ==
    /\ kind'[x] = kind[x] /\ pc'[x] = pc[x] /\ err'[x] = err[x] /\ errChan'[x] = errChan[x]
    /\ code'[x] = code[x] /\ returned'[x] = returned[x]

(* A step of one call leaves the errors and codes of the others alone.       *)
LEMMA OthersSameCode ==
    ASSUME TypeOK, NEW x \in Calls, NEW y \in Calls, x # y,
           Caller(y) \/ Request(y) \/ Hystrix(y)
    PROVE  SameCode(x) /\ run'[x] = run[x] /\ status'[x] = status[x]
<1> USE DEF SameCode, TypeOK, callerVars, hystrixVars
<1>1. run'[x] = run[x] /\ status'[x] = status[x] /\ SameCaller(x)
  BY OthersStaySame DEF Same, SameRun
<1>2. CASE Caller(y)
  BY <1>1, <1>2
     DEF Caller, StartRequest, DoReturns, CancelRequest, ReportToMonitor, Return, Extract, SameCaller
<1>3. CASE Request(y)
  BY <1>1, <1>3
     DEF Request, MakeContext, BuildFails, SendRequest, RequestFails, AnswerArrives, ReadBody, Assign
<1>4. CASE Hystrix(y)
  BY <1>1, <1>4 DEF Hystrix, Reject, Signal, Finish, TimerFires
<1> QED
  BY <1>2, <1>3, <1>4

(* A step of the call keeps what is known of its errors and its code.        *)
LEMMA StepKeepsCode ==
    ASSUME IInv, NEW x \in Calls, CodeInv(x), Caller(x) \/ Request(x) \/ Hystrix(x)
    PROVE  CodeInv(x)'
<1>1. TypeOK /\ RunInv(x) /\ CallerInv(x)
  BY DEF IInv
<1> USE <1>1 DEF CallerAt, RunAt, callerVars, hystrixVars, sharedVars
<1>2. CASE StartRequest(x) \/ CancelRequest(x) \/ Extract(x)
  <2>1. /\ kind'[x] = kind[x] /\ err'[x] = err[x] /\ errChan'[x] = errChan[x]
        /\ \/ pc[x] = "start" /\ pc'[x] = "wait" /\ run[x] = "none"
           \/ pc[x] = "cancel" /\ pc'[x] = "report" /\ run'[x] = run[x]
           \/ pc[x] = "extract" /\ kind[x] = "response" /\ pc'[x] = "done" /\ run'[x] = run[x]
    BY <1>2 DEF TypeOK, StartRequest, CancelRequest, Extract, CallerInv
  <2> QED
    BY <2>1 DEF CodeInv, AfterDo
<1>3. CASE DoReturns(x)
  <2>1. /\ pc'[x] = "cancel" /\ run'[x] = run[x] /\ errChan'[x] = errChan[x]
        /\ err'[x] \in {NoErr, errChan[x]}
    BY <1>3 DEF TypeOK, DoReturns
  <2> QED
    BY <2>1 DEF CodeInv, AfterDo
<1>4. CASE ReportToMonitor(x)
  <2>1. /\ pc[x] = "report" /\ pc'[x] = "return" /\ run'[x] = run[x]
        /\ errChan'[x] = errChan[x] /\ err'[x] = err[x] /\ kind'[x] = kind[x]
        /\ status'[x] = status[x]
        /\ kind[x] = "exec" /\ err[x] # NoErr => code'[x] = status[x]
    BY <1>4 DEF TypeOK, ReportToMonitor, ExecReport
  <2> QED
    BY <2>1 DEF CodeInv, AfterDo
<1>5. CASE Return(x)
  <2>1. /\ pc[x] = "return" /\ pc'[x] = (IF kind[x] = "exec" THEN "done" ELSE "extract")
        /\ run'[x] = run[x] /\ errChan'[x] = errChan[x] /\ err'[x] = err[x]
        /\ kind'[x] = kind[x] /\ code'[x] = code[x] /\ returned'[x] = status[x]
    BY <1>5 DEF TypeOK, Return
  <2> QED
    BY <2>1 DEF CodeInv, AfterDo
<1>6. CASE Request(x)
  <2>1. SameCode(x) /\ run[x] \notin {"ended", "none"}
    BY <1>6 DEF Request, MakeContext, BuildFails, SendRequest, RequestFails, AnswerArrives,
                ReadBody, Assign, SameCode
  <2>2. errChan[x] \in {NoErr, "timeout"} /\ (AfterDo(x) => err[x] \in {NoErr, "timeout"})
    BY <2>1 DEF CodeInv
  <2>3. status'[x] = status[x] \/ status[x] = 0
    BY <1>6 DEF Request, MakeContext, BuildFails, SendRequest, RequestFails, AnswerArrives,
                ReadBody, Assign, RunInv
  <2> QED
    BY <2>1, <2>2, <2>3 DEF CodeInv, AfterDo, SameCode
<1>7. CASE Hystrix(x)
  <2>1. /\ kind' = kind /\ pc' = pc /\ err' = err /\ code' = code /\ returned' = returned
        /\ status' = status
    BY <1>7 DEF Hystrix, Reject, Signal, Finish, TimerFires
  <2>2. /\ \/ run'[x] = "ended"
           \/ errChan'[x] = errChan[x]
           \/ run'[x] = run[x] /\ errChan'[x] = "timeout"
        /\ run[x] # "ended"
    BY <1>7 DEF TypeOK, Hystrix, Reject, Signal, Finish, TimerFires
  <2> QED
    BY <2>1, <2>2 DEF CodeInv, AfterDo
<1> QED
  BY <1>2, <1>3, <1>4, <1>5, <1>6, <1>7 DEF Caller

(* A failure is reported with the status its caller gets; after a timeout,   *)
(* whose status may still come in, it may be reported with 0.                *)
THEOREM FailureCodeIsTheStatus == Spec => []FailureCodeIsReturned
<1> DEFINE I == \A x \in Calls : CodeInv(x)
<1>1. Init => I
  BY DEF Init, CodeInv, AfterDo, NoErr
<1>2. IInv /\ I /\ [Next]_vars => I'
  <2> SUFFICES ASSUME IInv, I, [Next]_vars, NEW x \in Calls PROVE CodeInv(x)'
    OBVIOUS
  <2>1. ASSUME NEW y \in Calls, Caller(y) \/ Request(y) \/ Hystrix(y) PROVE CodeInv(x)'
    <3>1. CASE x = y
      BY <2>1, <3>1, StepKeepsCode
    <3>2. CASE x # y
      BY <2>1, <3>2, OthersSameCode DEF IInv, SameCode, CodeInv, AfterDo
    <3> QED
      BY <3>1, <3>2
  <2>2. CASE UNCHANGED vars
    BY <2>2 DEF vars, callerVars, hystrixVars, sharedVars, CodeInv, AfterDo
  <2> QED
    BY <2>1, <2>2 DEF Next
<1>3. IInv /\ I => FailureCodeIsReturned
  <2> SUFFICES ASSUME IInv, I, NEW x \in Calls, kind[x] = "exec", pc[x] = "done",
                      reports[x] = <<"failed">>
               PROVE  code[x] = returned[x] \/ (code[x] = 0 /\ err[x] = "timeout")
    BY DEF FailureCodeIsReturned
  <2>1. reports[x] = <<ExecReport(x)>>
    BY DEF IInv, CallerInv
  <2>2. ExecReport(x) = "failed"
    BY <2>1
  <2>3. err[x] # NoErr
    BY <2>2 DEF ExecReport
  <2> QED
    BY <2>3 DEF CodeInv
<1> HIDE DEF I
<1> QED
  BY <1>1, <1>2, <1>3, Inductive, PTL DEF Spec

(* Response and ExtractHttpResponse leave no call unreported between them:   *)
(* a response that the report finds is still there for the return.           *)
THEOREM EveryCallIsReported == Spec => []NeverUnreported
<1>1. IInv => NeverUnreported
  <2> SUFFICES ASSUME IInv, NEW x \in Calls, pc[x] = "done" PROVE reports[x] # <<>>
    BY DEF NeverUnreported
  <2>1. kind[x] \in {"exec", "response"} /\ CallerInv(x)
    BY DEF IInv, TypeOK, Kinds
  <2> QED
    BY <2>1 DEF CallerInv
<1> QED
  BY <1>1, Inductive, PTL

(* The last report of a call of Response is what the caller is told.         *)
THEOREM LastReportIsTheResult == Spec => []LastReportIsResult
<1>1. IInv => LastReportIsResult
  BY DEF IInv, LastReportIsResult, CallerInv
<1> QED
  BY <1>1, Inductive, PTL

(* A call without an error holds no connection in the end.                   *)
THEOREM ConnectionsAreReleased == Spec => []ConnectionIsReleased
<1>1. IInv => ConnectionIsReleased
  <2> SUFFICES ASSUME IInv, NEW x \in Calls, pc[x] = "done", err[x] = NoErr
               PROVE conn[x] = "free"
    BY DEF ConnectionIsReleased
  <2>1. kind[x] \in {"exec", "response"} /\ CallerInv(x) /\ RunInv(x)
    BY DEF IInv, TypeOK, Kinds
  <2> QED
    BY <2>1 DEF CallerInv, RunInv, Answered, AfterDo
<1> QED
  BY <1>1, Inductive, PTL

(* What was returned without an error is final: the function has passed the  *)
(* steps that write status and out before hystrix heard of the nil.          *)
THEOREM ReturnsAreFinal == Spec => ReturnedIsFinal
<1>1. IInv /\ [Next]_vars =>
        [\A x \in Calls : (pc[x] = "done" /\ err[x] = NoErr) =>
            status'[x] = status[x] /\ out'[x] = out[x]]_vars
  <2> SUFFICES ASSUME IInv, [Next]_vars, NEW x \in Calls, pc[x] = "done", err[x] = NoErr
               PROVE status'[x] = status[x] /\ out'[x] = out[x]
    OBVIOUS
  <2>1. TypeOK
    BY DEF IInv
  <2>2. run[x] \in {"finish", "ended"}
    BY DEF IInv, RunInv, CallerInv, AfterDo
  <2>3. ASSUME NEW y \in Calls, Caller(y) \/ Request(y) \/ Hystrix(y)
        PROVE status'[x] = status[x] /\ out'[x] = out[x]
    <3>1. CASE x # y
      BY <2>1, <2>3, <3>1, OthersStaySame DEF Same, SameRun
    <3>2. CASE x = y
      <4> USE DEF RunAt, sharedVars, answerVars, hystrixVars
      <4>1. ~Request(x)
        BY <2>1, <2>2
           DEF TypeOK, Request, MakeContext, BuildFails, SendRequest, RequestFails,
               AnswerArrives, ReadBody, Assign
      <4>2. CASE Caller(x)
        BY <4>2 DEF Caller, StartRequest, DoReturns, CancelRequest, ReportToMonitor, Return, Extract
      <4>3. CASE Hystrix(x)
        BY <4>3 DEF Hystrix, Reject, Signal, Finish, TimerFires
      <4> QED
        BY <2>3, <3>2, <4>1, <4>2, <4>3
    <3> QED
      BY <3>1, <3>2
  <2>4. CASE UNCHANGED vars
    BY <2>4 DEF vars, sharedVars, answerVars
  <2> QED
    BY <2>3, <2>4 DEF Next
<1> QED
  BY <1>1, Inductive, PTL DEF Spec, ReturnedIsFinal
----------------------------------------------------------------------------
(* The refinement of Call. A step is seen by its own call only, and there it *)
(* is the report, the return, or nothing.                                    *)
Answered2xx == [status : {s \in Statuses : IsSuccess(s)}, whole : {TRUE}]

LooksSame(x) ==
    Verdict(x)' = Verdict(x) /\ Received(x)' = Received(x) /\ reports'[x] = reports[x]

Reports(x) ==
    /\ Verdict(x) = "pending" /\ Verdict(x)' = "pending"
    /\ Received(x)' = Received(x)
    /\ reports[x] = <<>>
    /\ \E v \in {"success", "failed"} : reports'[x] = <<v>>

Returns(x) ==
    /\ Verdict(x) = "pending"
    /\ \E v \in {"success", "failed"} :
        /\ Verdict(x)' = v
        /\ IF v = "success" THEN Received(x)' \in Answered2xx ELSE Received(x)' = Nothing
        /\ \/ reports[x] = <<v>> /\ reports'[x] = reports[x]
           \/ reports[x] \in {<<>>, <<"failed">>} /\ reports'[x] = Append(reports[x], v)

(* A call that nothing touches looks the same.                               *)
LEMMA SameLooksSame ==
    ASSUME NEW x \in Calls, SameCaller(x), out'[x] = out[x]
    PROVE  LooksSame(x)
BY DEF SameCaller, LooksSame, Verdict, Succeeded, Received

(* Before it is done a call looks the same but for its reports.              *)
LEMMA UndoneLooksSame ==
    ASSUME NEW x \in Calls, pc[x] # "done", pc'[x] # "done"
    PROVE  /\ Verdict(x) = "pending" /\ Verdict(x)' = "pending"
           /\ Received(x) = Nothing /\ Received(x)' = Nothing
BY DEF Verdict, Received, Nothing

(* The report of Exec, or of a nil response.                                 *)
LEMMA ReportLooksLikeReport ==
    ASSUME IInv, NEW x \in Calls, ReportToMonitor(x)
    PROVE  LooksSame(x) \/ Reports(x)
<1>1. /\ pc[x] = "report" /\ pc'[x] = "return" /\ reports[x] = <<>>
      /\ reports'[x] = IF kind[x] = "exec" THEN Append(reports[x], ExecReport(x))
                       ELSE IF LeftForExtract(x) THEN reports[x]
                       ELSE Append(reports[x], "failed")
  BY DEF ReportToMonitor, CallerAt, IInv, TypeOK, CallerInv
<1>2. ExecReport(x) \in {"success", "failed"}
  BY DEF ExecReport
<1>3. \/ reports'[x] = reports[x]
      \/ \E v \in {"success", "failed"} : reports'[x] = <<v>>
  BY <1>1, <1>2
<1> QED
  BY <1>1, <1>3, UndoneLooksSame DEF LooksSame, Reports

(* Exec returns what it reported, and an answer if that was a success.       *)
LEMMA ExecReturnsLooksLikeReturn ==
    ASSUME IInv, NEW x \in Calls, Return(x), kind[x] = "exec"
    PROVE  Returns(x)
<1> DEFINE v == ExecReport(x)
<1>1. /\ pc[x] = "return" /\ pc'[x] = "done"
      /\ kind'[x] = "exec" /\ err'[x] = err[x] /\ out'[x] = out[x]
      /\ returned'[x] = status[x] /\ reports'[x] = reports[x]
  BY DEF Return, CallerAt, IInv, TypeOK, answerVars
<1>2. reports[x] = <<v>>
  BY <1>1 DEF IInv, CallerInv
<1>3. v \in {"success", "failed"} /\ Verdict(x) = "pending" /\ Verdict(x)' = v
  BY <1>1 DEF Verdict, Succeeded, ExecReport
<1>4. CASE v = "success"
  <2>1. IsSuccess(status[x]) /\ status[x] \in Statuses /\ out[x] = "decoded"
    <3>1. err[x] = NoErr
      BY <1>4 DEF ExecReport
    <3>2. Answered(x) /\ status[x] = outcome[x].status
      BY <1>1, <3>1 DEF IInv, RunInv, CallerInv, AfterDo
    <3> QED
      BY <3>2 DEF Answered, IInv, TypeOK
  <2>2. Received(x)' = [status |-> status[x], whole |-> TRUE]
    BY <1>1, <1>3, <1>4, <2>1 DEF Received
  <2> QED
    BY <1>1, <1>2, <1>3, <1>4, <2>1, <2>2 DEF Returns, Answered2xx
<1>5. CASE v = "failed"
  <2>1. Received(x)' = Nothing
    BY <1>3, <1>5 DEF Received, Nothing
  <2> QED
    BY <1>1, <1>2, <1>3, <1>5, <2>1 DEF Returns
<1> QED
  BY <1>3, <1>4, <1>5

(* The extraction returns its result, with a report unless the response is   *)
(* nil, which has been reported.                                             *)
LEMMA ExtractLooksLikeReturn ==
    ASSUME IInv, NEW x \in Calls, Extract(x)
    PROVE  Returns(x)
<1>1. PICK res \in ResultsOf(x) :
        /\ result' = [result EXCEPT ![x] = res]
        /\ reports' = [reports EXCEPT ![x] = @ \o ReportsOf(x, res)]
  BY DEF Extract
<1> DEFINE v == IF res = "ok" THEN "success" ELSE "failed"
<1>2. /\ pc[x] = "extract" /\ pc'[x] = "done" /\ kind'[x] = "response"
      /\ returned'[x] = returned[x] /\ result'[x] = res
      /\ reports'[x] = reports[x] \o ReportsOf(x, res)
      /\ reports[x] \in {<<>>, <<"failed">>}
      /\ returned[x] = NoResponse => reports[x] = <<"failed">>
  <2>1. TypeOK /\ CallerInv(x)
    BY DEF IInv
  <2>2. pc[x] = "extract"
    BY DEF Extract, CallerAt
  <2>3. /\ kind[x] = "response" /\ reports[x] \in {<<>>, <<"failed">>}
        /\ returned[x] = NoResponse => reports[x] = <<"failed">>
    BY <2>1, <2>2 DEF CallerInv
  <2>4. pc'[x] = "done" /\ kind'[x] = kind[x] /\ returned'[x] = returned[x]
    BY <2>1 DEF Extract, CallerAt, TypeOK
  <2>5. result'[x] = res /\ reports'[x] = reports[x] \o ReportsOf(x, res)
    BY <1>1, <2>1 DEF TypeOK
  <2> QED
    BY <2>2, <2>3, <2>4, <2>5
<1>3. v \in {"success", "failed"} /\ Verdict(x) = "pending" /\ Verdict(x)' = v
  BY <1>2 DEF Verdict, Succeeded
<1>4. \/ reports[x] = <<v>> /\ reports'[x] = reports[x]
      \/ reports[x] \in {<<>>, <<"failed">>} /\ reports'[x] = Append(reports[x], v)
  <2>1. CASE returned[x] = NoResponse
    <3>1. ReportsOf(x, res) = <<>> /\ v = "failed"
      BY <1>1, <2>1 DEF ReportsOf, ResultsOf
    <3> QED
      BY <1>2, <2>1, <3>1
  <2>2. CASE returned[x] # NoResponse
    <3>1. ReportsOf(x, res) = <<v>>
      BY <2>2 DEF ReportsOf
    <3>2. reports[x] \o <<v>> = Append(reports[x], v)
      BY <1>2
    <3> QED
      BY <1>2, <3>1, <3>2
  <2> QED
    BY <2>1, <2>2
<1>5. CASE v = "success"
  <2>1. returned[x] = 200 /\ returned[x] \in Statuses
    BY <1>1, <1>5, StatusesAssumption DEF ResultsOf, IInv, TypeOK
  <2>2. Received(x)' = [status |-> 200, whole |-> TRUE]
    BY <1>2, <1>3, <1>5, <2>1 DEF Received
  <2>3. Received(x)' \in Answered2xx
    BY <2>1, <2>2 DEF Answered2xx, IsSuccess
  <2> QED
    BY <1>3, <1>4, <1>5, <2>3 DEF Returns
<1>6. CASE v = "failed"
  <2>1. Received(x)' = Nothing
    BY <1>3, <1>6 DEF Received, Nothing
  <2> QED
    BY <1>3, <1>4, <1>6, <2>1 DEF Returns
<1> QED
  BY <1>3, <1>5, <1>6

(* The function writes out only before hystrix hears of a nil, hence never   *)
(* under a caller that was told of a success.                                *)
LEMMA RequestLooksSame ==
    ASSUME IInv, NEW x \in Calls, Request(x)
    PROVE  LooksSame(x)
<1> USE DEF callerVars, RunAt
<1>1. SameCaller(x)
  BY DEF Request, MakeContext, BuildFails, SendRequest, RequestFails, AnswerArrives,
         ReadBody, Assign, SameCaller
<1>2. CASE pc[x] # "done"
  BY <1>1, <1>2, UndoneLooksSame DEF LooksSame, SameCaller
<1>3. CASE pc[x] = "done"
  <2>1. CASE ReadBody(x)
    <3>1. kind[x] = "exec" /\ ~done[x]
      BY <2>1 DEF ReadBody, IInv, RunInv
    <3>2. err[x] # NoErr
      BY <1>3, <3>1 DEF IInv, CallerInv, AfterDo
    <3> QED
      BY <1>1, <1>3, <3>1, <3>2 DEF LooksSame, SameCaller, Verdict, Succeeded, Received
  <2>2. CASE ~ReadBody(x)
    <3>1. out'[x] = out[x]
      BY <2>2 DEF Request, MakeContext, BuildFails, SendRequest, RequestFails,
                  AnswerArrives, Assign, answerVars
    <3> QED
      BY <1>1, <3>1, SameLooksSame
  <2> QED
    BY <2>1, <2>2
<1> QED
  BY <1>2, <1>3

(* What hystrix does is not seen.                                            *)
LEMMA HystrixLooksSame ==
    ASSUME NEW x \in Calls, Hystrix(x)
    PROVE  LooksSame(x)
<1>1. SameCaller(x) /\ out'[x] = out[x]
  BY DEF Hystrix, Reject, Signal, Finish, TimerFires, SameCaller, callerVars, answerVars
<1> QED
  BY <1>1, SameLooksSame

(* What the caller does before it reports is not seen either.                *)
LEMMA CallerLooks ==
    ASSUME IInv, NEW x \in Calls, Caller(x)
    PROVE  LooksSame(x) \/ Reports(x) \/ Returns(x)
<1>1. TypeOK /\ kind[x] \in {"exec", "response"}
  BY DEF IInv, TypeOK, Kinds
<1>2. CASE StartRequest(x) \/ DoReturns(x) \/ CancelRequest(x)
  <2>1. pc[x] # "done" /\ pc'[x] # "done" /\ reports'[x] = reports[x]
    BY <1>1, <1>2 DEF TypeOK, StartRequest, DoReturns, CancelRequest, CallerAt
  <2> QED
    BY <2>1, UndoneLooksSame DEF LooksSame
<1>3. CASE ReportToMonitor(x)
  BY <1>3, ReportLooksLikeReport
<1>4. CASE Return(x) /\ kind[x] = "exec"
  BY <1>4, ExecReturnsLooksLikeReturn
<1>5. CASE Return(x) /\ kind[x] = "response"
  <2>1. pc[x] # "done" /\ pc'[x] # "done" /\ reports'[x] = reports[x]
    BY <1>1, <1>5 DEF TypeOK, Return, CallerAt
  <2> QED
    BY <2>1, UndoneLooksSame DEF LooksSame
<1>6. CASE Extract(x)
  BY <1>6, ExtractLooksLikeReturn
<1> QED
  BY <1>1, <1>2, <1>3, <1>4, <1>5, <1>6 DEF Caller

(* What one call looks like makes the step of Call.                          *)
LEMMA LooksMakeAStep ==
    ASSUME IInv, NEW x \in Calls, LooksSame(x) \/ Reports(x) \/ Returns(x),
           \A y \in Calls \ {x} : LooksSame(y),
           reports' = [reports EXCEPT ![x] = reports'[x]]
    PROVE  [AsCall!Next]_(AsCall!vars)
<1> DEFINE told == [y \in Calls |-> Verdict(y)]
           answer == [y \in Calls |-> Received(y)]
<1>1. reports \in [Calls -> Seq({"success", "failed"})]
  BY DEF IInv, TypeOK
<1>2. /\ told' = [told EXCEPT ![x] = Verdict(x)']
      /\ answer' = [answer EXCEPT ![x] = Received(x)']
  BY Zenon DEF LooksSame
<1>3. CASE LooksSame(x)
  <2>1. told' = told /\ answer' = answer
    BY <1>3 DEF LooksSame
  <2>2. reports' = reports
    BY <1>1, <1>3 DEF LooksSame
  <2> QED
    BY <2>1, <2>2 DEF AsCall!vars
<1>4. CASE Reports(x)
  <2>1. told' = told /\ answer' = answer
    BY <1>4 DEF LooksSame, Reports
  <2>2. AsCall!Report(x)
    BY <1>4, <2>1 DEF AsCall!Report, AsCall!Verdicts, Reports
  <2> QED
    BY <2>2 DEF AsCall!Next
<1>5. CASE Returns(x)
  <2>1. PICK v \in {"success", "failed"} :
            /\ Verdict(x)' = v
            /\ IF v = "success" THEN Received(x)' \in Answered2xx ELSE Received(x)' = Nothing
            /\ \/ reports[x] = <<v>> /\ reports'[x] = reports[x]
               \/ reports[x] \in {<<>>, <<"failed">>} /\ reports'[x] = Append(reports[x], v)
    BY <1>5 DEF Returns
  <2>2. Received(x)' \in AsCall!Outcomes(v)
    BY <2>1 DEF AsCall!Outcomes, Answered2xx
  <2>3. \/ reports[x] = <<v>> /\ reports' = reports
        \/ /\ reports[x] \in {<<>>, <<"failed">>}
           /\ reports' = [reports EXCEPT ![x] = Append(@, v)]
    BY <1>1, <2>1
  <2>4. told[x] = "pending"
    BY <1>5 DEF Returns
  <2>5. told' = [told EXCEPT ![x] = v]
    BY <1>2, <2>1
  <2>6. AsCall!Return(x)
    <3> HIDE DEF told, answer
    <3>1. /\ \E a \in AsCall!Outcomes(v) : answer' = [answer EXCEPT ![x] = a]
      BY <1>2, <2>2
    <3> QED
      BY <2>1, <2>3, <2>4, <2>5, <3>1, Zenon DEF AsCall!Return, AsCall!Verdicts, told, answer
  <2> QED
    BY <2>6 DEF AsCall!Next
<1> QED
  BY <1>3, <1>4, <1>5

(* A call under hystrix, with all that races in it, implements Call: told    *)
(* once, a success with a whole 2xx answer that stays, and a last report     *)
(* that says the same.                                                       *)
THEOREM ClientImplementsCall == Spec => ImplementsCall
<1>1. Init => AsCall!Init
  BY DEF Init, AsCall!Init, Verdict, Received, Nothing
<1>2. IInv /\ [Next]_vars => [AsCall!Next]_(AsCall!vars)
  <2> SUFFICES ASSUME IInv, [Next]_vars PROVE [AsCall!Next]_(AsCall!vars)
    OBVIOUS
  <2>1. TypeOK
    BY DEF IInv
  <2>2. ASSUME NEW x \in Calls, Caller(x) \/ Request(x) \/ Hystrix(x)
        PROVE [AsCall!Next]_(AsCall!vars)
    <3>1. LooksSame(x) \/ Reports(x) \/ Returns(x)
      BY <2>2, CallerLooks, RequestLooksSame, HystrixLooksSame
    <3>2. ASSUME NEW y \in Calls \ {x} PROVE LooksSame(y)
      BY <2>1, <2>2, <3>2, OthersStaySame, SameLooksSame DEF Same, SameRun
    <3>3. reports' = [reports EXCEPT ![x] = reports'[x]]
      BY <2>1, <2>2
         DEF TypeOK, Caller, StartRequest, DoReturns, CancelRequest, ReportToMonitor, Return,
             Extract, Request, MakeContext, BuildFails, SendRequest, RequestFails,
             AnswerArrives, ReadBody, Assign, Hystrix, Reject, Signal, Finish, TimerFires,
             callerVars
    <3> QED
      BY <3>1, <3>2, <3>3, LooksMakeAStep
  <2>3. CASE UNCHANGED vars
    <3>1. ASSUME NEW x \in Calls PROVE LooksSame(x)
      BY <2>3, SameLooksSame DEF vars, callerVars, answerVars, SameCaller
    <3> QED
      BY <2>3, <3>1 DEF vars, callerVars, AsCall!vars, LooksSame
  <2> QED
    BY <2>2, <2>3 DEF Next
<1> QED
  BY <1>1, <1>2, Inductive, PTL DEF Spec, ImplementsCall, AsCall!Spec
=============================================================================
