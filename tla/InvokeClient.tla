---------------------------- MODULE InvokeClient ----------------------------
(***************************************************************************)
(* Calls of service/invoke, with a circuit or without: client.Exec and     *)
(* client.Response, the goroutine in which hystrix runs the request, the   *)
(* timer of hystrix, and utils/invoke.ExtractHttpResponse, which the       *)
(* callers of Response hand its results to.                                *)
(*                                                                         *)
(* The variables status, resp, cancel and ctx are captured by the function *)
(* that hystrix runs, and it decodes into the out of Exec: after the timer *)
(* has fired, the caller and that function use them at the same time.      *)
(*                                                                         *)
(* hystrix.Do is external: it runs the function in a goroutine unless the  *)
(* circuit rejects the call, returns nil once the function has returned    *)
(* nil, and an error once it has failed, was rejected, or the timer has    *)
(* fired first. After the timer the goroutine goes on. net/http is external *)
(* too: an answer holds its connection until its body is read to the end or *)
(* closed, or the context of the request is cancelled.                      *)
(***************************************************************************)
EXTENDS Integers, Sequences

CONSTANTS
    Calls,          \* the calls under way
    Statuses        \* statuses of an HTTP answer

ASSUME StatusesAssumption == Statuses \subseteq Nat \ {0}

IsSuccess(status) == status >= 200 /\ status < 300

Kinds == {"exec", "response"}
NoErr == "nil"
RunErrors == {"failed", "expired"}      \* the latter a timeout of the HTTP client
DoErrors == RunErrors \cup {"rejected", "timeout"}

(* What ExtractHttpResponse returns: no error, INVOKE_TIMEOUT,              *)
(* INVOKE_FAILED, the code that the server sent; or it panics on a nil      *)
(* error it takes the message of.                                           *)
Results == {"ok", "INVOKE_TIMEOUT", "INVOKE_FAILED", "SERVER_CODE", "panic"}

(* resp of Response is known by its status, 0 standing for nil.             *)
NoResponse == 0

VARIABLES
    kind,       \* which of Exec and Response the call is
    useCircuit, \* client.useCircuit
    hasContext, \* whether client.ctx is set
    pc,         \* the caller
    run,        \* the function that hystrix runs, or that Exec calls itself
    outcome,    \* what the request came to: its status, and an error or nil
    once,       \* hystrix: who ended the command, the function or the timer
    done,       \* hystrix: the channel that says the function returned nil
    errChan,    \* hystrix: the channel with the error of the command
    cancel,     \* the captured CancelFunc: FALSE for nil
    cancelled,  \* cancel() has been called
    status,     \* the captured status of Exec, resp of Response
    out,        \* what the out of Exec holds
    conn,       \* the connection of the answer
    err,        \* the caller's err
    reports,    \* what was reported to the monitor
    code,       \* the code that Exec reported of a failure, 0 before
    returned,   \* the status or response that was returned
    result      \* what ExtractHttpResponse made of it

callerVars == <<kind, useCircuit, hasContext, pc, err, reports, code, returned, result>>
hystrixVars == <<once, done, errChan>>
sharedVars == <<cancel, cancelled, status>>
answerVars == <<out, conn>>
vars == <<callerVars, run, outcome, hystrixVars, sharedVars, answerVars>>

NoOutcome == [status |-> 0, err |-> NoErr]

Init ==
    /\ kind \in [Calls -> Kinds]
    /\ useCircuit \in [Calls -> BOOLEAN]
    /\ hasContext \in [Calls -> BOOLEAN]
    /\ pc = [x \in Calls |-> "start"]
    /\ run = [x \in Calls |-> "none"]
    /\ outcome = [x \in Calls |-> NoOutcome]
    /\ once = [x \in Calls |-> "none"]
    /\ done = [x \in Calls |-> FALSE]
    /\ errChan = [x \in Calls |-> NoErr]
    /\ cancel = [x \in Calls |-> FALSE]
    /\ cancelled = [x \in Calls |-> FALSE]
    /\ status = [x \in Calls |-> 0]
    /\ out = [x \in Calls |-> "untouched"]
    /\ conn = [x \in Calls |-> "none"]
    /\ err = [x \in Calls |-> NoErr]
    /\ reports = [x \in Calls |-> <<>>]
    /\ code = [x \in Calls |-> 0]
    /\ returned = [x \in Calls |-> 0]
    /\ result = [x \in Calls |-> "none"]

CallerAt(x, here, next) == pc[x] = here /\ pc' = [pc EXCEPT ![x] = next]
RunAt(x, here, next) == run[x] = here /\ run' = [run EXCEPT ![x] = next]

----------------------------------------------------------------------------
(* Plausible slips of the code, each the twin of the definition it names.  *)

CapturedMinusOne(x) == IF outcome[x].err = NoErr THEN outcome[x].status ELSE -1
                                                            \* Captured
ReportsBeforeHeader(x, res) ==                              \* ReportsOf
    IF returned[x] = NoResponse THEN <<>> ELSE <<"success">>
TakesAnyStatus(s) == TRUE                                   \* TakesStatus
LeftAlways(x) == TRUE                                       \* LeftForExtract
CancelOnceMade(x) ==                                        \* CancelRequest
    /\ err[x] # NoErr => cancel[x]
    /\ CallerAt(x, "cancel", "report")
    /\ cancelled' = [cancelled EXCEPT ![x] = err[x] # NoErr]
    /\ UNCHANGED <<kind, useCircuit, hasContext, err, reports, code, returned, result>>
    /\ UNCHANGED <<run, outcome, hystrixVars, cancel, status, answerVars>>
MustCancelRejected(x) == err[x] = "rejected"                \* MustCancel
AssignLate(x) ==                                            \* Assign
    \/ RunAt(x, "assign", "signal") /\ UNCHANGED <<callerVars, outcome, hystrixVars, sharedVars, answerVars>>
    \/ /\ run[x] = "ended"
       /\ status' = [status EXCEPT ![x] = outcome[x].status]
       /\ UNCHANGED <<callerVars, run, outcome, hystrixVars, cancel, cancelled, answerVars>>
ClosesWhenOk(x, res) == res = "ok"                          \* ClosesBody

----------------------------------------------------------------------------
(* The caller, up to the start of the request.                             *)

(* The request runs under hystrix.Do, or in the caller itself. *)
StartRequest(x) ==
    /\ CallerAt(x, "start", "wait")
    /\ RunAt(x, "none", "context")
    /\ UNCHANGED <<kind, useCircuit, hasContext, err, reports, code, returned, result>>
    /\ UNCHANGED <<outcome, hystrixVars, sharedVars, answerVars>>

----------------------------------------------------------------------------
(* client.exec and client.getResp *)

HandlesContext(x) == useCircuit[x] /\ hasContext[x]

(* The cancellable context is made, and cancel with it. (errInProcess, which *)
(* would end the request here, is never set to an error.)                  *)
MakeContext(x) ==
    /\ RunAt(x, "context", "build")
    /\ cancel' = [cancel EXCEPT ![x] = HandlesContext(x)]
    /\ UNCHANGED <<callerVars, outcome, hystrixVars, cancelled, status, answerVars>>

Ends(x, s, e) == outcome' = [outcome EXCEPT ![x] = [status |-> s, err |-> e]]

(* No node, or a request that cannot be made. *)
BuildFails(x) ==
    /\ RunAt(x, "build", "assign")
    /\ Ends(x, 0, "failed")
    /\ UNCHANGED <<callerVars, hystrixVars, sharedVars, answerVars>>

SendRequest(x) ==
    /\ RunAt(x, "build", "http")
    /\ UNCHANGED <<callerVars, outcome, hystrixVars, sharedVars, answerVars>>

(* The network, the timeout of the HTTP client, or the cancelled context. *)
RequestFails(x) ==
    /\ RunAt(x, "http", "assign")
    /\ \E e \in RunErrors : Ends(x, 0, e)
    /\ UNCHANGED <<callerVars, hystrixVars, sharedVars, answerVars>>

TakesStatus(s) == IsSuccess(s)

(* Response returns any answer, Exec goes on with a 2xx. A cancelled context *)
(* frees the connection at once.                                             *)
AnswerArrives(x) ==
    /\ \E s \in Statuses :
        \/ kind[x] = "response" /\ Ends(x, s, NoErr) /\ RunAt(x, "http", "assign")
        \/ kind[x] = "exec" /\ ~TakesStatus(s) /\ Ends(x, s, "failed") /\ RunAt(x, "http", "assign")
        \/ kind[x] = "exec" /\ TakesStatus(s) /\ Ends(x, s, NoErr) /\ RunAt(x, "http", "body")
    /\ conn' = [conn EXCEPT ![x] = IF cancelled[x] THEN "free" ELSE "held"]
    /\ UNCHANGED <<callerVars, hystrixVars, sharedVars, out>>

(* The body of a 2xx is read to its end or to an error, which both free the *)
(* connection, and decoded; Exec has status 0 when it cannot be decoded.    *)
ReadBody(x) ==
    /\ RunAt(x, "body", "assign")
    /\ conn' = [conn EXCEPT ![x] = "free"]
    /\ \/ Ends(x, outcome[x].status, "failed") /\ UNCHANGED out
       \/ Ends(x, outcome[x].status, NoErr) /\ out' = [out EXCEPT ![x] = "decoded"]
       \/ /\ Ends(x, 0, "failed")
          /\ \E part \in {"untouched", "partly"} : out' = [out EXCEPT ![x] = part]
    /\ UNCHANGED <<callerVars, hystrixVars, sharedVars>>

(* The captured variable gets its value before hystrix hears of the end. *)
Captured(x) == outcome[x].status

Assign(x) ==
    /\ RunAt(x, "assign", "signal")
    /\ status' = [status EXCEPT ![x] = Captured(x)]
    /\ UNCHANGED <<callerVars, outcome, hystrixVars, cancel, cancelled, answerVars>>

Request(x) ==
    \/ MakeContext(x) \/ BuildFails(x) \/ SendRequest(x)
    \/ RequestFails(x) \/ AnswerArrives(x) \/ ReadBody(x) \/ Assign(x)

----------------------------------------------------------------------------
(* hystrix *)

(* The circuit is open, or all its tickets are taken. *)
Reject(x) ==
    /\ useCircuit[x]
    /\ RunAt(x, "context", "ended")
    /\ IF once[x] = "none"
       THEN /\ once' = [once EXCEPT ![x] = "run"]
            /\ errChan' = [errChan EXCEPT ![x] = "rejected"]
       ELSE UNCHANGED <<once, errChan>>
    /\ UNCHANGED <<callerVars, outcome, done, sharedVars, answerVars>>

Signal(x) ==
    /\ RunAt(x, "signal", "finish")
    /\ done' = [done EXCEPT ![x] = outcome[x].err = NoErr]
    /\ UNCHANGED <<callerVars, outcome, once, errChan, sharedVars, answerVars>>

Finish(x) ==
    /\ RunAt(x, "finish", "ended")
    /\ IF once[x] = "none"
       THEN /\ once' = [once EXCEPT ![x] = "run"]
            /\ errChan' = [errChan EXCEPT ![x] = outcome[x].err]
       ELSE UNCHANGED <<once, errChan>>
    /\ UNCHANGED <<callerVars, outcome, done, sharedVars, answerVars>>

TimerFires(x) ==
    /\ useCircuit[x]
    /\ run[x] \notin {"none", "ended"}
    /\ once[x] = "none"
    /\ once' = [once EXCEPT ![x] = "timer"]
    /\ errChan' = [errChan EXCEPT ![x] = "timeout"]
    /\ UNCHANGED <<callerVars, run, outcome, done, sharedVars, answerVars>>

Hystrix(x) == Reject(x) \/ Signal(x) \/ Finish(x) \/ TimerFires(x)

----------------------------------------------------------------------------
(* The caller, from the end of hystrix.Do on.                              *)

(* Both channels may be ready: the select takes either. No fallback is run: *)
(* client.Fallback drops the function it is given.                         *)
NilIsReady(x) == done[x]
ErrorIsReady(x) == errChan[x] # NoErr

DoReturns(x) ==
    /\ CallerAt(x, "wait", "cancel")
    /\ \/ NilIsReady(x) /\ err' = [err EXCEPT ![x] = NoErr]
       \/ ErrorIsReady(x) /\ err' = [err EXCEPT ![x] = errChan[x]]
    /\ UNCHANGED <<kind, useCircuit, hasContext, reports, code, returned, result>>
    /\ UNCHANGED <<run, outcome, hystrixVars, sharedVars, answerVars>>

(* cancel is read while the function may be about to set it. *)
MustCancel(x) == err[x] # NoErr

CancelRequest(x) ==
    /\ CallerAt(x, "cancel", "report")
    /\ IF MustCancel(x) /\ cancel[x]
       THEN /\ cancelled' = [cancelled EXCEPT ![x] = TRUE]
            /\ conn' = [conn EXCEPT ![x] = IF @ = "held" THEN "free" ELSE @]
       ELSE UNCHANGED <<cancelled, conn>>
    /\ UNCHANGED <<kind, useCircuit, hasContext, err, reports, code, returned, result>>
    /\ UNCHANGED <<run, outcome, hystrixVars, cancel, status, out>>

ExecReport(x) == IF err[x] = NoErr THEN "success" ELSE "failed"

(* processExecMonitorReport reports a failure with the status read for it;  *)
(* processResponseMonitorReport reports a nil response as a failure and     *)
(* leaves any other to ExtractHttpResponse.                                 *)
LeftForExtract(x) == status[x] # NoResponse

ReportToMonitor(x) ==
    /\ CallerAt(x, "report", "return")
    /\ reports' = [reports EXCEPT ![x] =
            IF kind[x] = "exec" THEN Append(@, ExecReport(x))
            ELSE IF LeftForExtract(x) THEN @ ELSE Append(@, "failed")]
    /\ code' = [code EXCEPT ![x] =
            IF kind[x] = "exec" /\ ExecReport(x) = "failed" THEN status[x] ELSE @]
    /\ UNCHANGED <<kind, useCircuit, hasContext, err, returned, result>>
    /\ UNCHANGED <<run, outcome, hystrixVars, sharedVars, answerVars>>

(* The captured variable is read once more to be returned: after a timeout *)
(* it may have got its value since the report.                             *)
Return(x) ==
    /\ CallerAt(x, "return", IF kind[x] = "exec" THEN "done" ELSE "extract")
    /\ returned' = [returned EXCEPT ![x] = status[x]]
    /\ UNCHANGED <<kind, useCircuit, hasContext, err, reports, code, result>>
    /\ UNCHANGED <<run, outcome, hystrixVars, sharedVars, answerVars>>

(* ExtractHeader: without a response the error decides, with one its status  *)
(* and, for a 200, its body: it may be unreadable, empty or not JSON, say    *)
(* that the call failed, or hold data that cannot be decoded.                *)
ResultsOf(x) ==
    IF returned[x] = NoResponse
    THEN IF err[x] = NoErr THEN {"panic"}
         ELSE IF err[x] \in {"expired", "timeout"} THEN {"INVOKE_TIMEOUT"}
         ELSE {"INVOKE_FAILED"}
    ELSE IF returned[x] = 200 THEN {"ok", "INVOKE_FAILED", "SERVER_CODE"}
    ELSE {"INVOKE_FAILED"}

(* reportDataToMonitor: a nil response has been reported already. *)
ReportsOf(x, res) ==
    IF returned[x] = NoResponse THEN <<>>
    ELSE IF res = "ok" THEN <<"success">> ELSE <<"failed">>

(* The body is closed unless there was an error. *)
ClosesBody(x, res) == err[x] = NoErr /\ returned[x] # NoResponse

(* A 200 has its body read to the end, or to an error. *)
Extract(x) ==
    /\ CallerAt(x, "extract", "done")
    /\ \E res \in ResultsOf(x) :
        /\ result' = [result EXCEPT ![x] = res]
        /\ reports' = [reports EXCEPT ![x] = @ \o ReportsOf(x, res)]
        /\ conn' = [conn EXCEPT ![x] =
                IF ClosesBody(x, res) \/ returned[x] = 200 THEN "free" ELSE @]
    /\ UNCHANGED <<kind, useCircuit, hasContext, err, code, returned>>
    /\ UNCHANGED <<run, outcome, hystrixVars, sharedVars, out>>

Caller(x) ==
    \/ StartRequest(x) \/ DoReturns(x)
    \/ CancelRequest(x) \/ ReportToMonitor(x) \/ Return(x) \/ Extract(x)

Next == \E x \in Calls : Caller(x) \/ Request(x) \/ Hystrix(x)

Spec == Init /\ [][Next]_vars

(* The goroutines run; the timer fires in time; nothing says that build()   *)
(* ever returns, which may query consul with neither context nor timeout,   *)
(* that the server ever answers, or that a connection ever fails, unless    *)
(* the context of the request is cancelled, which net/http heeds.           *)
Fairness ==
    \A x \in Calls :
        /\ WF_vars(Caller(x))
        /\ WF_vars(MakeContext(x) \/ Assign(x))
        /\ WF_vars(Signal(x) \/ Finish(x))
        /\ WF_vars(cancelled[x] /\ (RequestFails(x) \/ ReadBody(x)))
        /\ WF_vars(TimerFires(x))

FairSpec == Spec /\ Fairness

----------------------------------------------------------------------------
AfterDo(x) == pc[x] \in {"cancel", "report", "return", "extract", "done"}

(* The captured variables have their types, and hystrix has one verdict:    *)
(* an error on its channel was put there by whoever ended the command.      *)
TypeOK ==
    /\ kind \in [Calls -> Kinds]
    /\ useCircuit \in [Calls -> BOOLEAN]
    /\ hasContext \in [Calls -> BOOLEAN]
    /\ pc \in [Calls -> {"start", "wait", "cancel", "report", "return", "extract", "done"}]
    /\ run \in [Calls -> {"none", "context", "build", "http", "body", "assign", "signal", "finish", "ended"}]
    /\ outcome \in [Calls -> [status : Statuses \cup {0}, err : RunErrors \cup {NoErr}]]
    /\ once \in [Calls -> {"none", "run", "timer"}]
    /\ done \in [Calls -> BOOLEAN]
    /\ errChan \in [Calls -> DoErrors \cup {NoErr}]
    /\ \A x \in Calls : errChan[x] = "timeout" <=> once[x] = "timer"
    /\ cancel \in [Calls -> BOOLEAN]
    /\ cancelled \in [Calls -> BOOLEAN]
    /\ status \in [Calls -> Statuses \cup {0}]
    /\ out \in [Calls -> {"untouched", "partly", "decoded"}]
    /\ conn \in [Calls -> {"none", "held", "free"}]
    /\ err \in [Calls -> DoErrors \cup {NoErr}]
    /\ \A x \in Calls : pc[x] \in {"start", "wait"} => err[x] = NoErr
    /\ reports \in [Calls -> Seq({"success", "failed"})]
    /\ code \in [Calls -> Statuses \cup {0}]
    /\ returned \in [Calls -> Statuses \cup {0}]
    /\ result \in [Calls -> Results \cup {"none"}]

(* A call that returns no error has an answer: Response a response, Exec a  *)
(* 2xx status and its body in out, although both were written by another    *)
(* goroutine and the timer of hystrix may have fired meanwhile. So          *)
(* ExtractHttpResponse never meets a nil response with a nil error, whose   *)
(* message it would take (invoke_utils.go:139).                             *)
NoErrorMeansAnswer ==
    \A x \in Calls :
        (AfterDo(x) /\ err[x] = NoErr) =>
            /\ status[x] # 0
            /\ kind[x] = "exec" => IsSuccess(status[x]) /\ out[x] = "decoded"
            /\ result[x] # "panic"

(* A call that Exec reports as failed is reported with the status that the   *)
(* caller gets, although the status is read twice, for the report            *)
(* (client.go:339) and for the return (client.go:369), and is written by     *)
(* another goroutine: the two differ only if the timer fired and the status  *)
(* came in between, and the report then has 0, as of a call without answer.  *)
FailureCodeIsReturned ==
    \A x \in Calls : (kind[x] = "exec" /\ pc[x] = "done" /\ reports[x] = <<"failed">>) =>
        code[x] = returned[x] \/ (code[x] = 0 /\ err[x] = "timeout")

(* No call goes unreported between Response and ExtractHttpResponse, each   *)
(* of which leaves some calls to the other.                                 *)
NeverUnreported ==
    \A x \in Calls : pc[x] = "done" => reports[x] # <<>>

(* A call with a circuit returns, even when the server never answers: the   *)
(* timer of hystrix releases the caller.                                    *)
CallReturns == \A x \in Calls : useCircuit[x] ~> pc[x] = "done"

(* After a timeout that finds the context made, the request does not linger: *)
(* the cancelled context ends it, although the server may never answer. Only *)
(* build() may hang, which the context does not reach.                       *)
TimeoutEndsRequest ==
    \A x \in Calls :
        \/ (pc[x] = "cancel" /\ err[x] = "timeout" /\ cancel[x]) ~> run[x] = "ended"
        \/ <>[](run[x] = "build")

(* What a call returned without an error stays as it is: the function that   *)
(* hystrix ran is done with the captured variables and with out. After a     *)
(* timeout it is not, and may write out while the caller uses it.            *)
ReturnedIsFinal ==
    [][\A x \in Calls : (pc[x] = "done" /\ err[x] = NoErr) =>
            status'[x] = status[x] /\ out'[x] = out[x]]_vars

(* A call without an error holds no connection in the end, whatever the      *)
(* status of its answer and the content of its body. With an error it may:   *)
(* Exec leaves the body of a bad status open, ExtractHttpResponse that of a  *)
(* response that comes after the timeout.                                    *)
ConnectionIsReleased ==
    \A x \in Calls : (pc[x] = "done" /\ err[x] = NoErr) => conn[x] = "free"

(* However often a call of Response is reported, what is reported last is    *)
(* what the caller is told: the two halves of the reporting look at the      *)
(* response at different times, and only one of them knows the result.       *)
LastReportIsResult ==
    \A x \in Calls : (kind[x] = "response" /\ pc[x] = "done") =>
        (reports[x][Len(reports[x])] = "success" <=> result[x] = "ok")

(* A call implements Call: its caller is told by the error of Exec, or by    *)
(* the result of ExtractHttpResponse, and has what was returned and, of      *)
(* Exec, the decoded body. The timer, the circuit and the second writer of   *)
(* the captured variables do not show; a call of Response may be reported    *)
(* as a failure before, at most once.                                       *)
Succeeded(x) == IF kind[x] = "exec" THEN err[x] = NoErr ELSE result[x] = "ok"

Verdict(x) ==
    IF pc[x] # "done" THEN "pending"
    ELSE IF Succeeded(x) THEN "success" ELSE "failed"

Nothing == [status |-> NoResponse, whole |-> FALSE]

Received(x) ==
    IF Verdict(x) # "success" THEN Nothing
    ELSE [status |-> returned[x], whole |-> kind[x] = "response" \/ out[x] = "decoded"]

AsCall == INSTANCE Call WITH
    Answers <- [status : {s \in Statuses : IsSuccess(s)}, whole : {TRUE}],
    NoAnswer <- Nothing,
    told <- [x \in Calls |-> Verdict(x)],
    answer <- [x \in Calls |-> Received(x)]

ImplementsCall == AsCall!Spec

(* invoke_utils.go:34 says that a nil response has been reported by the     *)
(* client, client.go:637 that any other is left for later: with the two     *)
(* halves together a call is reported once.                                 *)
ReportedOnce ==
    \A x \in Calls : pc[x] = "done" => Len(reports[x]) = 1
=============================================================================
