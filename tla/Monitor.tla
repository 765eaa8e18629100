------------------------------ MODULE Monitor ------------------------------
(***************************************************************************)
(* service/monitor: requests report their outcome into four bounded        *)
(* channels without ever waiting, and one goroutine drains the channels,   *)
(* counts per key, and every few seconds hands the counts to the senders.  *)
(*                                                                         *)
(* The goroutine looks at the clock only when the channels are empty or    *)
(* when it has counted more than CheckLimit reports since the last flush.  *)
(* The senders (one goroutine per flush and per destination, no retry) are *)
(* outside: a flush is final here, and both destinations get the same.     *)
(***************************************************************************)
EXTENDS Integers, Sequences

CONSTANTS
    Reporters,      \* goroutines that report
    Keys,           \* dimensions of a report, as generatekey joins them
    Unparsable,     \* those of Keys that hold the delimiter themselves
    Requests,       \* the requests that report: outcome, key, microseconds
    QueueLen,       \* reportQueueLength
    CheckLimit,     \* checkReportDataCountLimit
    Interval,       \* reportMetricsDataInterval
    MaxCount,       \* bound: reports counted per channel and key; beyond it
                    \* the counters of the model stand still
    SetBack,        \* by how many seconds the wall clock is set back
    MaxSetBacks     \* bound: how often it is

ASSUME KeysAssumption == Unparsable \subseteq Keys
ASSUME RequestsAssumption ==
    /\ Requests # {}
    /\ Requests \subseteq [outcome : {"succ", "failed"}, key : Keys, time : Int]
ASSUME BoundsAssumption ==
    /\ QueueLen \in Nat \ {0}
    /\ CheckLimit \in Nat
    /\ Interval \in Nat \ {0}
    /\ MaxCount \in Nat \ {0}
    /\ SetBack \in Nat
    /\ MaxSetBacks \in Nat

Outcomes == {"succ", "failed"}
CountOf == [succ |-> "succCount", failed |-> "failedCount"]
TimeOf == [succ |-> "succTime", failed |-> "failedTime"]
Channels == {CountOf[o] : o \in Outcomes} \cup {TimeOf[o] : o \in Outcomes}

VARIABLES
    stage,      \* how far Init is: "off", "conf", "queues", "run"
    queue,      \* the four channels
    countMap,   \* succCountMap, failedCountMap, succAvgTimeMap, failedAvgTimeMap;
                \* counter 0 stands for a key that is not in the map
    reportCountTmp,
    sinceSend,  \* seconds since lastSendReport by the wall clock, up to
                \* Interval; below 0 when the clock was set back
    pc,         \* where each reporter is
    request,    \* the outcome, key and time it reports
    setBacks,   \* how often the wall clock was set back
    owed        \* history: what each channel took and no sender got, per key

monitorVars == <<stage, queue, countMap, reportCountTmp, sinceSend>>
vars == <<monitorVars, pc, request, setBacks, owed>>

Zero == [counter |-> 0, sum |-> 0]
Empty == [ch \in Channels |-> [k \in Keys |-> Zero]]
AnyRequest == CHOOSE q \in Requests : TRUE

Init ==
    /\ stage = "off"
    /\ queue = [ch \in Channels |-> <<>>]
    /\ countMap = Empty
    /\ reportCountTmp = 0
    /\ sinceSend = 0
    /\ pc = [r \in Reporters |-> "idle"]
    /\ request = [r \in Reporters |-> AnyRequest]
    /\ setBacks = 0
    /\ owed = Empty

Plus(a, b) == [counter |-> a.counter + b.counter, sum |-> a.sum + b.sum]
Minus(a, b) == [counter |-> a.counter - b.counter, sum |-> a.sum - b.sum]

(* countInfo.counter++ and countInfo.sum += timeConsume, up to the bound. *)
CountedUpTo(bound, info, time) ==
    IF info.counter < bound THEN Plus(info, [counter |-> 1, sum |-> time]) ELSE info
Counted(info, time) == CountedUpTo(MaxCount, info, time)

(* The sum of a sequence of integers. *)
Total(s) ==
    LET upTo[n \in 0 .. Len(s)] == IF n = 0 THEN 0 ELSE upTo[n - 1] + s[n]
    IN  upTo[Len(s)]

(* The reports for key k among those that wait in a channel, as counts. *)
CountsFor(items, k) == [i \in 1 .. Len(items) |-> IF items[i].key = k THEN 1 ELSE 0]
TimesFor(items, k) == [i \in 1 .. Len(items) |-> IF items[i].key = k THEN items[i].time ELSE 0]
Held(items, k) == [counter |-> Total(CountsFor(items, k)), sum |-> Total(TimesFor(items, k))]
InQueue(ch, k) == Held(queue[ch], k)

(* The history owes MaxCount + QueueLen reports at most, what can be in the *)
(* map and the channel. When the map has reached MaxCount it is not exact   *)
(* any more and starts again at the next flush.                             *)
Owed(ch, item) ==
    owed' = [owed EXCEPT ![ch][item.key] = CountedUpTo(MaxCount + QueueLen, @, item.time)]

----------------------------------------------------------------------------
(* Plausible slips of the code, each the twin of the definition it names.  *)

HasRoomOneMore(ch) == Len(queue[ch]) <= QueueLen        \* HasRoom
MustCheckNever(n) == FALSE                              \* MustCheck
AfterFlushOfCounts(maps) ==                             \* AfterFlush
    [Empty EXCEPT !["failedTime"] = maps["failedTime"]]
OfferAndWait(ch, item) ==                               \* Offer
    /\ Len(queue[ch]) < QueueLen
    /\ queue' = [queue EXCEPT ![ch] = Append(@, item)]
    /\ Owed(ch, item)

----------------------------------------------------------------------------
(* Init: EnableReportMonitor is true from the first step on, the channels  *)
(* exist from the second on, and the goroutine runs from the third on.     *)

SetConf ==
    /\ stage = "off"
    /\ stage' = "conf"
    /\ UNCHANGED <<queue, countMap, reportCountTmp, sinceSend, pc, request, setBacks, owed>>

MakeQueues ==
    /\ stage = "conf"
    /\ stage' = "queues"
    /\ UNCHANGED <<queue, countMap, reportCountTmp, sinceSend, pc, request, setBacks, owed>>

StartProcessing ==
    /\ stage = "queues"
    /\ stage' = "run"
    /\ reportCountTmp' = 0
    /\ sinceSend' = 0
    /\ UNCHANGED <<queue, countMap, pc, request, setBacks, owed>>

----------------------------------------------------------------------------
(* The reporters: CommMonitorReport, and the callers of the four Report    *)
(* functions, report a count and then a time.                              *)

EnableReportMonitor == stage # "off"

(* A report without names, or of the time zero, is refused with an error    *)
(* (export.go:207): nothing changes, which is a step that stutters.         *)
Begin(r) ==
    /\ pc[r] = "idle"
    /\ EnableReportMonitor
    /\ \E q \in Requests : request' = [request EXCEPT ![r] = q]
    /\ pc' = [pc EXCEPT ![r] = "count"]
    /\ UNCHANGED <<monitorVars, setBacks, owed>>

HasRoom(ch) == Len(queue[ch]) < QueueLen

(* The select with a default: into the channel, or dropped when it is full *)
(* or does not exist yet.                                                  *)
Offer(ch, item) ==
    IF stage # "conf" /\ HasRoom(ch)
    THEN /\ queue' = [queue EXCEPT ![ch] = Append(@, item)]
         /\ Owed(ch, item)
    ELSE UNCHANGED <<queue, owed>>

ReportCount(r) ==
    /\ pc[r] = "count"
    /\ Offer(CountOf[request[r].outcome], [key |-> request[r].key, time |-> 0])
    /\ pc' = [pc EXCEPT ![r] = "time"]
    /\ UNCHANGED <<stage, countMap, reportCountTmp, sinceSend, request, setBacks>>

(* ReportSuccessAvgTime refuses a time that is not positive,               *)
(* ReportFailedAvgTime takes it.                                           *)
TakesTime(q) == q.outcome = "failed" \/ q.time > 0

ReportTime(r) ==
    /\ pc[r] = "time"
    /\ IF TakesTime(request[r])
       THEN Offer(TimeOf[request[r].outcome], [key |-> request[r].key, time |-> request[r].time])
       ELSE UNCHANGED <<queue, owed>>
    /\ pc' = [pc EXCEPT ![r] = "idle"]
    /\ request' = [request EXCEPT ![r] = AnyRequest]
    /\ UNCHANGED <<stage, countMap, reportCountTmp, sinceSend, setBacks>>

----------------------------------------------------------------------------
(* processReportData *)

IsDue == sinceSend >= Interval
MustCheck(n) == n > CheckLimit
AfterFlush(maps) == Empty

(* generatekey joins the fields of a report with the delimiter; splitting   *)
(* the key does not give them back when one of them holds the delimiter.   *)
ParsesBack(k) == k \notin Unparsable

(* The metric made of a key: none when the key does not parse back.        *)
Metric(maps, ch, k) == IF ParsesBack(k) THEN maps[ch][k] ELSE Zero

(* checkAndReportData: the four maps are swapped for empty ones, and what  *)
(* they held goes to the senders.                                          *)
Send(maps) ==
    /\ countMap' = AfterFlush(maps)
    /\ owed' = [ch \in Channels |-> [k \in Keys |->
            IF maps[ch][k].counter = MaxCount
            THEN InQueue(ch, k)'
            ELSE Minus(owed[ch][k], Metric(maps, ch, k))]]
    /\ reportCountTmp' = 0
    /\ sinceSend' = 0

(* One report is taken and counted; past CheckLimit the clock is looked at *)
(* after each report until it is time to send.                             *)
Take(ch) ==
    /\ stage = "run"
    /\ queue[ch] # <<>>
    /\ queue' = [queue EXCEPT ![ch] = Tail(@)]
    /\ LET item == Head(queue[ch])
           maps == [countMap EXCEPT ![ch][item.key] = Counted(@, item.time)]
           n == reportCountTmp + 1
       IN  IF MustCheck(n) /\ IsDue
           THEN Send(maps)
           ELSE /\ countMap' = maps
                /\ reportCountTmp' = IF n > CheckLimit THEN CheckLimit + 1 ELSE n
                /\ UNCHANGED <<sinceSend, owed>>
    /\ UNCHANGED <<stage, pc, request, setBacks>>

(* The default branch: no report is waiting. *)
SendWhenIdle ==
    /\ stage = "run"
    /\ \A ch \in Channels : queue[ch] = <<>>
    /\ IsDue
    /\ UNCHANGED <<stage, queue, pc, request, setBacks>>
    /\ Send(countMap)

Tick ==
    /\ sinceSend' = IF sinceSend < Interval THEN sinceSend + 1 ELSE sinceSend
    /\ UNCHANGED <<stage, queue, countMap, reportCountTmp, pc, request, setBacks, owed>>

ClockStepBack ==
    /\ setBacks < MaxSetBacks
    /\ setBacks' = setBacks + 1
    /\ sinceSend' = sinceSend - SetBack
    /\ UNCHANGED <<stage, queue, countMap, reportCountTmp, pc, request, owed>>

InitSteps == SetConf \/ MakeQueues \/ StartProcessing
Report(r) == ReportCount(r) \/ ReportTime(r)

Next ==
    \/ InitSteps
    \/ \E r \in Reporters : Begin(r) \/ Report(r)
    \/ \E ch \in Channels : Take(ch)
    \/ SendWhenIdle
    \/ Tick
    \/ ClockStepBack

Spec == Init /\ [][Next]_vars

(* The goroutine runs, its select serves every channel that stays ready,   *)
(* and time passes. A request that reports goes on with it. Nobody is      *)
(* obliged to report, or to stop reporting, and Init may stop half way.    *)
ProcessingIsFair ==
    /\ \A ch \in Channels : WF_vars(Take(ch))
    /\ WF_vars(SendWhenIdle)
    /\ WF_vars(Tick)

ReportingIsFair == \A r \in Reporters : WF_vars(Report(r))

FairSpec == Spec /\ ProcessingIsFair /\ ReportingIsFair

----------------------------------------------------------------------------
(* The channels stay within their length and the reporters' locals have     *)
(* their types.                                                             *)
TypeOK ==
    /\ stage \in {"off", "conf", "queues", "run"}
    /\ queue \in [Channels -> Seq([key : Keys, time : Int])]
    /\ \A ch \in Channels : Len(queue[ch]) <= QueueLen
    /\ countMap \in [Channels -> [Keys -> [counter : Nat, sum : Int]]]
    /\ reportCountTmp \in 0 .. CheckLimit + 1
    /\ sinceSend \in -(SetBack * MaxSetBacks) .. Interval
    /\ pc \in [Reporters -> {"idle", "count", "time"}]
    /\ request \in [Reporters -> Requests]
    /\ setBacks \in 0 .. MaxSetBacks
    /\ owed \in [Channels -> [Keys -> [counter : Nat, sum : Int]]]

(* Every report a channel accepted is in the channel, in the map, or in     *)
(* exactly one of the batches handed to the senders: swapping the maps in   *)
(* the middle of the load loses no report and counts none twice, in number  *)
(* or in time.                                                              *)
NothingLostInside ==
    \A ch \in Channels : \A k \in Keys \ Unparsable :
        countMap[ch][k].counter < MaxCount =>
            owed[ch][k] = Plus(InQueue(ch, k), countMap[ch][k])

(* The strengthening that makes the two inductive: the counters of the map   *)
(* stop at MaxCount, and each time the clock was set back takes sinceSend     *)
(* SetBack seconds down at most.                                             *)
WithinBounds ==
    /\ \A ch \in Channels : \A k \in Keys : countMap[ch][k].counter <= MaxCount
    /\ sinceSend >= -(SetBack * setBacks)

IInv == TypeOK /\ WithinBounds /\ NothingLostInside

(* A counted report is handed to the senders in the end, even when reports  *)
(* keep coming so fast that the channels are never all empty, and when the  *)
(* wall clock, which the intervals are measured with, was set back.         *)
SentEventually ==
    \A ch \in Channels : \A k \in Keys :
        countMap[ch][k].counter > 0 ~> countMap[ch][k].counter = 0

(* A request that reports is never held up: not by full channels, nor for   *)
(* good by an Init that stops half way, with nobody to drain them.          *)
ReportersNeverWait ==
    \A r \in Reporters : pc[r] # "idle" ~> pc[r] = "idle"
=============================================================================
