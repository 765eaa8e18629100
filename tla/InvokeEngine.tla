---------------------------- MODULE InvokeEngine ----------------------------
(***************************************************************************)
(* How service/invoke picks the node of a call: engine.Service finds or    *)
(* makes the service object of a name, and service.remote rotates over the *)
(* nodes that the discovery returns.                                       *)
(*                                                                         *)
(* engine.Service looks under the read lock and inserts under the write    *)
(* lock without looking again; remote reads the call counter, calls the    *)
(* discovery, and adds one to the counter when it returns. Each of these   *)
(* is a step, and any other goroutine may run between two of them. Init    *)
(* assigns the engine's fields with no lock at all, and a service object   *)
(* copies them when it is made.                                            *)
(*                                                                         *)
(* Names do not interfere, so the module has one name. A service object is *)
(* identified by the goroutine that made it: nobody makes two, because the *)
(* name is in the map for good once its first insert is done.              *)
(***************************************************************************)
EXTENDS Integers, FiniteSets

CONSTANTS
    Callers,        \* goroutines that invoke the service
    NodeCounts,     \* the lengths of the node lists discovery may return
    NoObject,       \* no service object
    Limits,         \* what a limit of the circuit may be set to
    Default, Low, High, \* what Init makes of it: export.go has three such
                        \* limits, each with its own default and range
    MaxCalls        \* bound: the calls of one goroutine

ASSUME NodeCountsAssumption == NodeCounts \subseteq Nat \ {0}
ASSUME NoObjectAssumption == NoObject \notin Callers
ASSUME LimitsAssumption == Limits \subseteq Int
ASSUME RangeAssumption ==
    /\ {Default, Low, High} \subseteq Int
    /\ 0 < Low /\ Low <= Default /\ Default <= High
ASSUME MaxCallsAssumption == MaxCalls \in Nat

Objects == Callers

(* What Init sets and an object copies: engine.dv, useCircuit and           *)
(* circuitConfig. useTracing is copied like useCircuit and left out.        *)
Configurations == [discover : BOOLEAN, useCircuit : BOOLEAN, limit : Int]
Unset == [discover |-> FALSE, useCircuit |-> FALSE, limit |-> 0]

VARIABLES
    init,               \* Init of the engine: "before", "running", "done"
    option,             \* what it sets
    copied,             \* what each service object has copied of that
    early,              \* history: somebody looked the name up before Init was done
    serviceMap,         \* the object engine.serviceMap has for the name
    totalCallCount,     \* the counter of each object
    pc,                 \* where each goroutine is in Service and remote
    object,             \* the object it invokes
    index,              \* its local index in remote
    calls,              \* the calls it has made
    use,                \* the position it took, of a list of that length
    used                \* history: the last index it got of each object

engineVars == <<init, option, copied, early, serviceMap>>
vars == <<engineVars, totalCallCount, pc, object, index, calls, use, used>>

NoPosition == [at |-> 0, length |-> 1]

Init ==
    /\ init = "before"
    /\ option = Unset
    /\ copied = [o \in Objects |-> Unset]
    /\ early = FALSE
    /\ serviceMap = NoObject
    /\ totalCallCount = [o \in Objects |-> 0]
    /\ pc = [c \in Callers |-> "idle"]
    /\ object = [c \in Callers |-> NoObject]
    /\ index = [c \in Callers |-> 0]
    /\ calls = [c \in Callers |-> 0]
    /\ used = [c \in Callers |-> [o \in Objects |-> -1]]
    /\ use = [c \in Callers |-> NoPosition]

----------------------------------------------------------------------------
(* Plausible slips of the code, each the twin of the definition it names.  *)

IsKnownNever == FALSE                                   \* IsKnown
IsKnownUnchecked == TRUE                                \* IsKnown
IncrementOnSuccess(end) == IF end = "picked" THEN 1 ELSE 0  \* Increment
AdjustedFromAbove(n) ==                                     \* Adjusted
    IF n = 0 THEN Default ELSE IF n > High THEN High ELSE n
SeenWithoutCircuit == {[Unset EXCEPT !.discover = init = "done"]}   \* Seen

----------------------------------------------------------------------------
(* invoke.Init and engine.Init *)

Adjusted(n) ==
    IF n = 0 THEN Default
    ELSE IF n < Low THEN Low
    ELSE IF n > High THEN High
    ELSE n

(* The limits are looked at only when the circuit is wanted. *)
BeginInit ==
    /\ init = "before"
    /\ init' = "running"
    /\ \E wanted \in BOOLEAN : \E n \in Limits :
        option' = [discover |-> TRUE, useCircuit |-> wanted,
                   limit |-> IF wanted THEN Adjusted(n) ELSE n]
    /\ UNCHANGED <<copied, early, serviceMap, totalCallCount, pc, object, index, calls, use, used>>

EndInit ==
    /\ init = "running"
    /\ init' = "done"
    /\ UNCHANGED <<option, copied, early, serviceMap, totalCallCount, pc, object, index, calls, use, used>>

(* What newService may read. No lock orders it with the assignments of      *)
(* Init: while Init runs, any of them may have reached it.                  *)
Seen ==
    IF init = "running"
    THEN [discover : {FALSE, option.discover},
          useCircuit : {FALSE, option.useCircuit},
          limit : {0, option.limit}]
    ELSE {option}

----------------------------------------------------------------------------
(* engine.Service *)

IsKnown == serviceMap # NoObject

Invoke(c) ==
    /\ pc[c] = "idle"
    /\ calls[c] < MaxCalls
    /\ calls' = [calls EXCEPT ![c] = @ + 1]
    /\ early' = (early \/ init # "done")

Lookup(c) ==
    /\ Invoke(c)
    /\ IsKnown
    /\ object' = [object EXCEPT ![c] = serviceMap]
    /\ pc' = [pc EXCEPT ![c] = "call"]
    /\ UNCHANGED <<init, option, copied, serviceMap, totalCallCount, index, use, used>>

(* newService: a fresh object, its counter at zero, in nobody else's hands. *)
Create(c) ==
    /\ Invoke(c)
    /\ ~IsKnown
    /\ object' = [object EXCEPT ![c] = c]
    /\ \E conf \in Seen : copied' = [copied EXCEPT ![c] = conf]
    /\ pc' = [pc EXCEPT ![c] = "insert"]
    /\ UNCHANGED <<init, option, serviceMap, totalCallCount, index, use, used>>

(* The insert overwrites what another goroutine inserted meanwhile. *)
Insert(c) ==
    /\ pc[c] = "insert"
    /\ serviceMap' = object[c]
    /\ pc' = [pc EXCEPT ![c] = "call"]
    /\ UNCHANGED <<init, option, copied, early, totalCallCount, object, index, calls, use, used>>

----------------------------------------------------------------------------
(* service.remote *)

ReadCount(c) ==
    /\ pc[c] = "call"
    /\ index' = [index EXCEPT ![c] = totalCallCount[object[c]]]
    /\ pc' = [pc EXCEPT ![c] = "remote"]
    /\ UNCHANGED <<engineVars, totalCallCount, object, calls, use, used>>

Position(i, l) == IF l > 1 THEN i % l ELSE 0

PickNode(c) ==
    /\ pc[c] = "remote"
    /\ copied[object[c]].discover
    /\ \E l \in NodeCounts :
        use' = [use EXCEPT ![c] = [at |-> Position(index[c], l), length |-> l]]
    /\ pc' = [pc EXCEPT ![c] = "picked"]
    /\ UNCHANGED <<engineVars, totalCallCount, object, index, calls, used>>

(* No discovery, that of newEngine, which always fails, an error of it, no  *)
(* nodes, or not one id for each node.                                      *)
NoNodeFound(c) ==
    /\ pc[c] = "remote"
    /\ pc' = [pc EXCEPT ![c] = "failed"]
    /\ UNCHANGED <<engineVars, totalCallCount, object, index, calls, use, used>>

(* The deferred Add(1) runs however remote ends. *)
Increment(end) == 1

Return(c) ==
    /\ pc[c] \in {"picked", "failed"}
    /\ totalCallCount' = [totalCallCount EXCEPT ![object[c]] = @ + Increment(pc[c])]
    /\ used' = [used EXCEPT ![c][object[c]] = index[c]]
    /\ pc' = [pc EXCEPT ![c] = "idle"]
    /\ object' = [object EXCEPT ![c] = NoObject]
    /\ index' = [index EXCEPT ![c] = 0]
    /\ use' = [use EXCEPT ![c] = NoPosition]
    /\ UNCHANGED <<engineVars, calls>>

Step(c) ==
    \/ Lookup(c) \/ Create(c) \/ Insert(c)
    \/ ReadCount(c) \/ PickNode(c) \/ NoNodeFound(c) \/ Return(c)

(* Init is done and every goroutine has made its calls. *)
Done ==
    /\ init = "done"
    /\ \A c \in Callers : pc[c] = "idle" /\ calls[c] = MaxCalls
    /\ UNCHANGED vars

Next ==
    \/ BeginInit \/ EndInit
    \/ \E c \in Callers : Step(c)
    \/ Done

Spec == Init /\ [][Next]_vars

----------------------------------------------------------------------------
(* A goroutine between Service and the end of remote has an object, and the *)
(* position that it takes is one of the list.                               *)
TypeOK ==
    /\ init \in {"before", "running", "done"}
    /\ option \in Configurations
    /\ copied \in [Objects -> Configurations]
    /\ early \in BOOLEAN
    /\ serviceMap \in Objects \cup {NoObject}
    /\ totalCallCount \in [Objects -> Nat]
    /\ pc \in [Callers -> {"idle", "insert", "call", "remote", "picked", "failed"}]
    /\ object \in [Callers -> Objects \cup {NoObject}]
    /\ \A c \in Callers : pc[c] # "idle" => object[c] \in Objects
    /\ index \in [Callers -> Nat]
    /\ calls \in [Callers -> Nat]
    /\ used \in [Callers -> [Objects -> Nat \cup {-1}]]
    /\ use \in [Callers -> [at : Nat, length : NodeCounts \cup {1}]]
    /\ \A c \in Callers : use[c].at < use[c].length

(* A goroutine moves on with every call: remote never gives it an index of  *)
(* an object again, whatever the calls of others, the failures of the       *)
(* discovery, and the steps between reading the counter and adding to it.   *)
IndexAdvances ==
    \A c \in Callers :
        pc[c] \in {"remote", "picked", "failed"} => index[c] > used[c][object[c]]

(* The race of Service settles: once the map has an object and nobody is    *)
(* about to insert another, nobody ever will be, and the name keeps that    *)
(* object, and with it the one call counter.                                *)
Settled == serviceMap # NoObject /\ \A c \in Callers : pc[c] # "insert"

StaysSettled == Settled => Settled' /\ serviceMap' = serviceMap

ObjectSettles == [][StaysSettled]_vars

(* Calls that come after Init see all that Init set. A name that somebody   *)
(* used earlier may keep an object without: with the discovery of newEngine *)
(* for good, or with a circuit and no limits, however late the calls are.   *)
ConfiguredUnlessEarly ==
    early \/ \A c \in Callers : pc[c] # "idle" => copied[object[c]] = option

(* No object has a circuit with a limit out of range; one with no limit,    *)
(* which leaves it to hystrix, was made while Init was running.             *)
LimitsInRange ==
    \A o \in Objects :
        copied[o].useCircuit =>
            \/ Low <= copied[o].limit /\ copied[o].limit <= High
            \/ early /\ copied[o].limit = 0

(* What makes IndexAdvances inductive: nobody has used an index that the    *)
(* counter has not passed, and no goroutine is ahead of the counter.        *)
CountersAreAhead ==
    /\ \A c \in Callers : \A o \in Objects : used[c][o] < totalCallCount[o]
    /\ \A c \in Callers :
        pc[c] \in {"remote", "picked", "failed"} => index[c] <= totalCallCount[object[c]]

IInv == TypeOK /\ CountersAreAhead /\ IndexAdvances
=============================================================================
