------------------------- MODULE InvokeEngineProofs -------------------------
(***************************************************************************)
(* Proofs about InvokeEngine, for any number of goroutines, node lists and *)
(* calls. The inductive invariant is IInv: the counter of an object is     *)
(* ahead of every index that anybody holds or has used of it. That of the  *)
(* configuration is ConfInv: until somebody is early, no object is made    *)
(* before Init is done.                                                    *)
(***************************************************************************)
EXTENDS InvokeEngine, TLAPS

(* The position remote computes from its index is one of the list.          *)
LEMMA PositionInList ==
    ASSUME NEW i \in Nat, NEW l \in Nat \ {0}
    PROVE  Position(i, l) \in 0 .. l - 1
<1>1. CASE l > 1
  BY <1>1 DEF Position
<1>2. CASE ~(l > 1)
  BY <1>2 DEF Position
<1> QED
  BY <1>1, <1>2

(* What Init makes of a limit is in its range.                              *)
LEMMA AdjustedInRange ==
    ASSUME NEW n \in Int
    PROVE  Adjusted(n) \in Int /\ Low <= Adjusted(n) /\ Adjusted(n) <= High
  BY RangeAssumption DEF Adjusted

(* What newService reads is a configuration.                                *)
LEMMA SeenIsConfiguration ==
    ASSUME TypeOK, NEW conf \in Seen
    PROVE  conf \in Configurations
<1>1. option \in Configurations
  BY DEF TypeOK
<1>2. CASE init = "running"
  <2>1. conf \in [discover : {FALSE, option.discover},
                  useCircuit : {FALSE, option.useCircuit},
                  limit : {0, option.limit}]
    BY <1>2 DEF Seen
  <2>2. option.discover \in BOOLEAN /\ option.useCircuit \in BOOLEAN /\ option.limit \in Int
    BY <1>1 DEF Configurations
  <2>3. /\ {FALSE, option.discover} \subseteq BOOLEAN
        /\ {FALSE, option.useCircuit} \subseteq BOOLEAN
        /\ {0, option.limit} \subseteq Int
    BY <2>2
  <2>4. ASSUME NEW D \in SUBSET BOOLEAN, NEW U \in SUBSET BOOLEAN, NEW L \in SUBSET Int,
               conf \in [discover : D, useCircuit : U, limit : L]
        PROVE  conf \in [discover : BOOLEAN, useCircuit : BOOLEAN, limit : Int]
    BY <2>4, Zenon
  <2> QED
    BY <2>1, <2>3, <2>4 DEF Configurations
<1>3. CASE init # "running"
  BY <1>1, <1>3 DEF Seen
<1> QED
  BY <1>2, <1>3

(* The locals of a goroutine in Service and remote keep their types: beyond *)
(* Service it has an object, and every position it picks is in the list.    *)
THEOREM TypeCorrect == Spec => []TypeOK
<1>1. Init => TypeOK
  <2> SUFFICES ASSUME Init
               PROVE  TypeOK
    OBVIOUS
  <2>1. Unset \in Configurations
    BY DEF Configurations, Unset
  <2>2. option \in Configurations /\ copied \in [Objects -> Configurations]
    BY <2>1 DEF Init
  <2>3. /\ use \in [Callers -> [at : Nat, length : NodeCounts \cup {1}]]
        /\ \A c \in Callers : use[c].at < use[c].length
    BY DEF Init, NoPosition
  <2> QED
    BY <2>2, <2>3 DEF Init, TypeOK, Objects
<1>2. TypeOK /\ [Next]_vars => TypeOK'
  <2> SUFFICES ASSUME TypeOK, [Next]_vars
               PROVE TypeOK'
    OBVIOUS
  <2> USE DEF TypeOK, Objects, engineVars
  <2>1. ASSUME BeginInit
        PROVE TypeOK'
    <3>1. PICK wanted \in BOOLEAN, n \in Limits :
            option' = [discover |-> TRUE, useCircuit |-> wanted,
                       limit |-> IF wanted THEN Adjusted(n) ELSE n]
      BY <2>1 DEF BeginInit
    <3>2. option' \in Configurations
      BY <3>1, AdjustedInRange, LimitsAssumption DEF Configurations
    <3> QED
      BY <2>1, <3>2 DEF BeginInit
  <2>2. ASSUME EndInit
        PROVE TypeOK'
    BY <2>2 DEF EndInit
  <2>3. ASSUME NEW c \in Callers, Lookup(c)
        PROVE TypeOK'
    BY <2>3 DEF Lookup, Invoke, IsKnown
  <2>4. ASSUME NEW c \in Callers, Create(c)
        PROVE TypeOK'
    <3>1. PICK conf \in Seen : copied' = [copied EXCEPT ![c] = conf]
      BY <2>4 DEF Create
    <3>2. copied' \in [Objects -> Configurations]
      BY <3>1, SeenIsConfiguration
    <3> QED
      BY <2>4, <3>2 DEF Create, Invoke
  <2>5. ASSUME NEW c \in Callers, Insert(c)
        PROVE TypeOK'
    BY <2>5 DEF Insert
  <2>6. ASSUME NEW c \in Callers, ReadCount(c)
        PROVE TypeOK'
    BY <2>6 DEF ReadCount
  <2>7. ASSUME NEW c \in Callers, PickNode(c)
        PROVE TypeOK'
    <3>1. PICK l \in NodeCounts :
            use' = [use EXCEPT ![c] = [at |-> Position(index[c], l), length |-> l]]
      BY <2>7 DEF PickNode
    <3>2. Position(index[c], l) \in 0 .. l - 1
      BY PositionInList, NodeCountsAssumption
    <3>3. use' \in [Callers -> [at : Nat, length : NodeCounts \cup {1}]]
      BY <3>1, <3>2
    <3>4. ASSUME NEW d \in Callers
          PROVE  use'[d].at < use'[d].length
      BY <3>1, <3>2, NodeCountsAssumption
    <3> QED
      BY <2>7, <3>3, <3>4 DEF PickNode
  <2>8. ASSUME NEW c \in Callers, NoNodeFound(c)
        PROVE TypeOK'
    BY <2>8 DEF NoNodeFound
  <2>9. ASSUME NEW c \in Callers, Return(c)
        PROVE TypeOK'
    BY <2>9 DEF Return, Increment, NoPosition
  <2>10. CASE UNCHANGED vars
    BY <2>10 DEF vars
  <2> QED
    BY <2>1, <2>2, <2>3, <2>4, <2>5, <2>6, <2>7, <2>8, <2>9, <2>10 DEF Next, Step, Done
<1> QED
  BY <1>1, <1>2, PTL DEF Spec

(* The counter of an object is ahead of every index used, and no goroutine  *)
(* is ahead of the counter: with that, each call of a goroutine gets an     *)
(* index above the last one it had of the object.                           *)
THEOREM Inductive == Spec => []IInv
<1>1. Init => CountersAreAhead /\ IndexAdvances
  BY DEF Init, CountersAreAhead, IndexAdvances, Objects
<1>2. TypeOK /\ CountersAreAhead /\ IndexAdvances /\ [Next]_vars
        => CountersAreAhead' /\ IndexAdvances'
  <2> SUFFICES ASSUME TypeOK, CountersAreAhead, IndexAdvances, [Next]_vars
               PROVE CountersAreAhead' /\ IndexAdvances'
    OBVIOUS
  <2> USE DEF TypeOK, Objects, engineVars
  <2>1. ASSUME NEW c \in Callers, Lookup(c) \/ Create(c) \/ Insert(c)
        PROVE CountersAreAhead' /\ IndexAdvances'
    BY <2>1 DEF Lookup, Create, Insert, Invoke, CountersAreAhead, IndexAdvances
  <2>2. ASSUME NEW c \in Callers, ReadCount(c)
        PROVE CountersAreAhead' /\ IndexAdvances'
    BY <2>2 DEF ReadCount, CountersAreAhead, IndexAdvances
  <2>3. ASSUME NEW c \in Callers, PickNode(c) \/ NoNodeFound(c)
        PROVE CountersAreAhead' /\ IndexAdvances'
    BY <2>3 DEF PickNode, NoNodeFound, CountersAreAhead, IndexAdvances
  <2>4. ASSUME NEW c \in Callers, Return(c)
        PROVE CountersAreAhead' /\ IndexAdvances'
    <3>1. /\ object[c] \in Objects
          /\ index[c] <= totalCallCount[object[c]]
          /\ pc'[c] = "idle"
      BY <2>4 DEF Return, CountersAreAhead
    <3>2. totalCallCount' = [totalCallCount EXCEPT ![object[c]] = @ + 1]
      BY <2>4 DEF Return, Increment
    <3>3. \A o \in Objects : totalCallCount'[o] >= totalCallCount[o]
      BY <3>1, <3>2
    <3>4. totalCallCount'[object[c]] > index[c]
      BY <3>1, <3>2
    <3>5. /\ used' = [used EXCEPT ![c][object[c]] = index[c]]
          /\ \A d \in Callers \ {c} : pc'[d] = pc[d] /\ object'[d] = object[d] /\ index'[d] = index[d]
      BY <2>4 DEF Return
    <3>6. ASSUME NEW d \in Callers, NEW o \in Objects
          PROVE used'[d][o] < totalCallCount'[o]
      <4>1. CASE d = c /\ o = object[c]
        BY <4>1, <3>4, <3>5
      <4>2. CASE ~(d = c /\ o = object[c])
        <5>1. used'[d][o] = used[d][o]
          BY <4>2, <3>5
        <5>2. used[d][o] < totalCallCount[o]
          BY DEF CountersAreAhead
        <5>3. used[d][o] \in Int /\ totalCallCount[o] \in Int /\ totalCallCount'[o] \in Int
          <6>1. used[d] \in [Objects -> Nat \cup {-1}]
            OBVIOUS
          <6> QED
            BY <6>1, <3>2
        <5>4. totalCallCount'[o] >= totalCallCount[o]
          BY <3>3
        <5> QED
          BY <5>1, <5>2, <5>3, <5>4
      <4> QED
        BY <4>1, <4>2
    <3>7. ASSUME NEW d \in Callers, pc'[d] \in {"remote", "picked", "failed"}
          PROVE /\ index'[d] <= totalCallCount'[object'[d]]
                /\ index'[d] > used'[d][object'[d]]
      <4>1. d # c
        BY <3>1, <3>7
      <4>2. pc[d] \in {"remote", "picked", "failed"} /\ object[d] \in Objects
        BY <4>1, <3>5, <3>7
      <4>3. index[d] <= totalCallCount[object[d]] /\ index[d] > used[d][object[d]]
        BY <4>2 DEF CountersAreAhead, IndexAdvances
      <4>4. used'[d] = used[d]
        BY <4>1, <3>5
      <4>5. totalCallCount'[object[d]] \in Nat /\ totalCallCount[object[d]] \in Nat
        BY <4>2, <3>2
      <4> QED
        BY <4>1, <4>2, <4>3, <4>4, <4>5, <3>3, <3>5
    <3> QED
      BY <3>6, <3>7 DEF CountersAreAhead, IndexAdvances
  <2>5. CASE BeginInit \/ EndInit
    BY <2>5 DEF BeginInit, EndInit, CountersAreAhead, IndexAdvances
  <2>6. CASE UNCHANGED vars
    BY <2>6 DEF vars, CountersAreAhead, IndexAdvances
  <2> QED
    BY <2>1, <2>2, <2>3, <2>4, <2>5, <2>6 DEF Next, Step, Done
<1> QED
  BY <1>1, <1>2, TypeCorrect, PTL DEF Spec, IInv

(* No goroutine is ever given an index of a service object twice, nor one   *)
(* below an index it had: each of its calls moves on, however many others   *)
(* call at the same time.                                                   *)
THEOREM IndexAlwaysAdvances == Spec => []IndexAdvances
<1>1. IInv => IndexAdvances
  BY DEF IInv
<1> QED
  BY <1>1, Inductive, PTL

(* A counter never falls behind the calls that use it.                      *)
THEOREM CountersStayAhead == Spec => []CountersAreAhead
<1>1. IInv => CountersAreAhead
  BY DEF IInv
<1> QED
  BY <1>1, Inductive, PTL

(* With an object in the map and no insert under way, the name keeps that   *)
(* object for good: only a goroutine that missed the map can replace it.    *)
THEOREM ObjectsSettle == Spec => ObjectSettles
<1>1. TypeOK /\ [Next]_vars => [StaysSettled]_vars
  <2> SUFFICES ASSUME TypeOK, [Next]_vars, Settled
               PROVE  Settled' /\ serviceMap' = serviceMap
    BY DEF StaysSettled
  <2> USE DEF TypeOK, Settled, engineVars
  <2>1. ASSUME NEW c \in Callers, Lookup(c)
        PROVE  Settled' /\ serviceMap' = serviceMap
    BY <2>1 DEF Lookup, Invoke
  <2>2. ASSUME NEW c \in Callers, Create(c)
        PROVE  FALSE
    BY <2>2 DEF Create, IsKnown
  <2>3. ASSUME NEW c \in Callers, Insert(c)
        PROVE  FALSE
    BY <2>3 DEF Insert
  <2>4. ASSUME NEW c \in Callers, ReadCount(c) \/ PickNode(c) \/ NoNodeFound(c)
        PROVE  Settled' /\ serviceMap' = serviceMap
    BY <2>4 DEF ReadCount, PickNode, NoNodeFound
  <2>5. ASSUME NEW c \in Callers, Return(c)
        PROVE  Settled' /\ serviceMap' = serviceMap
    BY <2>5 DEF Return
  <2>6. CASE BeginInit \/ EndInit
    BY <2>6 DEF BeginInit, EndInit
  <2>7. CASE UNCHANGED vars
    BY <2>7 DEF vars
  <2> QED
    BY <2>1, <2>2, <2>3, <2>4, <2>5, <2>6, <2>7 DEF Next, Step, Done
<1> QED
  BY <1>1, TypeCorrect, PTL DEF Spec, ObjectSettles

(* Until somebody is early, there is no object before Init is done, and the *)
(* objects there are have copied all of it; and what they copy is in range. *)
NobodyWasEarly ==
    ~early =>
        /\ init # "done" => serviceMap = NoObject /\ \A c \in Callers : pc[c] = "idle"
        /\ serviceMap # NoObject => copied[serviceMap] = option

OptionInRange == option.useCircuit => Low <= option.limit /\ option.limit <= High

ConfInv == NobodyWasEarly /\ OptionInRange /\ ConfiguredUnlessEarly /\ LimitsInRange

(* The configuration that Init sets reaches every object made after it: with *)
(* no call before, every call has all of it; and no circuit ever has a limit *)
(* out of range, torn copies included.                                       *)
THEOREM ConfInductive == Spec => []ConfInv
<1>1. Init => ConfInv
  BY DEF Init, ConfInv, NobodyWasEarly, OptionInRange, ConfiguredUnlessEarly, LimitsInRange, Unset, Objects
<1>2. TypeOK /\ ConfInv /\ [Next]_vars => ConfInv'
  <2> SUFFICES ASSUME TypeOK, ConfInv, [Next]_vars
               PROVE  ConfInv'
    OBVIOUS
  <2> USE DEF TypeOK, Objects, engineVars, ConfInv, NobodyWasEarly, OptionInRange, ConfiguredUnlessEarly, LimitsInRange
  <2>1. CASE BeginInit
    <3>1. PICK wanted \in BOOLEAN, n \in Limits :
            option' = [discover |-> TRUE, useCircuit |-> wanted,
                       limit |-> IF wanted THEN Adjusted(n) ELSE n]
      BY <2>1 DEF BeginInit
    <3>2. OptionInRange'
      BY <3>1, AdjustedInRange, LimitsAssumption
    <3> QED
      BY <2>1, <3>2 DEF BeginInit
  <2>2. CASE EndInit
    BY <2>2 DEF EndInit
  <2>3. ASSUME NEW c \in Callers, Lookup(c)
        PROVE  ConfInv'
    BY <2>3 DEF Lookup, Invoke, IsKnown
  <2>4. ASSUME NEW c \in Callers, Create(c)
        PROVE  ConfInv'
    <3>1. PICK conf \in Seen : copied' = [copied EXCEPT ![c] = conf]
      BY <2>4 DEF Create
    <3>2. /\ early' = (early \/ init # "done")
          /\ object' = [object EXCEPT ![c] = c]
          /\ pc' = [pc EXCEPT ![c] = "insert"]
          /\ UNCHANGED <<init, option, serviceMap>>
      BY <2>4 DEF Create, Invoke
    <3>3. ~early' => conf = option
      BY <3>2 DEF Seen
    <3>4. conf.useCircuit =>
            \/ Low <= conf.limit /\ conf.limit <= High
            \/ early' /\ conf.limit = 0
      <4>1. CASE init = "running"
        <5>1. conf \in [discover : {FALSE, option.discover},
                        useCircuit : {FALSE, option.useCircuit},
                        limit : {0, option.limit}]
          BY <4>1 DEF Seen
        <5>2. conf.useCircuit => option.useCircuit
          BY <5>1
        <5>3. conf.limit \in {0, option.limit} /\ early'
          BY <5>1, <4>1, <3>2
        <5> QED
          BY <5>2, <5>3
      <4>2. CASE init # "running"
        BY <4>2 DEF Seen
      <4> QED
        BY <4>1, <4>2
    <3>5. \A o \in Objects : copied'[o] = IF o = c THEN conf ELSE copied[o]
      BY <3>1
    <3>6. LimitsInRange'
      BY <3>2, <3>4, <3>5
    <3>7. ConfiguredUnlessEarly'
      BY <3>2, <3>3, <3>5
    <3>8. NobodyWasEarly'
      BY <3>2, <3>3, <3>5
    <3> QED
      BY <3>2, <3>6, <3>7, <3>8
  <2>5. ASSUME NEW c \in Callers, Insert(c)
        PROVE  ConfInv'
    BY <2>5 DEF Insert
  <2>6. ASSUME NEW c \in Callers, ReadCount(c) \/ PickNode(c) \/ NoNodeFound(c)
        PROVE  ConfInv'
    BY <2>6 DEF ReadCount, PickNode, NoNodeFound
  <2>7. ASSUME NEW c \in Callers, Return(c)
        PROVE  ConfInv'
    BY <2>7 DEF Return
  <2>8. CASE UNCHANGED vars
    BY <2>8 DEF vars
  <2> QED
    BY <2>1, <2>2, <2>3, <2>4, <2>5, <2>6, <2>7, <2>8 DEF Next, Step, Done
<1> QED
  BY <1>1, <1>2, TypeCorrect, PTL DEF Spec

(* A name that nobody used before Init was done has all that Init set.      *)
THEOREM LateCallsAreConfigured == Spec => []ConfiguredUnlessEarly
<1>1. ConfInv => ConfiguredUnlessEarly
  BY DEF ConfInv
<1> QED
  BY <1>1, ConfInductive, PTL

(* No circuit has a limit out of range, whatever Init was given and however *)
(* its assignments reach a service object that is being made.               *)
THEOREM LimitsStayInRange == Spec => []LimitsInRange
<1>1. ConfInv => LimitsInRange
  BY DEF ConfInv
<1> QED
  BY <1>1, ConfInductive, PTL
=============================================================================
