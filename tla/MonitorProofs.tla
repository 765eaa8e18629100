--------------------------- MODULE MonitorProofs ---------------------------
(***************************************************************************)
(* Proofs about the monitor, for any reporters, keys, requests, channel    *)
(* length, limits and clock: nothing is lost or counted twice between the  *)
(* channels, the maps and the batches.                                     *)
(*                                                                         *)
(* The invariant counts what waits in a channel, so the lemmas of the      *)
(* first part say what a sum over a sequence does when an element enters   *)
(* at the end or leaves at the front. They are proved by induction over    *)
(* the length, from the least element of the set of counterexamples.       *)
(***************************************************************************)
EXTENDS Monitor, WellFoundedInduction, TLAPS

(* A non-empty set of numbers has a least element.                         *)
LEMMA LeastElement ==
    ASSUME NEW T, T \subseteq Nat, T # {}
    PROVE \E m \in T : \A k \in T : m <= k
<1>1. PICK m \in T : \A k \in T : ~(<<k, m>> \in OpToRel(<, Nat))
  BY NatLessThanWellFounded, WFMin, Zenon
<1>2. ASSUME NEW k \in Nat, k < m PROVE <<k, m>> \in OpToRel(<, Nat)
  <2>1. <<k, m>> \in Nat \X Nat
    OBVIOUS
  <2>2. <<k, m>>[1] < <<k, m>>[2]
    BY <1>2
  <2> QED
    BY <2>1, <2>2, Zenon DEF OpToRel
<1>3. \A k \in T : ~(k < m)
  BY <1>1, <1>2, Zenon
<1> QED
  BY <1>3

(* A set with 0 that is closed under the successor holds every number. *)
LEMMA InductiveSet ==
    ASSUME NEW S, 0 \in S, \A n \in Nat : n \in S => n + 1 \in S
    PROVE Nat \subseteq S
<1> SUFFICES ASSUME Nat \ S # {} PROVE FALSE
  OBVIOUS
<1>1. PICK m \in Nat \ S : \A k \in Nat \ S : m <= k
  BY LeastElement
<1>2. m # 0 /\ m - 1 \in Nat /\ m - 1 \in S
  BY <1>1
<1> QED
  BY <1>1, <1>2

----------------------------------------------------------------------------
(* g holds the sums of the first n elements of s, for n up to m. *)
IsPartialSums(g, s, m) ==
    g = [n \in 0 .. m |-> IF n = 0 THEN 0 ELSE g[n - 1] + s[n]]

(* There are such sums, and they are integers. *)
LEMMA PartialSumsExist ==
    ASSUME NEW s \in Seq(Int)
    PROVE \E g \in [0 .. Len(s) -> Int] : IsPartialSums(g, s, Len(s))
<1> DEFINE S == {m \in Nat : m <= Len(s) => \E g \in [0 .. m -> Int] : IsPartialSums(g, s, m)}
<1>1. 0 \in S
  <2> DEFINE g == [n \in 0 .. 0 |-> 0]
  <2>1. g \in [0 .. 0 -> Int] /\ IsPartialSums(g, s, 0)
    BY DEF IsPartialSums
  <2> QED
    BY <2>1
<1>2. ASSUME NEW m \in Nat, m \in S PROVE m + 1 \in S
  <2> SUFFICES ASSUME m + 1 <= Len(s)
               PROVE \E g \in [0 .. m + 1 -> Int] : IsPartialSums(g, s, m + 1)
    OBVIOUS
  <2>1. PICK g \in [0 .. m -> Int] : IsPartialSums(g, s, m)
    BY <1>2
  <2>2. \A n \in 0 .. m : g[n] = IF n = 0 THEN 0 ELSE g[n - 1] + s[n]
    BY <2>1 DEF IsPartialSums
  <2> DEFINE h == [n \in 0 .. m + 1 |-> IF n = m + 1 THEN g[m] + s[m + 1] ELSE g[n]]
  <2>3. h \in [0 .. m + 1 -> Int]
    BY <2>1
  <2>4. ASSUME NEW n \in 0 .. m + 1 PROVE h[n] = IF n = 0 THEN 0 ELSE h[n - 1] + s[n]
    BY <2>2
  <2>5. IsPartialSums(h, s, m + 1)
    <3> HIDE DEF h
    <3>1. h = [n \in 0 .. m + 1 |-> IF n = 0 THEN 0 ELSE h[n - 1] + s[n]]
      BY <2>3, <2>4
    <3> QED
      BY <3>1, Zenon DEF IsPartialSums
  <2> QED
    BY <2>3, <2>5
<1>3. Len(s) \in S
  <2> HIDE DEF S
  <2> QED
    BY <1>1, <1>2, InductiveSet
<1> QED
  BY <1>3

(* Two of them agree as far as the sequences do. *)
LEMMA PartialSumsAgree ==
    ASSUME NEW s, NEW t, NEW g, NEW h, NEW m \in Nat, NEW l \in Nat, NEW k \in Nat,
           IsPartialSums(g, s, m), IsPartialSums(h, t, l), k <= m, k <= l,
           \A i \in 1 .. k : s[i] = t[i]
    PROVE g[k] = h[k]
<1> DEFINE S == {n \in Nat : n <= k => g[n] = h[n]}
<1>1. /\ \A n \in 0 .. m : g[n] = IF n = 0 THEN 0 ELSE g[n - 1] + s[n]
      /\ \A n \in 0 .. l : h[n] = IF n = 0 THEN 0 ELSE h[n - 1] + t[n]
  BY DEF IsPartialSums
<1>2. 0 \in S
  BY <1>1
<1>3. ASSUME NEW n \in Nat, n \in S PROVE n + 1 \in S
  BY <1>1, <1>3
<1>4. k \in S
  <2> HIDE DEF S
  <2> QED
    BY <1>2, <1>3, InductiveSet
<1> QED
  BY <1>4

(* Total is the last of the partial sums, whichever they are. *)
LEMMA TotalIsLastSum ==
    ASSUME NEW s \in Seq(Int), NEW g, IsPartialSums(g, s, Len(s))
    PROVE Total(s) = g[Len(s)] /\ Total(s) \in Int
<1>1. PICK e \in [0 .. Len(s) -> Int] : IsPartialSums(e, s, Len(s))
  BY PartialSumsExist
<1>2. \E h : IsPartialSums(h, s, Len(s)) /\ Total(s) = h[Len(s)]
  BY DEF Total, IsPartialSums
<1>3. PICK h : IsPartialSums(h, s, Len(s)) /\ Total(s) = h[Len(s)]
  BY <1>2
<1>4. g[Len(s)] = e[Len(s)] /\ h[Len(s)] = e[Len(s)]
  BY <1>1, <1>3, PartialSumsAgree
<1> QED
  BY <1>1, <1>3, <1>4

(* Nothing adds up to zero.                                                *)
LEMMA TotalEmpty == Total(<<>>) = 0
<1> DEFINE s == <<>>
<1>1. s \in Seq(Int) /\ Len(s) = 0
  OBVIOUS
<1> HIDE DEF s
<1>2. PICK g \in [0 .. Len(s) -> Int] : IsPartialSums(g, s, Len(s))
  BY <1>1, PartialSumsExist
<1>3. g[0] = 0
  BY <1>1, <1>2 DEF IsPartialSums
<1>4. Total(s) = g[Len(s)]
  BY <1>1, <1>2, TotalIsLastSum
<1> QED
  BY <1>1, <1>3, <1>4 DEF s

(* An element that enters at the end adds itself. *)
LEMMA TotalAppend ==
    ASSUME NEW s \in Seq(Int), NEW x \in Int
    PROVE Total(Append(s, x)) = Total(s) + x
<1> DEFINE t == Append(s, x)
<1>1. /\ t \in Seq(Int) /\ Len(t) = Len(s) + 1 /\ t[Len(s) + 1] = x
      /\ \A i \in 1 .. Len(s) : s[i] = t[i]
  OBVIOUS
<1> HIDE DEF t
<1>2. PICK g \in [0 .. Len(s) -> Int] : IsPartialSums(g, s, Len(s))
  BY PartialSumsExist
<1>3. PICK h \in [0 .. Len(t) -> Int] : IsPartialSums(h, t, Len(t))
  BY <1>1, PartialSumsExist
<1>4. h[Len(t)] = h[Len(s)] + x
  BY <1>1, <1>3 DEF IsPartialSums
<1>5. g[Len(s)] = h[Len(s)]
  <2>1. Len(s) \in Nat /\ Len(t) \in Nat /\ Len(s) <= Len(s) /\ Len(s) <= Len(t)
    BY <1>1
  <2>2. \A i \in 1 .. Len(s) : s[i] = t[i]
    BY <1>1
  <2>3. IsPartialSums(g, s, Len(s)) /\ IsPartialSums(h, t, Len(t))
    BY <1>2, <1>3
  <2> QED
    BY <2>1, <2>2, <2>3, PartialSumsAgree, SMTT(30)
<1>6. Total(s) = g[Len(s)] /\ Total(t) = h[Len(t)]
  BY <1>1, <1>2, <1>3, TotalIsLastSum
<1> QED
  BY <1>4, <1>5, <1>6 DEF t

(* An element that leaves at the front takes itself away. *)
LEMMA TotalTail ==
    ASSUME NEW s \in Seq(Int), s # <<>>
    PROVE Total(Tail(s)) = Total(s) - Head(s)
<1> DEFINE t == Tail(s)
<1>1. /\ t \in Seq(Int) /\ Len(t) + 1 = Len(s) /\ s[1] = Head(s) /\ Head(s) \in Int
      /\ \A i \in 1 .. Len(t) : t[i] = s[i + 1]
  OBVIOUS
<1> HIDE DEF t
<1>2. PICK g \in [0 .. Len(s) -> Int] : IsPartialSums(g, s, Len(s))
  BY PartialSumsExist
<1>3. PICK h \in [0 .. Len(t) -> Int] : IsPartialSums(h, t, Len(t))
  BY <1>1, PartialSumsExist
<1>4. /\ \A n \in 0 .. Len(s) : g[n] = IF n = 0 THEN 0 ELSE g[n - 1] + s[n]
      /\ \A n \in 0 .. Len(t) : h[n] = IF n = 0 THEN 0 ELSE h[n - 1] + t[n]
  BY <1>2, <1>3 DEF IsPartialSums
<1> DEFINE S == {n \in Nat : n <= Len(t) => g[n + 1] = h[n] + Head(s)}
<1>5. 0 \in S
  <2>1. g[0] = 0 /\ g[1] = g[0] + s[1] /\ h[0] = 0
    BY <1>1, <1>4
  <2> QED
    BY <1>1, <2>1
<1>6. ASSUME NEW n \in Nat, n \in S PROVE n + 1 \in S
  <2> SUFFICES ASSUME n + 1 <= Len(t) PROVE g[n + 2] = h[n + 1] + Head(s)
    OBVIOUS
  <2>1. g[n + 2] = g[n + 1] + s[n + 2] /\ h[n + 1] = h[n] + t[n + 1] /\ t[n + 1] = s[n + 2]
    <3>1. /\ n + 2 \in 0 .. Len(s) /\ n + 2 # 0 /\ (n + 2) - 1 = n + 1 /\ (n + 1) + 1 = n + 2
          /\ n + 1 \in 0 .. Len(t) /\ n + 1 # 0 /\ (n + 1) - 1 = n /\ n + 1 \in 1 .. Len(t)
      BY <1>1
    <3>2. g[n + 2] = g[(n + 2) - 1] + s[n + 2]
      BY <1>4, <3>1
    <3>3. h[n + 1] = h[(n + 1) - 1] + t[n + 1]
      BY <1>4, <3>1
    <3> QED
      BY <1>1, <3>1, <3>2, <3>3
  <2>2. h[n] \in Int /\ t[n + 1] \in Int
    BY <1>1, <1>3
  <2> QED
    BY <1>1, <1>6, <2>1, <2>2
<1>7. Len(t) \in S
  <2>1. Len(t) \in Nat
    BY <1>1
  <2> HIDE DEF S
  <2> QED
    BY <1>5, <1>6, <2>1, InductiveSet
<1>8. Total(s) = g[Len(s)] /\ Total(t) = h[Len(t)] /\ Total(t) \in Int
  BY <1>1, <1>2, <1>3, TotalIsLastSum
<1> QED
  BY <1>1, <1>7, <1>8 DEF t

(* A sum of zeros and ones is at most their number. *)
LEMMA TotalOfFlags ==
    ASSUME NEW s \in Seq({0, 1})
    PROVE Total(s) \in 0 .. Len(s)
<1>1. s \in Seq(Int) /\ Len(s) \in Nat /\ \A i \in 1 .. Len(s) : s[i] \in {0, 1}
  OBVIOUS
<1>2. PICK g \in [0 .. Len(s) -> Int] : IsPartialSums(g, s, Len(s))
  BY <1>1, PartialSumsExist
<1>3. \A n \in 0 .. Len(s) : g[n] = IF n = 0 THEN 0 ELSE g[n - 1] + s[n]
  BY <1>2 DEF IsPartialSums
<1> DEFINE S == {n \in Nat : n <= Len(s) => g[n] \in 0 .. n}
<1>4. 0 \in S
  BY <1>1, <1>3
<1>5. ASSUME NEW n \in Nat, n \in S PROVE n + 1 \in S
  <2> SUFFICES ASSUME n + 1 <= Len(s) PROVE g[n + 1] \in 0 .. n + 1
    OBVIOUS
  <2>1. g[n + 1] = g[n] + s[n + 1]
    BY <1>1, <1>3
  <2> QED
    BY <1>1, <1>5, <2>1
<1>6. Len(s) \in S
  <2> HIDE DEF S
  <2> QED
    BY <1>1, <1>4, <1>5, InductiveSet
<1>7. Total(s) = g[Len(s)]
  BY <1>1, <1>2, TotalIsLastSum
<1> QED
  BY <1>1, <1>6, <1>7

----------------------------------------------------------------------------
(* What a channel holds for a key, when an item enters or leaves it. *)
Item == [key : Keys, time : Int]
Info == [counter : Nat, sum : Int]
One(item, k) == IF item.key = k THEN [counter |-> 1, sum |-> item.time] ELSE Zero

(* A function on the first n numbers is a sequence of length n.             *)
LEMMA IsSequence ==
    ASSUME NEW S, NEW n \in Nat, NEW f \in [1 .. n -> S]
    PROVE f \in Seq(S) /\ Len(f) = n
OBVIOUS

(* The items of a key are known by a flag and a time at each position.     *)
LEMMA FlagsAndTimes ==
    ASSUME NEW items \in Seq(Item), NEW k
    PROVE /\ CountsFor(items, k) \in Seq({0, 1}) /\ CountsFor(items, k) \in Seq(Int)
          /\ TimesFor(items, k) \in Seq(Int)
          /\ Len(CountsFor(items, k)) = Len(items) /\ Len(TimesFor(items, k)) = Len(items)
<1>1. /\ \A i \in 1 .. Len(items) : items[i] \in Item
      /\ Len(items) \in Nat
  OBVIOUS
<1>2. \A i \in 1 .. Len(items) : items[i].time \in Int
  BY <1>1 DEF Item
<1>3. /\ CountsFor(items, k) \in [1 .. Len(items) -> {0, 1}]
      /\ CountsFor(items, k) \in [1 .. Len(items) -> Int]
  BY <1>1 DEF CountsFor
<1>4. TimesFor(items, k) \in [1 .. Len(items) -> Int]
  BY <1>1, <1>2 DEF TimesFor
<1>5. CountsFor(items, k) \in Seq({0, 1}) /\ Len(CountsFor(items, k)) = Len(items)
  BY <1>1, <1>3, IsSequence
<1>6. CountsFor(items, k) \in Seq(Int)
  BY <1>1, <1>3, IsSequence
<1>7. TimesFor(items, k) \in Seq(Int) /\ Len(TimesFor(items, k)) = Len(items)
  BY <1>1, <1>4, IsSequence
<1> QED
  BY <1>5, <1>6, <1>7

(* A channel holds a count, at most its length, and a sum of each key.     *)
LEMMA HeldType ==
    ASSUME NEW items \in Seq(Item), NEW k
    PROVE /\ Held(items, k) \in Info
          /\ Held(items, k).counter \in 0 .. Len(items)
<1>1. Total(CountsFor(items, k)) \in 0 .. Len(items)
  BY FlagsAndTimes, TotalOfFlags
<1>2. Total(TimesFor(items, k)) \in Int
  <2>1. TimesFor(items, k) \in Seq(Int)
    BY FlagsAndTimes
  <2>2. PICK g : IsPartialSums(g, TimesFor(items, k), Len(TimesFor(items, k)))
    BY <2>1, PartialSumsExist
  <2> QED
    BY <2>1, <2>2, TotalIsLastSum
<1> QED
  BY <1>1, <1>2 DEF Held, Info

(* An empty channel holds nothing.                                         *)
LEMMA HeldEmpty == \A k : Held(<<>>, k) = Zero
<1> TAKE k
<1>1. CountsFor(<<>>, k) = <<>> /\ TimesFor(<<>>, k) = <<>>
  BY DEF CountsFor, TimesFor
<1> QED
  BY <1>1, TotalEmpty DEF Held, Zero

(* An item sent to a channel adds itself to what is held of its own key.   *)
LEMMA HeldAppend ==
    ASSUME NEW items \in Seq(Item), NEW item \in Item, NEW k
    PROVE Held(Append(items, item), k) = Plus(Held(items, k), One(item, k))
<1> DEFINE all == Append(items, item)
           flag == IF item.key = k THEN 1 ELSE 0
           time == IF item.key = k THEN item.time ELSE 0
<1>1. /\ all \in Seq(Item) /\ Len(all) = Len(items) + 1 /\ all[Len(items) + 1] = item
      /\ \A i \in 1 .. Len(items) : all[i] = items[i]
  OBVIOUS
<1>2. item.time \in Int
  BY DEF Item
<1>3. CountsFor(all, k) = Append(CountsFor(items, k), flag)
  <2> HIDE DEF all
  <2> QED
    BY <1>1, FlagsAndTimes DEF CountsFor
<1>4. TimesFor(all, k) = Append(TimesFor(items, k), time)
  <2> HIDE DEF all
  <2> QED
    BY <1>1, <1>2, FlagsAndTimes DEF TimesFor
<1>5. Total(CountsFor(all, k)) = Total(CountsFor(items, k)) + flag
  BY <1>3, FlagsAndTimes, TotalAppend
<1>6. Total(TimesFor(all, k)) = Total(TimesFor(items, k)) + time
  BY <1>2, <1>4, FlagsAndTimes, TotalAppend
<1> QED
  BY <1>5, <1>6 DEF Held, Plus, One, Zero

(* An item received takes itself away, and nothing of another key.         *)
LEMMA HeldTail ==
    ASSUME NEW items \in Seq(Item), items # <<>>, NEW k
    PROVE Held(Tail(items), k) = Minus(Held(items, k), One(Head(items), k))
<1> DEFINE rest == Tail(items)
           item == Head(items)
           flag == IF item.key = k THEN 1 ELSE 0
           time == IF item.key = k THEN item.time ELSE 0
<1>1. /\ rest \in Seq(Item) /\ Len(items) = Len(rest) + 1 /\ items[1] = item
      /\ \A i \in 1 .. Len(rest) : rest[i] = items[i + 1]
  OBVIOUS
<1>2. CountsFor(items, k) # <<>> /\ Head(CountsFor(items, k)) = flag
  BY <1>1, FlagsAndTimes DEF CountsFor
<1>3. CountsFor(rest, k) = Tail(CountsFor(items, k))
  <2> HIDE DEF rest
  <2> QED
    BY <1>1, FlagsAndTimes DEF CountsFor
<1>4. TimesFor(items, k) # <<>> /\ Head(TimesFor(items, k)) = time
  BY <1>1, FlagsAndTimes DEF TimesFor
<1>5. TimesFor(rest, k) = Tail(TimesFor(items, k))
  <2> HIDE DEF rest
  <2> QED
    BY <1>1, FlagsAndTimes DEF TimesFor
<1>6. Total(CountsFor(rest, k)) = Total(CountsFor(items, k)) - flag
  BY <1>2, <1>3, FlagsAndTimes, TotalTail
<1>7. Total(TimesFor(rest, k)) = Total(TimesFor(items, k)) - time
  BY <1>4, <1>5, FlagsAndTimes, TotalTail
<1> QED
  BY <1>6, <1>7 DEF Held, Minus, One, Zero

----------------------------------------------------------------------------
(* The books: what the channels hold, what the maps hold, what is owed.     *)
BooksTyped ==
    /\ queue \in [Channels -> Seq(Item)]
    /\ \A ch \in Channels : Len(queue[ch]) <= QueueLen
    /\ countMap \in [Channels -> [Keys -> Info]]
    /\ owed \in [Channels -> [Keys -> Info]]

Counters(maps) == \A ch \in Channels : \A k \in Keys : maps[ch][k].counter <= MaxCount

Books == BooksTyped /\ Counters(countMap) /\ NothingLostInside

(* The other conjuncts of the type invariant, with what the clock needs. *)
LocalsTyped ==
    /\ stage \in {"off", "conf", "queues", "run"}
    /\ reportCountTmp \in 0 .. CheckLimit + 1
    /\ sinceSend \in Int /\ sinceSend <= Interval
    /\ sinceSend >= -(SetBack * setBacks)
    /\ pc \in [Reporters -> {"idle", "count", "time"}]
    /\ request \in [Reporters -> Requests]
    /\ setBacks \in 0 .. MaxSetBacks

(* Counts and sums add up to counts and sums.                              *)
LEMMA PlusMinus ==
    /\ \A a, b \in Info : Plus(a, b) \in Info
    /\ \A a \in Info : Plus(a, Zero) = a /\ Minus(a, Zero) = a
    /\ Zero \in Info
BY DEF Plus, Minus, Info, Zero

(* What leaves the channel for the map leaves the sum of both as it was.   *)
LEMMA PlusCommutes ==
    ASSUME NEW a \in Info, NEW b \in Info, NEW c \in Info
    PROVE /\ Plus(Plus(a, b), c) = Plus(Plus(a, c), b)
          /\ Plus(a, b) = Plus(Minus(a, c), Plus(b, c))
BY DEF Plus, Minus, Info

(* A report that a channel accepts is owed, one that it refuses is not: the *)
(* bound of the history does not bite below MaxCount.                       *)
LEMMA OfferKeepsBooks ==
    ASSUME Books, NEW ch \in Channels, NEW item \in Item, Offer(ch, item),
           UNCHANGED countMap
    PROVE Books'
<1> USE BoundsAssumption DEF Books, BooksTyped
<1>1. CASE UNCHANGED <<queue, owed>>
  BY <1>1 DEF Counters, NothingLostInside, InQueue
<1>2. CASE /\ HasRoom(ch)
           /\ queue' = [queue EXCEPT ![ch] = Append(@, item)]
           /\ Owed(ch, item)
  <2>0. /\ item.key \in Keys /\ item.time \in Int /\ queue[ch] \in Seq(Item)
        /\ owed[ch][item.key] \in Info
    BY DEF Item
  <2> DEFINE k == item.key
             bound == MaxCount + QueueLen
             next == CountedUpTo(bound, owed[ch][k], item.time)
  <2>1. next \in Info
    BY <2>0 DEF CountedUpTo, Info, Plus
  <2>2. owed' = [owed EXCEPT ![ch][k] = next]
    BY <1>2 DEF Owed
  <2>3. queue' \in [Channels -> Seq(Item)] /\ \A c \in Channels : Len(queue'[c]) <= QueueLen
    BY <1>2, <2>0 DEF HasRoom
  <2>4. owed' \in [Channels -> [Keys -> Info]]
    <3> HIDE DEF next
    <3> QED
      BY <2>0, <2>1, <2>2
  <2>5. ASSUME NEW c \in Channels, NEW l \in Keys \ Unparsable, countMap[c][l].counter < MaxCount
        PROVE owed'[c][l] = Plus(InQueue(c, l)', countMap[c][l])
    <3>1. owed[c][l] = Plus(InQueue(c, l), countMap[c][l])
      BY <2>5 DEF NothingLostInside
    <3>2. CASE c # ch
      BY <1>2, <2>2, <3>1, <3>2 DEF InQueue
    <3>3. CASE c = ch /\ l # k
      <4>1. InQueue(c, l)' = Plus(InQueue(c, l), Zero)
        <5>1. queue'[c] = Append(queue[c], item)
          BY <1>2, <3>3
        <5>2. Held(Append(queue[c], item), l) = Plus(Held(queue[c], l), One(item, l))
          BY <2>0, <3>3, HeldAppend
        <5>3. One(item, l) = Zero
          BY <3>3 DEF One
        <5> QED
          BY <5>1, <5>2, <5>3 DEF InQueue
      <4>2. InQueue(c, l) \in Info
        BY <2>0, <3>3, HeldType DEF InQueue
      <4>3. owed'[c][l] = owed[c][l]
        BY <2>2, <3>3
      <4> QED
        BY <3>1, <4>1, <4>2, <4>3, PlusMinus
    <3>4. CASE c = ch /\ l = k
      <4> DEFINE one == [counter |-> 1, sum |-> item.time]
      <4>1. InQueue(c, l)' = Plus(InQueue(c, l), one)
        <5>1. queue'[c] = Append(queue[c], item)
          BY <1>2, <3>4
        <5>2. Held(Append(queue[c], item), l) = Plus(Held(queue[c], l), One(item, l))
          BY <2>0, <3>4, HeldAppend
        <5>3. One(item, l) = one
          BY <3>4 DEF One
        <5> QED
          BY <5>1, <5>2, <5>3 DEF InQueue
      <4>2. InQueue(c, l) \in Info /\ InQueue(c, l).counter <= Len(queue[c])
        BY <2>0, <3>4, HeldType DEF InQueue
      <4>3. countMap[c][l] \in Info
        OBVIOUS
      <4>4. owed[c][l].counter < bound
        BY <1>2, <2>0, <2>5, <3>1, <3>4, <4>2, <4>3 DEF Plus, Info, HasRoom
      <4>5. owed'[c][l] = Plus(owed[c][l], one)
        BY <2>0, <2>2, <3>4, <4>4 DEF CountedUpTo
      <4>6. one \in Info
        BY <2>0 DEF Info
      <4> HIDE DEF one
      <4> QED
        BY <3>1, <4>1, <4>2, <4>3, <4>5, <4>6, PlusCommutes
    <3> QED
      BY <3>2, <3>3, <3>4
  <2> QED
    BY <2>3, <2>4, <2>5 DEF Counters, NothingLostInside
<1> QED
  BY <1>1, <1>2 DEF Offer

(* The books between the taking of a report and the flush, if there is one: *)
(* maps is what the maps hold then, and the channels have their new state.  *)
Settled(maps) ==
    /\ queue' \in [Channels -> Seq(Item)]
    /\ \A ch \in Channels : Len(queue'[ch]) <= QueueLen
    /\ maps \in [Channels -> [Keys -> Info]]
    /\ Counters(maps)
    /\ owed \in [Channels -> [Keys -> Info]]
    /\ \A ch \in Channels : \A k \in Keys \ Unparsable :
        maps[ch][k].counter < MaxCount =>
            owed[ch][k] = Plus(InQueue(ch, k)', maps[ch][k])

(* A flush hands over what the maps hold and keeps what is in the channels. *)
LEMMA SendKeepsBooks ==
    ASSUME NEW maps, Settled(maps), Send(maps)
    PROVE Books'
<1> USE BoundsAssumption
<1>1. countMap' = [ch \in Channels |-> [k \in Keys |-> Zero]]
  BY DEF Send, AfterFlush, Empty
<1>2. \A ch \in Channels : \A k \in Keys : countMap'[ch][k] = Zero
  BY <1>1
<1>3. ASSUME NEW ch \in Channels, NEW k \in Keys
      PROVE /\ maps[ch][k] \in Info /\ maps[ch][k].counter <= MaxCount
            /\ owed[ch][k] \in Info /\ InQueue(ch, k)' \in Info
  <2>1. queue'[ch] \in Seq(Item)
    BY DEF Settled
  <2>2. InQueue(ch, k)' \in Info
    BY <2>1, HeldType DEF InQueue
  <2> QED
    BY <2>2 DEF Settled, Counters
<1>4. ASSUME NEW ch \in Channels, NEW k \in Keys
      PROVE owed'[ch][k] = IF maps[ch][k].counter = MaxCount
                           THEN InQueue(ch, k)'
                           ELSE Minus(owed[ch][k], Metric(maps, ch, k))
  BY DEF Send
<1>5. ASSUME NEW ch \in Channels, NEW k \in Keys \ Unparsable
      PROVE owed'[ch][k] = InQueue(ch, k)'
  <2>1. CASE maps[ch][k].counter = MaxCount
    BY <1>4, <2>1
  <2>2. CASE maps[ch][k].counter # MaxCount
    <3>1. maps[ch][k].counter < MaxCount
      BY <1>3, <2>2 DEF Info
    <3>2. owed[ch][k] = Plus(InQueue(ch, k)', maps[ch][k])
      BY <3>1 DEF Settled
    <3>3. owed'[ch][k] = Minus(owed[ch][k], maps[ch][k])
      BY <1>4, <2>2 DEF Metric, ParsesBack
    <3>4. \A a, b \in Info : Minus(Plus(a, b), b) = a
      BY DEF Minus, Plus, Info
    <3> QED
      BY <1>3, <3>2, <3>3, <3>4
  <2> QED
    BY <2>1, <2>2
<1>6. ASSUME NEW ch \in Channels, NEW k \in Keys PROVE owed'[ch][k] \in Info
  <2>1. CASE k \in Unparsable
    BY <1>3, <1>4, <2>1, PlusMinus DEF Metric, ParsesBack
  <2>2. CASE k \notin Unparsable
    BY <1>3, <1>5, <2>2
  <2> QED
    BY <2>1, <2>2
<1>7. owed' \in [Channels -> [Keys -> Info]]
  <2>1. owed' = [ch \in Channels |-> [k \in Keys |-> owed'[ch][k]]]
    BY DEF Send
  <2> QED
    BY <1>6, <2>1
<1>8. countMap' \in [Channels -> [Keys -> Info]]
  BY <1>1, PlusMinus
<1>9. BooksTyped'
  BY <1>7, <1>8 DEF BooksTyped, Settled
<1>10. Counters(countMap')
  BY <1>2 DEF Counters, Zero
<1>11. NothingLostInside'
  <2> SUFFICES ASSUME NEW ch \in Channels, NEW k \in Keys \ Unparsable
               PROVE owed'[ch][k] = Plus(InQueue(ch, k)', countMap'[ch][k])
    BY DEF NothingLostInside
  <2> QED
    BY <1>2, <1>3, <1>5, PlusMinus
<1> QED
  BY <1>9, <1>10, <1>11 DEF Books, Counters

(* Taking a report moves it from the channel to the map. *)
LEMMA TakeSettles ==
    ASSUME Books, NEW ch \in Channels, queue[ch] # <<>>,
           queue' = [queue EXCEPT ![ch] = Tail(@)]
    PROVE LET item == Head(queue[ch])
          IN  Settled([countMap EXCEPT ![ch][item.key] = Counted(@, item.time)])
<1> USE BoundsAssumption DEF Books, BooksTyped
<1> DEFINE item == Head(queue[ch])
           k == item.key
           next == Counted(countMap[ch][k], item.time)
           maps == [countMap EXCEPT ![ch][k] = next]
<1>1. /\ queue[ch] \in Seq(Item) /\ item \in Item /\ item.key \in Keys /\ item.time \in Int
      /\ countMap[ch][k] \in Info /\ countMap[ch][k].counter <= MaxCount
  <2>1. queue[ch] \in Seq(Item)
    OBVIOUS
  <2>2. item \in Item
    BY <2>1
  <2> HIDE DEF item
  <2>3. item.key \in Keys /\ item.time \in Int
    BY <2>2 DEF Item
  <2>4. countMap[ch][k] \in Info /\ countMap[ch][k].counter <= MaxCount
    BY <2>3 DEF Counters
  <2> QED
    BY <2>1, <2>2, <2>3, <2>4
<1>2. next \in Info /\ next.counter <= MaxCount
  BY <1>1 DEF Counted, CountedUpTo, Info, Plus
<1>3. queue' \in [Channels -> Seq(Item)] /\ \A c \in Channels : Len(queue'[c]) <= QueueLen
  BY <1>1
<1>4. /\ maps \in [Channels -> [Keys -> Info]]
      /\ \A c \in Channels : \A l \in Keys :
            maps[c][l] = IF c = ch /\ l = k THEN next ELSE countMap[c][l]
  <2> HIDE DEF next, k
  <2> QED
    BY <1>1, <1>2
<1> HIDE DEF maps
<1>5. Counters(maps)
  BY <1>2, <1>4 DEF Counters
<1>6. ASSUME NEW c \in Channels, NEW l \in Keys \ Unparsable, maps[c][l].counter < MaxCount
      PROVE owed[c][l] = Plus(InQueue(c, l)', maps[c][l])
  <2>0. queue[c] \in Seq(Item) /\ InQueue(c, l) \in Info /\ countMap[c][l] \in Info
    BY HeldType DEF InQueue
  <2>1. CASE c # ch
    <3>1. maps[c][l] = countMap[c][l] /\ InQueue(c, l)' = InQueue(c, l)
      BY <1>4, <2>1 DEF InQueue
    <3> QED
      BY <1>6, <3>1 DEF NothingLostInside
  <2>2. CASE c = ch
    <3>1. InQueue(c, l)' = Minus(InQueue(c, l), One(item, l))
      <4>1. queue'[c] = Tail(queue[c])
        BY <2>2
      <4>2. Held(Tail(queue[c]), l) = Minus(Held(queue[c], l), One(item, l))
        BY <2>0, <2>2, HeldTail
      <4> QED
        BY <4>1, <4>2 DEF InQueue
    <3>2. CASE l # k
      <4>1. maps[c][l] = countMap[c][l] /\ One(item, l) = Zero
        BY <1>4, <3>2 DEF One
      <4>2. InQueue(c, l)' = InQueue(c, l)
        BY <2>0, <3>1, <4>1, PlusMinus
      <4> QED
        BY <1>6, <4>1, <4>2 DEF NothingLostInside
    <3>3. CASE l = k
      <4> DEFINE one == [counter |-> 1, sum |-> item.time]
      <4>1. maps[c][l] = next /\ One(item, l) = one
        BY <1>4, <2>2, <3>3 DEF One
      <4>2. countMap[c][l].counter < MaxCount
        BY <1>6, <2>0, <2>2, <3>3, <4>1 DEF Counted, CountedUpTo
      <4>3. maps[c][l] = Plus(countMap[c][l], one)
        BY <2>2, <3>3, <4>1, <4>2 DEF Counted, CountedUpTo
      <4>4. owed[c][l] = Plus(InQueue(c, l), countMap[c][l])
        BY <4>2 DEF NothingLostInside
      <4>5. InQueue(c, l)' = Minus(InQueue(c, l), one)
        BY <3>1, <4>1
      <4>6. one \in Info
        BY <1>1 DEF Info
      <4> HIDE DEF one
      <4> QED
        BY <2>0, <4>3, <4>4, <4>5, <4>6, PlusCommutes
    <3> QED
      BY <3>2, <3>3
  <2> QED
    BY <2>1, <2>2
<1>7. Settled(maps)
  BY <1>3, <1>4, <1>5, <1>6 DEF Settled
<1> QED
  BY <1>7 DEF maps

(* A receive moves an item into the map, or with the map into a batch.     *)
LEMMA TakeKeepsBooks ==
    ASSUME Books, NEW ch \in Channels, Take(ch)
    PROVE Books'
<1> DEFINE item == Head(queue[ch])
           maps == [countMap EXCEPT ![ch][item.key] = Counted(@, item.time)]
<1>1. /\ queue[ch] # <<>> /\ queue' = [queue EXCEPT ![ch] = Tail(@)]
      /\ \/ Send(maps)
         \/ countMap' = maps /\ owed' = owed
  BY Zenon DEF Take
<1>2. Settled(maps)
  BY <1>1, TakeSettles
<1> HIDE DEF maps
<1>3. CASE Send(maps)
  BY <1>2, <1>3, SendKeepsBooks
<1>4. CASE countMap' = maps /\ owed' = owed
  BY <1>2, <1>4 DEF Settled, Books, BooksTyped, Counters, NothingLostInside
<1> QED
  BY <1>1, <1>3, <1>4

(* A flush when all is quiet hands over what the map has.                  *)
LEMMA FlushKeepsBooks ==
    ASSUME Books, SendWhenIdle
    PROVE Books'
<1>1. queue' = queue /\ Send(countMap)
  BY DEF SendWhenIdle
<1>2. Settled(countMap)
  BY <1>1 DEF Settled, Books, BooksTyped, NothingLostInside, InQueue
<1> QED
  BY <1>1, <1>2, SendKeepsBooks

(* A reporter offers a report of one of the Requests to its channel.        *)
LEMMA ReportOffers ==
    ASSUME LocalsTyped, NEW r \in Reporters, Report(r)
    PROVE /\ UNCHANGED countMap
          /\ \/ UNCHANGED <<queue, owed>>
             \/ \E ch \in Channels : \E item \in Item : Offer(ch, item)
<1>1. /\ request[r].key \in Keys /\ request[r].time \in Int
      /\ request[r].outcome \in Outcomes
  BY RequestsAssumption DEF LocalsTyped, Outcomes
<1>2. CountOf[request[r].outcome] \in Channels /\ TimeOf[request[r].outcome] \in Channels
  BY <1>1, Zenon DEF Channels
<1>3. /\ [key |-> request[r].key, time |-> 0] \in Item
      /\ [key |-> request[r].key, time |-> request[r].time] \in Item
  BY <1>1 DEF Item
<1>4. CASE ReportCount(r)
  BY <1>2, <1>3, <1>4, Zenon DEF ReportCount
<1>5. CASE ReportTime(r)
  BY <1>2, <1>3, <1>5, Zenon DEF ReportTime
<1> QED
  BY <1>4, <1>5 DEF Report

(* Every step of a reporter, the goroutine or the clock keeps the books.   *)
LEMMA BooksInductive ==
    LocalsTyped /\ Books /\ [Next]_vars => Books'
<1> SUFFICES ASSUME LocalsTyped, Books, [Next]_vars PROVE Books'
  OBVIOUS
<1> DEFINE Idle == UNCHANGED <<queue, countMap, owed>>
<1>1. Idle => Books'
  BY DEF Books, BooksTyped, Counters, NothingLostInside, InQueue
<1>2. ASSUME NEW r \in Reporters, Report(r) PROVE Books'
  <2>1. CASE UNCHANGED <<queue, owed>>
    BY <1>1, <1>2, <2>1, ReportOffers
  <2>2. ASSUME NEW ch \in Channels, NEW item \in Item, Offer(ch, item) PROVE Books'
    BY <1>2, <2>2, ReportOffers, OfferKeepsBooks
  <2> QED
    BY <1>2, <2>1, <2>2, ReportOffers
<1>3. ASSUME NEW r \in Reporters, Begin(r) PROVE Idle
  BY <1>3 DEF Begin, monitorVars
<1>4. ASSUME NEW ch \in Channels, Take(ch) PROVE Books'
  BY <1>4, TakeKeepsBooks
<1>5. CASE SendWhenIdle
  BY <1>5, FlushKeepsBooks
<1>6. CASE InitSteps \/ Tick \/ ClockStepBack \/ UNCHANGED vars
  <2>1. Idle
    BY <1>6 DEF InitSteps, SetConf, MakeQueues, StartProcessing, Tick, ClockStepBack, vars, monitorVars
  <2> QED
    BY <1>1, <2>1
<1> QED
  BY <1>1, <1>2, <1>3, <1>4, <1>5, <1>6 DEF Next

(* Every step keeps the types of what is in no book.                       *)
LEMMA LocalsInductive ==
    LocalsTyped /\ [Next]_vars => LocalsTyped'
<1> SUFFICES ASSUME LocalsTyped, [Next]_vars PROVE LocalsTyped'
  OBVIOUS
<1> USE BoundsAssumption DEF LocalsTyped
<1>0. setBacks \in Int /\ SetBack \in Int /\ SetBack * setBacks \in Nat
  OBVIOUS
<1>1. CASE InitSteps
  BY <1>0, <1>1 DEF InitSteps, SetConf, MakeQueues, StartProcessing
<1>2. ASSUME NEW r \in Reporters, Begin(r) PROVE LocalsTyped'
  BY <1>2 DEF Begin, monitorVars
<1>3. ASSUME NEW r \in Reporters, Report(r) PROVE LocalsTyped'
  <2>1. AnyRequest \in Requests
    BY RequestsAssumption DEF AnyRequest
  <2>2. /\ UNCHANGED <<stage, reportCountTmp, sinceSend, setBacks>>
        /\ pc' \in [Reporters -> {"idle", "count", "time"}]
        /\ request' \in [Reporters -> Requests]
    BY <1>3, <2>1 DEF Report, ReportCount, ReportTime
  <2> QED
    BY <2>2
<1>4. ASSUME NEW ch \in Channels, Take(ch) PROVE LocalsTyped'
  <2>1. /\ UNCHANGED <<stage, pc, request, setBacks>>
        /\ \/ reportCountTmp' = 0 /\ sinceSend' = 0
           \/ /\ sinceSend' = sinceSend
              /\ reportCountTmp' = IF reportCountTmp + 1 > CheckLimit
                                   THEN CheckLimit + 1 ELSE reportCountTmp + 1
    BY <1>4, Zenon DEF Take, Send
  <2> QED
    BY <1>0, <2>1
<1>5. CASE SendWhenIdle
  BY <1>0, <1>5 DEF SendWhenIdle, Send
<1>6. CASE Tick
  BY <1>6 DEF Tick
<1>7. CASE ClockStepBack
  <2>1. SetBack * (setBacks + 1) = SetBack * setBacks + SetBack
    BY <1>0
  <2> QED
    BY <1>0, <1>7, <2>1 DEF ClockStepBack
<1>8. CASE UNCHANGED vars
  BY <1>8 DEF vars, monitorVars
<1> QED
  BY <1>1, <1>2, <1>3, <1>4, <1>5, <1>6, <1>7, <1>8 DEF Next

(* The two parts together are the invariant of the module.                 *)
LEMMA PartsAreIInv == LocalsTyped /\ Books => IInv
<1> SUFFICES ASSUME LocalsTyped, Books PROVE IInv
  OBVIOUS
<1> USE BoundsAssumption DEF LocalsTyped, Books, BooksTyped
<1>1. sinceSend \in -(SetBack * MaxSetBacks) .. Interval
  <2> DEFINE low == SetBack * MaxSetBacks
             down == SetBack * setBacks
             spare == SetBack * (MaxSetBacks - setBacks)
  <2>1. down \in Int /\ spare \in Nat /\ low = down + spare
    OBVIOUS
  <2>2. sinceSend \in Int /\ sinceSend <= Interval /\ sinceSend >= -down
    OBVIOUS
  <2> HIDE DEF low, down, spare
  <2>3. sinceSend \in -low .. Interval
    BY <2>1, <2>2
  <2> QED
    BY <2>3 DEF low
<1>2. TypeOK
  BY <1>1 DEF TypeOK, Item, Info
<1>3. WithinBounds
  BY DEF WithinBounds, Counters
<1> QED
  BY <1>2, <1>3 DEF IInv

(* The inductive invariant of the monitor: every variable has its type, the *)
(* counters stay within their bound, and the books of every channel and key *)
(* balance.                                                                 *)
THEOREM Inductive == Spec => []IInv
<1>1. Init => LocalsTyped /\ Books
  <2> SUFFICES ASSUME Init PROVE LocalsTyped /\ Books
    OBVIOUS
  <2> USE BoundsAssumption DEF Init
  <2>1. LocalsTyped
    <3>1. AnyRequest \in Requests
      BY RequestsAssumption DEF AnyRequest
    <3> QED
      BY <3>1 DEF LocalsTyped
  <2>2. BooksTyped
    BY PlusMinus DEF BooksTyped, Empty
  <2>3. Counters(countMap)
    BY DEF Counters, Empty, Zero
  <2>4. NothingLostInside
    BY HeldEmpty, PlusMinus DEF NothingLostInside, InQueue, Empty
  <2> QED
    BY <2>1, <2>2, <2>3, <2>4 DEF Books
<1> QED
  BY <1>1, BooksInductive, LocalsInductive, PartsAreIInv, PTL DEF Spec

(* Type correctness: no channel outgrows its length, and what is owed to    *)
(* the senders is never less than nothing.                                  *)
THEOREM TypeCorrect == Spec => []TypeOK
<1>1. IInv => TypeOK
  BY DEF IInv
<1> QED
  BY <1>1, Inductive, PTL

(* Every report that a channel accepted is in the channel, in the map or in *)
(* one batch, whatever the reporters, the goroutine and the clock do.       *)
THEOREM NothingIsLostInside == Spec => []NothingLostInside
<1>1. IInv => NothingLostInside
  BY DEF IInv
<1> QED
  BY <1>1, Inductive, PTL
=============================================================================
