------------------------- MODULE ConsulCacheProofs -------------------------
(***************************************************************************)
(* Proofs about ConsulCache, for any names, callers, node lists, ages and  *)
(* any number of registry changes and failures: what Discover serves was   *)
(* listed by the registry, under the name that was asked for.              *)
(***************************************************************************)
EXTENDS ConsulCache, TLAPS

----------------------------------------------------------------------------
(* The operators on entries.                                               *)

(* The ages stay within their sets as time passes. *)
LEMMA AgesAreAges ==
    /\ 0 \in TAges /\ ZeroT \in TAges /\ 0 \in RAges /\ ZeroR \in RAges
    /\ \A age \in TAges : Older(age, ZeroT) \in TAges
    /\ \A age \in RAges : Older(age, ZeroR) \in RAges
BY TimesAssumption DEF TAges, RAges, ZeroT, ZeroR, Older

(* An answer of the agent becomes an entry: good exactly when it is a list. *)
LEMMA NewEntryIsEntry ==
    ASSUME NEW a \in Lists \cup {NoHosts, Failed}
    PROVE  /\ NewEntry(a) \in Entry
           /\ IsBadAnswer(a) => NewEntry(a).err /\ NewEntry(a).hosts = NoHosts
           /\ ~IsBadAnswer(a) =>
                ~NewEntry(a).err /\ NewEntry(a).hosts = a /\ a \in Lists
<1>1. CASE IsBadAnswer(a)
  <2>1. NewEntry(a) = [err |-> TRUE, hosts |-> NoHosts, t |-> ZeroT, r |-> ZeroR]
    BY <1>1 DEF NewEntry
  <2> QED
    BY <1>1, <2>1, AgesAreAges DEF Entry
<1>2. CASE ~IsBadAnswer(a)
  <2>1. NewEntry(a) = [err |-> FALSE, hosts |-> a, t |-> 0, r |-> ZeroR]
    BY <1>2 DEF NewEntry
  <2>2. a \in Lists
    BY <1>2 DEF IsBadAnswer
  <2> QED
    BY <1>2, <2>1, <2>2, AgesAreAges DEF Entry
<1> QED
  BY <1>1, <1>2

(* A caller holds the nodes and the error of the entry it found. *)
LEMMA HoldIsHeld ==
    ASSUME NEW e \in Entry
    PROVE  /\ Hold(e) \in HeldEntry
           /\ Hold(e).err = e.err
           /\ Hold(e).hosts = e.hosts
BY DEF Hold, HeldEntry, Entry

(* Time and use change the times of an entry only. *)
LEMMA AgedIsEntry ==
    ASSUME NEW e \in Entry
    PROVE  /\ Aged(e) \in Entry
           /\ Aged(e).err = e.err
           /\ Aged(e).hosts = e.hosts
<1>1. e # None
  BY NoneAssumption
<1>2. /\ Older(e.t, ZeroT) \in TAges
      /\ Older(e.r, ZeroR) \in RAges
  <2>1. e.t \in TAges /\ e.r \in RAges
    BY DEF Entry
  <2> QED
    BY <2>1, AgesAreAges
<1>3. Aged(e) = [e EXCEPT !.t = Older(@, ZeroT), !.r = Older(@, ZeroR)]
  BY <1>1 DEF Aged
<1> QED
  BY <1>2, <1>3 DEF Entry

(* A use resets the time of the last use. *)
LEMMA UsedIsEntry ==
    ASSUME NEW e \in Entry
    PROVE  /\ [e EXCEPT !.r = 0] \in Entry
           /\ [e EXCEPT !.r = 0].err = e.err
           /\ [e EXCEPT !.r = 0].hosts = e.hosts
BY AgesAreAges DEF Entry

(* Taking names out of the map leaves the callers what they hold, and a     *)
(* link only to those whose entry stays.                                    *)
LEMMA UnlinkedIsHeld ==
    ASSUME held \in [Callers -> HeldEntry \cup {None}], NEW names
    PROVE  /\ Unlinked(names) \in [Callers -> HeldEntry \cup {None}]
           /\ \A c \in Callers :
                /\ Unlinked(names)[c] # None <=> held[c] # None
                /\ held[c] # None =>
                    /\ Unlinked(names)[c].err = held[c].err
                    /\ Unlinked(names)[c].hosts = held[c].hosts
                    /\ Unlinked(names)[c].linked => held[c].linked /\ asking[c] \notin names
<1>1. ASSUME NEW c \in Callers, held[c] # None, asking[c] \in names
      PROVE  /\ Unlinked(names)[c] = [held[c] EXCEPT !.linked = FALSE]
             /\ Unlinked(names)[c] \in HeldEntry
             /\ Unlinked(names)[c].err = held[c].err
             /\ Unlinked(names)[c].hosts = held[c].hosts
             /\ Unlinked(names)[c].linked = FALSE
  <2>1. Unlinked(names)[c] = [held[c] EXCEPT !.linked = FALSE]
    BY <1>1 DEF Unlinked
  <2>2. held[c] \in HeldEntry
    BY <1>1
  <2> QED
    BY <2>1, <2>2 DEF HeldEntry
<1>2. ASSUME NEW c \in Callers, ~(held[c] # None /\ asking[c] \in names)
      PROVE  Unlinked(names)[c] = held[c]
  BY <1>2 DEF Unlinked
<1>3. \A c \in Callers : Unlinked(names)[c] \in HeldEntry \cup {None}
  BY <1>1, <1>2
<1>4. Unlinked(names) \in [Callers -> HeldEntry \cup {None}]
  BY <1>3 DEF Unlinked
<1> QED
  BY <1>1, <1>2, <1>4, NoneAssumption
----------------------------------------------------------------------------
(* The invariant: one lemma per action, one step per conjunct.             *)

(* The empty cache of a started client satisfies the invariant. *)
LEMMA Initially == Init => IInv
<1> SUFFICES ASSUME Init PROVE IInv
  OBVIOUS
<1> USE TimesAssumption, MaxFaultsAssumption, ValuesAssumption DEF Init
<1>1. TypeOK
  BY DEF TypeOK, Reported
<1>2. BusyWithName
  BY DEF BusyWithName, Clients
<1>3. LinksAreLive
  BY DEF LinksAreLive
<1>4. CachedErrorNeverServed
  BY DEF CachedErrorNeverServed
<1>5. NodesWereReported
  BY DEF NodesWereReported, Reported
<1> QED
  BY <1>1, <1>2, <1>3, <1>4, <1>5 DEF IInv

(* A change of the registry only adds to the history. *)
LEMMA RegistryChangesKeepsIInv ==
    ASSUME IInv, NEW n \in Names, RegistryChanges(n)
    PROVE  IInv'
<1> USE TimesAssumption, MaxFaultsAssumption, ValuesAssumption
        DEF IInv, agent, callers, loop
<1>1. TypeOK'
  BY DEF RegistryChanges, Reported, TypeOK, Clients
<1>2. BusyWithName'
  BY DEF RegistryChanges, Reported, BusyWithName, TypeOK, Clients
<1>3. LinksAreLive'
  BY DEF RegistryChanges, Reported, LinksAreLive, BusyWithName, TypeOK, Clients
<1>4. CachedErrorNeverServed'
  BY DEF RegistryChanges, Reported, CachedErrorNeverServed, BusyWithName,
         TypeOK, Clients
<1>5. NodesWereReported'
  BY DEF RegistryChanges, NodesWereReported, Reported, BusyWithName, TypeOK,
         Clients
<1> QED
  BY <1>1, <1>2, <1>3, <1>4, <1>5

(* An answer is what the registry holds, hence in the history. *)
LEMMA AgentAnswersKeepsIInv ==
    ASSUME IInv, NEW x \in Clients, AgentAnswers(x)
    PROVE  IInv'
<1> USE TimesAssumption, MaxFaultsAssumption, ValuesAssumption
        DEF IInv, agent, callers, loop
<1>1. asking[x] \in Names /\ registry[asking[x]] \in Lists \cup {NoHosts}
  BY DEF AgentAnswers, InQuery, TypeOK, BusyWithName, Clients
<1>2. TypeOK'
  BY <1>1 DEF AgentAnswers, InQuery, TypeOK, Clients
<1>3. BusyWithName'
  BY <1>1 DEF AgentAnswers, InQuery, BusyWithName, TypeOK, Clients
<1>4. LinksAreLive'
  BY <1>1 DEF AgentAnswers, InQuery, LinksAreLive, BusyWithName, TypeOK, Clients
<1>5. CachedErrorNeverServed'
  BY <1>1
     DEF AgentAnswers, InQuery, CachedErrorNeverServed, BusyWithName, TypeOK, Clients
<1>6. NodesWereReported'
  BY <1>1
     DEF AgentAnswers, InQuery, NodesWereReported, Reported, BusyWithName, TypeOK, Clients
<1> QED
  BY <1>2, <1>3, <1>4, <1>5, <1>6

(* A failed query brings no nodes. *)
LEMMA QueryFailsKeepsIInv ==
    ASSUME IInv, NEW x \in Clients, QueryFails(x)
    PROVE  IInv'
<1> USE TimesAssumption, MaxFaultsAssumption, ValuesAssumption
        DEF IInv, agent, callers, loop
<1>1. TypeOK'
  <2>1. asking[x] \in Names
    BY DEF QueryFails, InQuery, TypeOK, BusyWithName, Clients
  <2> QED
    BY <2>1 DEF QueryFails, InQuery, TypeOK, Clients
<1>2. BusyWithName'
  BY DEF QueryFails, InQuery, BusyWithName, TypeOK, Clients
<1>3. LinksAreLive'
  BY DEF QueryFails, InQuery, LinksAreLive, BusyWithName, TypeOK, Clients
<1>4. CachedErrorNeverServed'
  BY DEF QueryFails, InQuery, CachedErrorNeverServed, BusyWithName, TypeOK,
         Clients
<1>5. NodesWereReported'
  BY DEF QueryFails, InQuery, NodesWereReported, Reported, BusyWithName,
         TypeOK, Clients
<1> QED
  BY <1>1, <1>2, <1>3, <1>4, <1>5

(* A hit serves the nodes of a good entry of that name. *)
LEMMA LookupHitKeepsIInv ==
    ASSUME IInv, NEW c \in Callers, NEW n \in Names, LookupHit(c, n)
    PROVE  IInv'
<1> USE TimesAssumption, MaxFaultsAssumption, ValuesAssumption
        DEF IInv, agent, callers, loop
<1>1. cache[n] \in Entry /\ ~cache[n].err
  BY DEF LookupHit, HasGoodEntry, TypeOK
<1>2. /\ Hold(cache[n]) \in HeldEntry /\ Hold(cache[n]) # None
      /\ ~Hold(cache[n]).err
      /\ Hold(cache[n]).hosts = cache[n].hosts
  BY <1>1, HoldIsHeld, NoneAssumption
<1>3. TypeOK'
  BY <1>1, <1>2 DEF LookupHit, HasGoodEntry, TypeOK, Clients
<1>4. BusyWithName'
  BY <1>1, <1>2 DEF LookupHit, HasGoodEntry, BusyWithName, TypeOK, Clients
<1>5. LinksAreLive'
  BY <1>1, <1>2
     DEF LookupHit, HasGoodEntry, LinksAreLive, BusyWithName, TypeOK, Clients
<1>6. CachedErrorNeverServed'
  BY <1>1, <1>2
     DEF LookupHit, HasGoodEntry, CachedErrorNeverServed, BusyWithName, TypeOK, Clients
<1>7. NodesWereReported'
  BY <1>1, <1>2
     DEF LookupHit, HasGoodEntry, NodesWereReported, Reported, BusyWithName, TypeOK, Clients
<1> QED
  BY <1>3, <1>4, <1>5, <1>6, <1>7

(* A miss starts a query for the name. *)
LEMMA LookupMissKeepsIInv ==
    ASSUME IInv, NEW c \in Callers, NEW n \in Names, LookupMiss(c, n)
    PROVE  IInv'
<1> USE TimesAssumption, MaxFaultsAssumption, ValuesAssumption
        DEF IInv, agent, callers, loop
<1>1. TypeOK'
  BY DEF LookupMiss, TypeOK, Clients
<1>2. BusyWithName'
  BY DEF LookupMiss, BusyWithName, TypeOK, Clients
<1>3. LinksAreLive'
  BY DEF LookupMiss, LinksAreLive, BusyWithName, TypeOK, Clients
<1>4. CachedErrorNeverServed'
  BY DEF LookupMiss, CachedErrorNeverServed, BusyWithName, TypeOK, Clients
<1>5. NodesWereReported'
  BY DEF LookupMiss, NodesWereReported, Reported, BusyWithName, TypeOK, Clients
<1> QED
  BY <1>1, <1>2, <1>3, <1>4, <1>5

(* A bad answer goes to the caller and nowhere else. *)
LEMMA QueryReturnsErrorKeepsIInv ==
    ASSUME IInv, NEW c \in Callers, QueryReturnsError(c)
    PROVE  IInv'
<1> USE TimesAssumption, MaxFaultsAssumption, ValuesAssumption
        DEF IInv, agent, callers, loop
<1>1. TypeOK'
  BY DEF QueryReturnsError, TypeOK, Clients
<1>2. BusyWithName'
  BY DEF QueryReturnsError, BusyWithName, TypeOK, Clients
<1>3. LinksAreLive'
  BY DEF QueryReturnsError, LinksAreLive, BusyWithName, TypeOK, Clients
<1>4. CachedErrorNeverServed'
  BY DEF QueryReturnsError, CachedErrorNeverServed, BusyWithName, TypeOK,
         Clients
<1>5. NodesWereReported'
  BY DEF QueryReturnsError, NodesWereReported, Reported, BusyWithName,
         TypeOK, Clients
<1> QED
  BY <1>1, <1>2, <1>3, <1>4, <1>5

(* A good answer is stored and held; the others keep the old entry. *)
LEMMA StoreKeepsIInv ==
    ASSUME IInv, NEW c \in Callers, Store(c)
    PROVE  IInv'
<1> USE TimesAssumption, MaxFaultsAssumption, ValuesAssumption
        DEF IInv, agent, callers, loop
<1>1. /\ reply[c] \in Lists \cup {NoHosts, Failed}
      /\ asking[c] \in Names
  BY DEF Store, TypeOK, BusyWithName, Clients
<1>2. /\ NewEntry(reply[c]) \in Entry /\ NewEntry(reply[c]) # None
      /\ ~NewEntry(reply[c]).err
      /\ NewEntry(reply[c]).hosts = reply[c]
      /\ reply[c] \in Lists
  BY <1>1, NewEntryIsEntry, NoneAssumption DEF Store
<1>3. /\ Hold(NewEntry(reply[c])) \in HeldEntry /\ Hold(NewEntry(reply[c])) # None
      /\ ~Hold(NewEntry(reply[c])).err
      /\ Hold(NewEntry(reply[c])).hosts = reply[c]
  BY <1>2, HoldIsHeld, NoneAssumption
<1>4. /\ Unlinked({asking[c]}) \in [Callers -> HeldEntry \cup {None}]
      /\ \A d \in Callers :
            /\ Unlinked({asking[c]})[d] # None <=> held[d] # None
            /\ held[d] # None =>
                /\ Unlinked({asking[c]})[d].err = held[d].err
                /\ Unlinked({asking[c]})[d].hosts = held[d].hosts
                /\ Unlinked({asking[c]})[d].linked => held[d].linked /\ asking[d] # asking[c]
  BY UnlinkedIsHeld DEF TypeOK
<1>5. TypeOK'
  BY <1>1, <1>2, <1>3, <1>4 DEF Store, TypeOK, Clients
<1>6. BusyWithName'
  BY <1>1, <1>2, <1>3, <1>4 DEF Store, BusyWithName, TypeOK, Clients
<1>7. LinksAreLive'
  BY <1>1, <1>2, <1>3, <1>4
     DEF Store, LinksAreLive, BusyWithName, TypeOK, Clients
<1>8. CachedErrorNeverServed'
  BY <1>1, <1>2, <1>3, <1>4
     DEF Store, CachedErrorNeverServed, BusyWithName, TypeOK, Clients
<1>9. NodesWereReported'
  <2>1. reply[c] \in past[asking[c]]
    BY <1>2 DEF NodesWereReported, Clients
  <2>2. UNCHANGED <<registry, past, updates, asking>>
    BY DEF Store
  <2>3. ASSUME NEW n \in Names, cache'[n] # None
        PROVE  Reported(cache'[n].hosts) \subseteq past[n]
    <3>1. CASE n = asking[c]
      BY <1>1, <1>2, <2>1, <3>1 DEF Store, TypeOK, Reported
    <3>2. CASE n # asking[c]
      BY <2>3, <3>2 DEF Store, TypeOK, NodesWereReported
    <3> QED
      BY <3>1, <3>2
  <2>4. ASSUME NEW x \in Clients, reply'[x] \in Lists
        PROVE  reply'[x] \in past[asking[x]]
    BY <2>4 DEF Store, TypeOK, NodesWereReported
  <2>5. ASSUME NEW d \in Callers, pc'[d] = "holding"
        PROVE  Reported(held'[d].hosts) \subseteq past[asking[d]]
    <3>1. CASE d = c
      BY <1>3, <1>4, <2>1, <3>1 DEF Store, TypeOK, Reported
    <3>2. CASE d # c
      <4>1. pc[d] = "holding" /\ held[d] # None
        BY <2>5, <3>2 DEF Store, TypeOK, BusyWithName
      <4>2. held'[d].hosts = held[d].hosts
        BY <1>4, <3>2, <4>1 DEF Store
      <4> QED
        BY <4>1, <4>2 DEF NodesWereReported
    <3> QED
      BY <3>1, <3>2
  <2> QED
    BY <2>2, <2>3, <2>4, <2>5 DEF NodesWereReported
<1> QED
  BY <1>5, <1>6, <1>7, <1>8, <1>9

(* The stamp changes no nodes, and only an entry still in the map. *)
LEMMA UseKeepsIInv ==
    ASSUME IInv, NEW c \in Callers, Use(c)
    PROVE  IInv'
<1> USE TimesAssumption, MaxFaultsAssumption, ValuesAssumption
        DEF IInv, agent, callers, loop
<1>1. held[c] \in HeldEntry /\ ~held[c].err /\ asking[c] \in Names
  BY DEF Use, TypeOK, BusyWithName, CachedErrorNeverServed
<1>2. ASSUME held[c].linked
      PROVE  /\ cache[asking[c]] \in Entry
             /\ [cache[asking[c]] EXCEPT !.r = 0] \in Entry
             /\ [cache[asking[c]] EXCEPT !.r = 0] # None
             /\ [cache[asking[c]] EXCEPT !.r = 0].hosts = cache[asking[c]].hosts
  BY <1>1, <1>2, UsedIsEntry, NoneAssumption DEF Use, TypeOK, LinksAreLive
<1>3. /\ cache' \in [Names -> Entry \cup {None}]
      /\ \A n \in Names :
            /\ cache'[n] # None <=> cache[n] # None
            /\ cache[n] # None => cache'[n].hosts = cache[n].hosts
  <2>1. CASE held[c].linked
    <3>1. cache' = [cache EXCEPT ![asking[c]] = [cache[asking[c]] EXCEPT !.r = 0]]
      BY <1>1, <2>1 DEF Use
    <3> QED
      BY <1>1, <1>2, <2>1, <3>1, NoneAssumption DEF TypeOK
  <2>2. CASE ~held[c].linked
    BY <2>2 DEF Use, TypeOK
  <2> QED
    BY <2>1, <2>2
<1>4. TypeOK'
  BY <1>1, <1>2, <1>3 DEF Use, TypeOK, Clients
<1>5. BusyWithName'
  BY <1>1, <1>2, <1>3 DEF Use, BusyWithName, TypeOK, Clients
<1>6. LinksAreLive'
  BY <1>1, <1>2, <1>3 DEF Use, LinksAreLive, BusyWithName, TypeOK, Clients
<1>7. CachedErrorNeverServed'
  BY <1>1, <1>2, <1>3
     DEF Use, CachedErrorNeverServed, BusyWithName, TypeOK, Clients
<1>8. NodesWereReported'
  BY <1>1, <1>2, <1>3
     DEF Use, NodesWereReported, Reported, BusyWithName, TypeOK, Clients
<1> QED
  BY <1>4, <1>5, <1>6, <1>7, <1>8

(* A caller that returned its error holds nothing. *)
LEMMA ReturnErrorKeepsIInv ==
    ASSUME IInv, NEW c \in Callers, ReturnError(c)
    PROVE  IInv'
<1> USE TimesAssumption, MaxFaultsAssumption, ValuesAssumption
        DEF IInv, agent, callers, loop
<1>1. TypeOK'
  BY DEF ReturnError, TypeOK, Clients
<1>2. BusyWithName'
  BY DEF ReturnError, BusyWithName, TypeOK, Clients
<1>3. LinksAreLive'
  BY DEF ReturnError, LinksAreLive, BusyWithName, TypeOK, Clients
<1>4. CachedErrorNeverServed'
  BY DEF ReturnError, CachedErrorNeverServed, BusyWithName, TypeOK, Clients
<1>5. NodesWereReported'
  BY DEF ReturnError, NodesWereReported, Reported, BusyWithName, TypeOK, Clients
<1> QED
  BY <1>1, <1>2, <1>3, <1>4, <1>5

(* The scan only reads the map. *)
LEMMA WakeAndScanKeepsIInv ==
    ASSUME IInv, WakeAndScan
    PROVE  IInv'
<1> USE TimesAssumption, MaxFaultsAssumption, ValuesAssumption
        DEF IInv, agent, callers, loop
<1>1. TypeOK'
  BY DEF WakeAndScan, Cached, TypeOK, Clients
<1>2. BusyWithName'
  BY DEF WakeAndScan, Cached, BusyWithName, TypeOK, Clients
<1>3. LinksAreLive'
  BY DEF WakeAndScan, Cached, LinksAreLive, BusyWithName, TypeOK, Clients
<1>4. CachedErrorNeverServed'
  BY DEF WakeAndScan, Cached, CachedErrorNeverServed, BusyWithName, TypeOK,
         Clients
<1>5. NodesWereReported'
  BY DEF WakeAndScan, Cached, NodesWereReported, Reported, BusyWithName,
         TypeOK, Clients
<1> QED
  BY <1>1, <1>2, <1>3, <1>4, <1>5

(* Eviction unlinks what it takes out, so no link dangles. *)
LEMMA RemoveKeepsIInv ==
    ASSUME IInv, Remove
    PROVE  IInv'
<1> USE TimesAssumption, MaxFaultsAssumption, ValuesAssumption
        DEF IInv, agent, callers, loop
<1>1. /\ held' \in [Callers -> HeldEntry \cup {None}]
      /\ \A d \in Callers :
            /\ held'[d] # None <=> held[d] # None
            /\ held[d] # None =>
                /\ held'[d].err = held[d].err
                /\ held'[d].hosts = held[d].hosts
                /\ held'[d].linked => held[d].linked /\ asking[d] \notin del
  BY UnlinkedIsHeld DEF TypeOK, Remove
<1>2. TypeOK'
  BY <1>1 DEF Remove, TypeOK, Clients
<1>3. BusyWithName'
  BY <1>1 DEF Remove, BusyWithName, TypeOK, Clients
<1>4. LinksAreLive'
  BY <1>1 DEF Remove, LinksAreLive, BusyWithName, TypeOK, Clients
<1>5. CachedErrorNeverServed'
  BY <1>1 DEF Remove, CachedErrorNeverServed, BusyWithName, TypeOK, Clients
<1>6. NodesWereReported'
  BY <1>1 DEF Remove, NodesWereReported, Reported, BusyWithName, TypeOK, Clients
<1> QED
  BY <1>2, <1>3, <1>4, <1>5, <1>6

(* The loop asks for a name it found in the map. *)
LEMMA QueryNextKeepsIInv ==
    ASSUME IInv, QueryNext
    PROVE  IInv'
<1> USE TimesAssumption, MaxFaultsAssumption, ValuesAssumption
        DEF IInv, agent, callers, loop
<1>1. TypeOK'
  BY DEF QueryNext, TypeOK, Clients
<1>2. BusyWithName'
  BY DEF QueryNext, BusyWithName, TypeOK, Clients
<1>3. LinksAreLive'
  BY DEF QueryNext, LinksAreLive, BusyWithName, TypeOK, Clients
<1>4. CachedErrorNeverServed'
  BY DEF QueryNext, CachedErrorNeverServed, BusyWithName, TypeOK, Clients
<1>5. NodesWereReported'
  BY DEF QueryNext, NodesWereReported, Reported, BusyWithName, TypeOK, Clients
<1> QED
  BY <1>1, <1>2, <1>3, <1>4, <1>5

(* A new entry of the loop has the nodes of the answer, or none. *)
LEMMA CollectUpdateKeepsIInv ==
    ASSUME IInv, CollectUpdate
    PROVE  IInv'
<1> USE TimesAssumption, MaxFaultsAssumption, ValuesAssumption
        DEF IInv, agent, callers, loop
<1>1. /\ reply[Loop] \in Lists \cup {NoHosts, Failed}
      /\ asking[Loop] \in Names
  BY DEF CollectUpdate, TypeOK, BusyWithName, Clients
<1>2. /\ NewEntry(reply[Loop]) \in Entry /\ NewEntry(reply[Loop]) # None
      /\ NewEntry(reply[Loop]).hosts # NoHosts =>
            NewEntry(reply[Loop]).hosts = reply[Loop] /\ reply[Loop] \in Lists
  BY <1>1, NewEntryIsEntry, NoneAssumption
<1>3. TypeOK'
  BY <1>1, <1>2 DEF CollectUpdate, TypeOK, Clients
<1>4. BusyWithName'
  BY <1>1, <1>2 DEF CollectUpdate, BusyWithName, TypeOK, Clients
<1>5. LinksAreLive'
  BY <1>1, <1>2 DEF CollectUpdate, LinksAreLive, BusyWithName, TypeOK, Clients
<1>6. CachedErrorNeverServed'
  BY <1>1, <1>2
     DEF CollectUpdate, CachedErrorNeverServed, BusyWithName, TypeOK, Clients
<1>7. NodesWereReported'
  BY <1>1, <1>2
     DEF CollectUpdate, NodesWereReported, Reported, BusyWithName, TypeOK, Clients
<1> QED
  BY <1>3, <1>4, <1>5, <1>6, <1>7

(* Merging puts back the entries of the very names they were asked for. *)
LEMMA MergeKeepsIInv ==
    ASSUME IInv, Merge
    PROVE  IInv'
<1> USE TimesAssumption, MaxFaultsAssumption, ValuesAssumption
        DEF IInv, agent, callers, loop
<1>1. /\ held' \in [Callers -> HeldEntry \cup {None}]
      /\ \A d \in Callers :
            /\ held'[d] # None <=> held[d] # None
            /\ held[d] # None =>
                /\ held'[d].err = held[d].err
                /\ held'[d].hosts = held[d].hosts
                /\ held'[d].linked => held[d].linked /\ asking[d] \notin Updated
  BY UnlinkedIsHeld DEF TypeOK, Merge
<1>2. TypeOK'
  BY <1>1 DEF Merge, Updated, Merged, TypeOK, Clients
<1>3. BusyWithName'
  BY <1>1 DEF Merge, Updated, Merged, BusyWithName, TypeOK, Clients
<1>4. LinksAreLive'
  BY <1>1
     DEF Merge, Updated, Merged, LinksAreLive, BusyWithName, TypeOK, Clients
<1>5. CachedErrorNeverServed'
  BY <1>1
     DEF Merge, Updated, Merged, CachedErrorNeverServed, BusyWithName, TypeOK, Clients
<1>6. NodesWereReported'
  BY <1>1
     DEF Merge, Updated, Merged, NodesWereReported, Reported, BusyWithName, TypeOK, Clients
<1> QED
  BY <1>2, <1>3, <1>4, <1>5, <1>6

(* Time changes the ages of the entries and nothing else. *)
LEMMA TickKeepsIInv ==
    ASSUME IInv, Tick
    PROVE  IInv'
<1> USE TimesAssumption, MaxFaultsAssumption, ValuesAssumption
        DEF IInv, agent, callers, loop
<1>1. \A n \in Names :
        /\ cache'[n] = Aged(cache[n])
        /\ updates'[n] = Aged(updates[n])
  BY DEF Tick
<1>2. Aged(None) = None
  BY DEF Aged
<1>3. \A n \in Names :
        /\ Aged(cache[n]) \in Entry \cup {None}
        /\ Aged(cache[n]) # None <=> cache[n] # None
        /\ cache[n] # None => Aged(cache[n]).hosts = cache[n].hosts
  BY <1>2, AgedIsEntry, NoneAssumption DEF TypeOK
<1>4. \A n \in Names :
        /\ Aged(updates[n]) \in Entry \cup {None}
        /\ Aged(updates[n]) # None <=> updates[n] # None
        /\ updates[n] # None => Aged(updates[n]).hosts = updates[n].hosts
  BY <1>2, AgedIsEntry, NoneAssumption DEF TypeOK
<1>5. /\ cache' \in [Names -> Entry \cup {None}]
      /\ updates' \in [Names -> Entry \cup {None}]
  BY <1>3, <1>4 DEF Tick
<1>6. wait' \in 0 .. Interval
  BY DEF Tick, TypeOK, Older
<1>7. TypeOK'
  BY <1>1, <1>2, <1>3, <1>4, <1>5, <1>6 DEF Tick, TypeOK, Clients
<1>8. BusyWithName'
  BY <1>1, <1>2, <1>3, <1>4, <1>5, <1>6 DEF Tick, BusyWithName, TypeOK, Clients
<1>9. LinksAreLive'
  BY <1>1, <1>2, <1>3, <1>4, <1>5, <1>6
     DEF Tick, LinksAreLive, BusyWithName, TypeOK, Clients
<1>10. CachedErrorNeverServed'
  BY <1>1, <1>2, <1>3, <1>4, <1>5, <1>6
     DEF Tick, CachedErrorNeverServed, BusyWithName, TypeOK, Clients
<1>11. NodesWereReported'
  BY <1>1, <1>2, <1>3, <1>4, <1>5, <1>6
     DEF Tick, NodesWereReported, Reported, BusyWithName, TypeOK, Clients
<1> QED
  BY <1>7, <1>8, <1>9, <1>10, <1>11

----------------------------------------------------------------------------
(* The theorems.                                                           *)

(* Every step of a caller, of the loop, of the agent or of the clock keeps *)
(* the invariant.                                                          *)
LEMMA NextKeepsIInv == IInv /\ [Next]_vars => IInv'
<1> SUFFICES ASSUME IInv, [Next]_vars PROVE IInv'
  OBVIOUS
<1>1. ASSUME NEW n \in Names, RegistryChanges(n) PROVE IInv'
  BY <1>1, RegistryChangesKeepsIInv
<1>2. ASSUME NEW x \in Clients, AgentAnswers(x) \/ QueryFails(x) PROVE IInv'
  BY <1>2, AgentAnswersKeepsIInv, QueryFailsKeepsIInv
<1>3. ASSUME NEW c \in Callers, Discover(c) PROVE IInv'
  BY <1>3, LookupHitKeepsIInv, LookupMissKeepsIInv, QueryReturnsErrorKeepsIInv,
     StoreKeepsIInv, UseKeepsIInv, ReturnErrorKeepsIInv DEF Discover
<1>4. CASE Refresh
  BY <1>4, WakeAndScanKeepsIInv, RemoveKeepsIInv, QueryNextKeepsIInv,
     CollectUpdateKeepsIInv, MergeKeepsIInv DEF Refresh
<1>5. CASE Tick
  BY <1>5, TickKeepsIInv
<1>6. CASE UNCHANGED vars
  BY <1>6
     DEF vars, agent, callers, loop, IInv, TypeOK, BusyWithName, LinksAreLive,
     CachedErrorNeverServed, NodesWereReported
<1> QED
  BY <1>1, <1>2, <1>3, <1>4, <1>5, <1>6 DEF Next

(* The invariant holds throughout every execution of the client. *)
THEOREM Inductive == Spec => []IInv
BY Initially, NextKeepsIInv, PTL DEF Spec

(* Every entry is an error without nodes or has nodes, at any age. *)
THEOREM TypeCorrect == Spec => []TypeOK
<1>1. IInv => TypeOK
  BY DEF IInv
<1> QED
  BY Inductive, <1>1, PTL

(* An error the loop cached is never what Discover answers. *)
THEOREM CachedErrorsStayInside == Spec => []CachedErrorNeverServed
<1>1. IInv => CachedErrorNeverServed
  BY DEF IInv
<1> QED
  BY Inductive, <1>1, PTL

(* Discover serves for a name only nodes the registry listed for it: late   *)
(* answers, eviction and refreshing never mix two services or make nodes up. *)
THEOREM ServedNodesWereReported == Spec => []ServedWasReported
<1>1. IInv => ServedWasReported
  <2> SUFFICES ASSUME IInv, NEW c \in Callers, pc[c] = "holding", ~held[c].err
               PROVE  held[c].hosts \in past[asking[c]]
    BY DEF ServedWasReported
  <2>1. held[c] \in HeldEntry
    BY NoneAssumption DEF IInv, TypeOK, BusyWithName
  <2>2. held[c].hosts \in Lists
    BY <2>1 DEF HeldEntry
  <2>3. held[c].hosts # NoHosts
    BY <2>2, ValuesAssumption
  <2> QED
    BY <2>3 DEF IInv, NodesWereReported, Reported
<1> QED
  BY Inductive, <1>1, PTL
----------------------------------------------------------------------------
(* The refinement: the client implements Directory. One lemma per action,   *)
(* which says what step of the directory it is, from two facts: how the     *)
(* names that have settled change, and what each caller is told.            *)

(* Names that have their copies in order keep them so.                      *)
LEMMA SettledKept ==
    ASSUME UNCHANGED faults,
           \A n \in Names : CopiesMatch(n) => CopiesMatch(n)'
    PROVE  Answers!Settle
BY DEF Answers!Settle, Settled

(* Names whose copies match exactly when they did have settled as before.   *)
LEMMA SettledSame ==
    ASSUME \A n \in Names : CopiesMatch(n) <=> CopiesMatch(n)'
    PROVE  Settled' = Settled
BY DEF Settled

(* A step that touches the copies of one name only unsettles that name only. *)
LEMMA SettledButOne ==
    ASSUME NEW n \in Names, faults' = Append(faults, n),
           \A m \in Names \ {n} : CopiesMatch(m) <=> CopiesMatch(m)'
    PROVE  Answers!MayUnsettle(n)
BY DEF Answers!MayUnsettle, Settled

(* A step inside the client, which tells no caller anything.                *)
LEMMA SettlesInside ==
    ASSUME Answers!Settle, UNCHANGED <<registry, past>>,
           \A c \in Callers : ToldTo(c)' = ToldTo(c)
    PROVE  Answers!Next
BY DEF Answers!Next

(* A caller gets its answer: nodes its name had, and those of now if the    *)
(* name has settled.                                                        *)
LEMMA Tells ==
    ASSUME Answers!Settle, UNCHANGED <<registry, past>>,
           NEW c \in Callers, NEW n \in Names, NEW l \in past[n] \cup {NoHosts},
           ToldTo(c) = None,
           n \in Settled => l = registry[n],
           ToldTo(c)' = [name |-> n, nodes |-> l],
           \A d \in Callers \ {c} : ToldTo(d)' = ToldTo(d)
    PROVE  Answers!Next
<1>1. Answers!Tell(c, n)
  BY DEF Answers!Tell
<1> QED
  BY <1>1 DEF Answers!Next

(* A caller that has had its answer is done with it.                        *)
LEMMA Forgets ==
    ASSUME UNCHANGED <<registry, past, faults>>, Settled' = Settled,
           NEW c \in Callers, ToldTo(c) # None, ToldTo(c)' = None,
           \A d \in Callers \ {c} : ToldTo(d)' = ToldTo(d)
    PROVE  Answers!Next
<1>1. [d \in Callers |-> ToldTo(d)][c] # None
  OBVIOUS
<1>2. [d \in Callers |-> ToldTo(d)]' = [[d \in Callers |-> ToldTo(d)] EXCEPT ![c] = None]
  <2>1. ASSUME NEW d \in Callers
        PROVE  ToldTo(d)' = [[b \in Callers |-> ToldTo(b)] EXCEPT ![c] = None][d]
    BY Zenon
  <2> QED
    BY <2>1, Zenon
<1>3. Answers!Forget(c)
  BY <1>1, <1>2, Zenon DEF Answers!Forget
<1> QED
  BY <1>3 DEF Answers!Next

(* What a caller has been told is an answer.                                *)
LEMMA ToldIsAnswer ==
    ASSUME IInv, NEW c \in Callers
    PROVE  /\ pc[c] \in {"holding", "failed"} => ToldTo(c) \in Answer /\ ToldTo(c) # None
           /\ pc[c] \notin {"holding", "failed"} => ToldTo(c) = None
<1>1. ASSUME pc[c] = "holding" PROVE held[c].hosts \in Lists \cup {NoHosts}
  BY <1>1, NoneAssumption DEF IInv, TypeOK, BusyWithName, HeldEntry
<1>2. ASSUME pc[c] # "idle" PROVE asking[c] \in Names
  BY <1>2 DEF IInv, BusyWithName
<1>3. CASE pc[c] = "holding"
  BY <1>1, <1>2, <1>3, NoneAssumption DEF ToldTo, Answer
<1>4. CASE pc[c] = "failed"
  BY <1>2, <1>4, NoneAssumption DEF ToldTo, Answer
<1>5. CASE pc[c] \notin {"holding", "failed"}
  BY <1>5 DEF ToldTo
<1> QED
  BY <1>3, <1>4, <1>5

(* An empty cache has settled and has told nobody anything.                 *)
LEMMA InitImplements == Init => Answers!Init
<1> SUFFICES ASSUME Init PROVE Answers!Init
  OBVIOUS
<1>1. Settled = Names
  BY ValuesAssumption DEF Init, Settled, CopiesMatch, Agrees, Clients
<1>2. \A c \in Callers : ToldTo(c) = None
  BY DEF Init, ToldTo
<1> QED
  BY <1>1, <1>2 DEF Init, Answers!Init, Answers!NonEmpty, Reported

(* A change of the registry leaves the other names as they were.            *)
LEMMA RegistryChangesImplements ==
    ASSUME IInv, NEW n \in Names, RegistryChanges(n)
    PROVE  Answers!Next
<1> USE DEF agent, callers, loop
<1>1. Answers!MayUnsettle(n)
  <2>1. ASSUME NEW m \in Names \ {n} PROVE CopiesMatch(m) <=> CopiesMatch(m)'
    <3>1. registry'[m] = registry[m]
      BY DEF RegistryChanges, IInv, TypeOK
    <3> QED
      BY <3>1 DEF RegistryChanges, CopiesMatch, Agrees, Matches
  <2> QED
    BY <2>1, SettledButOne DEF RegistryChanges
<1>2. \A c \in Callers : ToldTo(c)' = ToldTo(c)
  BY DEF RegistryChanges, ToldTo
<1>3. Answers!Change(n)
  BY <1>1, <1>2 DEF RegistryChanges, Reported, Answers!Change, Answers!NonEmpty
<1> QED
  BY <1>3 DEF Answers!Next

(* A fresh answer of the agent matches the registry.                        *)
LEMMA AgentAnswersImplements ==
    ASSUME IInv, NEW x \in Clients, AgentAnswers(x)
    PROVE  Answers!Next
<1> USE DEF agent, callers, loop
<1>1. Answers!Settle
  <2>1. ASSUME NEW n \in Names, CopiesMatch(n) PROVE CopiesMatch(n)'
    BY <2>1 DEF AgentAnswers, IInv, TypeOK, CopiesMatch, Agrees, Matches
  <2> QED
    BY <2>1, SettledKept DEF AgentAnswers
<1>2. \A c \in Callers : ToldTo(c)' = ToldTo(c)
  BY DEF AgentAnswers, ToldTo
<1> QED
  BY <1>1, <1>2, SettlesInside DEF AgentAnswers

(* A query that fails leaves the other names as they were.                  *)
LEMMA QueryFailsImplements ==
    ASSUME IInv, NEW x \in Clients, QueryFails(x)
    PROVE  Answers!Next
<1> USE DEF agent, callers, loop
<1>1. asking[x] \in Names
  BY DEF QueryFails, InQuery, IInv, BusyWithName, Clients
<1>2. Answers!MayUnsettle(asking[x])
  <2>1. ASSUME NEW m \in Names \ {asking[x]} PROVE CopiesMatch(m) <=> CopiesMatch(m)'
    BY DEF QueryFails, IInv, TypeOK, CopiesMatch, Agrees, Matches
  <2> QED
    BY <1>1, <2>1, SettledButOne DEF QueryFails
<1>3. \A c \in Callers : ToldTo(c)' = ToldTo(c)
  BY DEF QueryFails, ToldTo
<1>4. Answers!Fault(asking[x])
  BY <1>2, <1>3 DEF QueryFails, Answers!Fault
<1> QED
  BY <1>1, <1>4 DEF Answers!Next

(* A hit tells the caller the nodes of the entry.                           *)
LEMMA LookupHitImplements ==
    ASSUME IInv, NEW c \in Callers, NEW n \in Names, LookupHit(c, n)
    PROVE  Answers!Next
<1> USE DEF agent, callers, loop
<1>1. cache[n] \in Entry /\ ~cache[n].err /\ cache[n] # None /\ cache[n].hosts # NoHosts
  BY ValuesAssumption, NoneAssumption DEF LookupHit, HasGoodEntry, IInv, TypeOK, Entry
<1>2. cache[n].hosts \in past[n]
  BY <1>1 DEF IInv, NodesWereReported, Reported
<1>3. n \in Settled => cache[n].hosts = registry[n]
  BY <1>1 DEF Settled, CopiesMatch, Agrees, Matches
<1>4. Answers!Settle
  <2>1. reply[c] = None
    BY DEF LookupHit, IInv, BusyWithName, TypeOK, Clients
  <2>2. ASSUME NEW m \in Names, CopiesMatch(m) PROVE CopiesMatch(m)'
    BY <2>1, <2>2 DEF LookupHit, IInv, TypeOK, CopiesMatch, Agrees, Matches, Clients
  <2> QED
    BY <2>2, SettledKept DEF LookupHit
<1>5. ToldTo(c) = None
  BY ToldIsAnswer DEF LookupHit
<1>6. ToldTo(c)' = [name |-> n, nodes |-> cache[n].hosts]
  BY DEF LookupHit, ToldTo, IInv, TypeOK, Hold, Clients
<1>7. \A d \in Callers \ {c} : ToldTo(d)' = ToldTo(d)
  BY DEF LookupHit, ToldTo, IInv, TypeOK
<1> QED
  BY <1>2, <1>3, <1>4, <1>5, <1>6, <1>7, Tells DEF LookupHit

(* A miss starts a query, with no answer under way.                         *)
LEMMA LookupMissImplements ==
    ASSUME IInv, NEW c \in Callers, NEW n \in Names, LookupMiss(c, n)
    PROVE  Answers!Next
<1> USE DEF agent, callers, loop
<1>1. Answers!Settle
  <2>1. reply[c] = None
    BY DEF LookupMiss, IInv, BusyWithName, TypeOK, Clients
  <2>2. ASSUME NEW m \in Names, CopiesMatch(m) PROVE CopiesMatch(m)'
    BY <2>1, <2>2 DEF LookupMiss, IInv, TypeOK, CopiesMatch, Agrees, Matches, Clients
  <2> QED
    BY <2>2, SettledKept DEF LookupMiss
<1>2. \A d \in Callers : ToldTo(d)' = ToldTo(d)
  BY DEF LookupMiss, ToldTo, IInv, TypeOK
<1> QED
  BY <1>1, <1>2, SettlesInside DEF LookupMiss

(* A bad answer tells the caller nothing; of a name that has settled it is   *)
(* the empty list of the registry.                                          *)
LEMMA QueryReturnsErrorImplements ==
    ASSUME IInv, NEW c \in Callers, QueryReturnsError(c)
    PROVE  Answers!Next
<1> USE DEF agent, callers, loop
<1>1. asking[c] \in Names /\ reply[c] \in {Failed, NoHosts}
  BY DEF QueryReturnsError, IsBadAnswer, IInv, BusyWithName
<1>2. asking[c] \in Settled => NoHosts = registry[asking[c]]
  <2>1. registry[asking[c]] # Failed
    BY <1>1, ValuesAssumption DEF IInv, TypeOK
  <2> QED
    BY <1>1, <2>1 DEF QueryReturnsError, Settled, CopiesMatch, Clients
<1>3. Answers!Settle
  <2>1. ASSUME NEW m \in Names, CopiesMatch(m) PROVE CopiesMatch(m)'
    BY <2>1 DEF QueryReturnsError, IInv, TypeOK, CopiesMatch, Agrees, Matches, Clients
  <2> QED
    BY <2>1, SettledKept DEF QueryReturnsError
<1>4. ToldTo(c) = None
  BY ToldIsAnswer DEF QueryReturnsError
<1>5. ToldTo(c)' = [name |-> asking[c], nodes |-> NoHosts]
  BY DEF QueryReturnsError, ToldTo, IInv, TypeOK
<1>6. \A d \in Callers \ {c} : ToldTo(d)' = ToldTo(d)
  BY DEF QueryReturnsError, ToldTo, IInv, TypeOK
<1> QED
  BY <1>1, <1>2, <1>3, <1>4, <1>5, <1>6, Tells DEF QueryReturnsError

(* A good answer is told, and its entry matches the registry if it does.    *)
LEMMA StoreImplements ==
    ASSUME IInv, NEW c \in Callers, Store(c)
    PROVE  Answers!Next
<1> USE DEF agent, callers, loop
<1>1. /\ reply[c] \in Lists \cup {NoHosts, Failed}
      /\ asking[c] \in Names
  BY DEF Store, IInv, TypeOK, BusyWithName, Clients
<1>2. /\ NewEntry(reply[c]) \in Entry /\ NewEntry(reply[c]) # None
      /\ ~NewEntry(reply[c]).err
      /\ NewEntry(reply[c]).hosts = reply[c]
      /\ reply[c] \in Lists
  BY <1>1, NewEntryIsEntry, NoneAssumption DEF Store
<1>3. reply[c] \in past[asking[c]]
  BY <1>2 DEF IInv, NodesWereReported, Clients
<1>4. asking[c] \in Settled => reply[c] = registry[asking[c]]
  BY DEF Store, Settled, CopiesMatch, Clients
<1>5. Answers!Settle
  <2>1. ASSUME NEW m \in Names, CopiesMatch(m) PROVE CopiesMatch(m)'
    <3>1. Agrees(m)'
      <4>1. CASE m = asking[c]
        <5>1. cache'[m] = NewEntry(reply[c])
          BY <1>1, <4>1 DEF Store, IInv, TypeOK
        <5>2. reply[c] = registry'[m]
          BY <2>1, <4>1 DEF Store, CopiesMatch, Clients
        <5> QED
          BY <1>2, <5>1, <5>2 DEF Agrees, Matches
      <4>2. CASE m # asking[c]
        <5>1. cache'[m] = cache[m]
          BY <4>2 DEF Store, IInv, TypeOK
        <5> QED
          BY <2>1, <5>1 DEF Store, CopiesMatch, Agrees, Matches
      <4> QED
        BY <4>1, <4>2
    <3> QED
      BY <2>1, <3>1 DEF Store, IInv, TypeOK, CopiesMatch, Matches, Clients
  <2> QED
    BY <2>1, SettledKept DEF Store
<1>6. ToldTo(c) = None
  BY ToldIsAnswer DEF Store
<1>7. /\ Unlinked({asking[c]}) \in [Callers -> HeldEntry \cup {None}]
      /\ \A d \in Callers : held[d] # None =>
            Unlinked({asking[c]})[d].hosts = held[d].hosts
  BY UnlinkedIsHeld DEF IInv, TypeOK
<1>8. ToldTo(c)' = [name |-> asking[c], nodes |-> reply[c]]
  BY <1>2, <1>7 DEF Store, ToldTo, Hold, IInv, TypeOK
<1>9. ASSUME NEW d \in Callers \ {c} PROVE ToldTo(d)' = ToldTo(d)
  <2>1. pc[d] = "holding" => held'[d].hosts = held[d].hosts
    BY <1>7 DEF Store, IInv, BusyWithName
  <2> QED
    BY <2>1 DEF Store, ToldTo, IInv, TypeOK
<1> QED
  BY <1>1, <1>3, <1>4, <1>5, <1>6, <1>8, <1>9, Tells DEF Store

(* The stamp of a use changes no nodes; the caller goes with its answer.    *)
LEMMA UseImplements ==
    ASSUME IInv, NEW c \in Callers, Use(c)
    PROVE  Answers!Next
<1> USE DEF agent, callers, loop
<1>1. held[c] \in HeldEntry /\ ~held[c].err /\ asking[c] \in Names
  BY DEF Use, IInv, TypeOK, BusyWithName, CachedErrorNeverServed
<1>2. reply[c] = None
  BY DEF Use, IInv, BusyWithName, TypeOK, Clients
<1>3. \A n \in Names :
        /\ cache'[n] # None <=> cache[n] # None
        /\ cache[n] # None =>
            cache'[n].hosts = cache[n].hosts /\ cache'[n].err = cache[n].err
  <2>1. CASE held[c].linked
    <3>1. /\ cache[asking[c]] \in Entry
          /\ cache[asking[c]] # None
      BY <1>1, <2>1 DEF Use, IInv, TypeOK, LinksAreLive
    <3>2. cache' = [cache EXCEPT ![asking[c]] = [cache[asking[c]] EXCEPT !.r = 0]]
      BY <1>1, <2>1 DEF Use
    <3> QED
      BY <1>1, <3>1, <3>2, UsedIsEntry, NoneAssumption DEF IInv, TypeOK
  <2>2. CASE ~held[c].linked
    BY <2>2 DEF Use
  <2> QED
    BY <2>1, <2>2
<1>4. Settled' = Settled
  <2>1. ASSUME NEW n \in Names PROVE CopiesMatch(n) <=> CopiesMatch(n)'
    <3>1. Agrees(n) <=> Agrees(n)'
      BY <1>3 DEF Use, Agrees, Matches
    <3> QED
      BY <1>2, <3>1 DEF Use, CopiesMatch, Matches, IInv, TypeOK, Clients
  <2> QED
    BY <2>1, SettledSame
<1>5. ToldTo(c) # None
  BY ToldIsAnswer DEF Use
<1>6. ToldTo(c)' = None
  BY <1>1 DEF Use, ToldTo, IInv, TypeOK
<1>7. \A d \in Callers \ {c} : ToldTo(d)' = ToldTo(d)
  BY DEF Use, ToldTo, IInv, TypeOK
<1> QED
  BY <1>4, <1>5, <1>6, <1>7, Forgets DEF Use

(* The caller goes with its error.                                          *)
LEMMA ReturnErrorImplements ==
    ASSUME IInv, NEW c \in Callers, ReturnError(c)
    PROVE  Answers!Next
<1> USE DEF agent, callers, loop
<1>1. reply[c] = None
  BY DEF ReturnError, IInv, BusyWithName, TypeOK, Clients
<1>2. Settled' = Settled
  <2>1. ASSUME NEW n \in Names PROVE CopiesMatch(n) <=> CopiesMatch(n)'
    BY <1>1 DEF ReturnError, CopiesMatch, Agrees, Matches, IInv, TypeOK, Clients
  <2> QED
    BY <2>1, SettledSame
<1>3. ToldTo(c) # None
  BY ToldIsAnswer DEF ReturnError
<1>4. ToldTo(c)' = None
  BY DEF ReturnError, ToldTo, IInv, TypeOK
<1>5. \A d \in Callers \ {c} : ToldTo(d)' = ToldTo(d)
  BY DEF ReturnError, ToldTo, IInv, TypeOK
<1> QED
  BY <1>2, <1>3, <1>4, <1>5, Forgets DEF ReturnError

(* The scan reads the cache only.                                           *)
LEMMA WakeAndScanImplements ==
    ASSUME IInv, WakeAndScan
    PROVE  Answers!Next
<1> USE DEF agent, callers, loop
<1>1. Answers!Settle
  BY SettledKept DEF WakeAndScan, CopiesMatch, Agrees, Matches
<1>2. \A c \in Callers : ToldTo(c)' = ToldTo(c)
  BY DEF WakeAndScan, ToldTo
<1> QED
  BY <1>1, <1>2, SettlesInside DEF WakeAndScan

(* An evicted entry is one copy less; its holders keep its nodes.           *)
LEMMA RemoveImplements ==
    ASSUME IInv, Remove
    PROVE  Answers!Next
<1> USE DEF agent, callers, loop
<1>1. Answers!Settle
  <2>1. ASSUME NEW n \in Names, CopiesMatch(n) PROVE CopiesMatch(n)'
    BY <2>1 DEF Remove, CopiesMatch, Agrees, Matches
  <2> QED
    BY <2>1, SettledKept DEF Remove
<1>2. ASSUME NEW c \in Callers PROVE ToldTo(c)' = ToldTo(c)
  <2>1. pc[c] = "holding" => held'[c].hosts = held[c].hosts
    BY UnlinkedIsHeld DEF Remove, IInv, TypeOK, BusyWithName
  <2> QED
    BY <2>1 DEF Remove, ToldTo
<1> QED
  BY <1>1, <1>2, SettlesInside DEF Remove

(* The loop asks, with no answer under way.                                 *)
LEMMA QueryNextImplements ==
    ASSUME IInv, QueryNext
    PROVE  Answers!Next
<1> USE DEF agent, callers, loop
<1>1. Answers!Settle
  <2>1. reply[Loop] = None
    BY DEF QueryNext, IInv, BusyWithName
  <2>2. ASSUME NEW n \in Names, CopiesMatch(n) PROVE CopiesMatch(n)'
    BY <2>1, <2>2 DEF QueryNext, CopiesMatch, Agrees, Matches, IInv, TypeOK, Clients
  <2> QED
    BY <2>2, SettledKept DEF QueryNext
<1>2. \A c \in Callers : ToldTo(c)' = ToldTo(c)
  BY ValuesAssumption DEF QueryNext, ToldTo, IInv, TypeOK, Clients
<1> QED
  BY <1>1, <1>2, SettlesInside DEF QueryNext

(* The new entry matches the registry if the answer it is made of does.     *)
LEMMA CollectUpdateImplements ==
    ASSUME IInv, CollectUpdate
    PROVE  Answers!Next
<1> USE DEF agent, callers, loop
<1>1. /\ reply[Loop] \in Lists \cup {NoHosts, Failed}
      /\ asking[Loop] \in Names
  BY DEF CollectUpdate, IInv, TypeOK, BusyWithName, Clients
<1>2. Answers!Settle
  <2>1. ASSUME NEW n \in Names, CopiesMatch(n) PROVE CopiesMatch(n)'
    <3>1. updates'[n] # None => Matches(updates'[n], n)
      <4>1. CASE n = asking[Loop]
        <5>1. updates'[n] = NewEntry(reply[Loop])
          BY <4>1 DEF CollectUpdate, IInv, TypeOK
        <5>2. reply[Loop] = registry[n]
          BY <2>1, <4>1 DEF CollectUpdate, CopiesMatch, Clients
        <5>3. registry[n] # Failed
          BY ValuesAssumption DEF IInv, TypeOK
        <5>4. CASE IsBadAnswer(reply[Loop])
          BY <1>1, <5>1, <5>2, <5>3, <5>4, NewEntryIsEntry DEF IsBadAnswer, Matches
        <5>5. CASE ~IsBadAnswer(reply[Loop])
          BY <1>1, <5>1, <5>2, <5>5, NewEntryIsEntry DEF Matches
        <5> QED
          BY <5>4, <5>5
      <4>2. CASE n # asking[Loop]
        BY <2>1, <4>2 DEF CollectUpdate, CopiesMatch, IInv, TypeOK
      <4> QED
        BY <4>1, <4>2
    <3> QED
      BY <2>1, <3>1 DEF CollectUpdate, CopiesMatch, Agrees, Matches, IInv, TypeOK, Clients
  <2> QED
    BY <2>1, SettledKept DEF CollectUpdate
<1>3. \A c \in Callers : ToldTo(c)' = ToldTo(c)
  BY ValuesAssumption DEF CollectUpdate, ToldTo, IInv, TypeOK, Clients
<1> QED
  BY <1>2, <1>3, SettlesInside DEF CollectUpdate

(* A merge moves the new entries into the cache of the names they are of.   *)
LEMMA MergeImplements ==
    ASSUME IInv, Merge
    PROVE  Answers!Next
<1> USE DEF agent, callers, loop
<1>1. Answers!Settle
  <2>1. ASSUME NEW n \in Names, CopiesMatch(n) PROVE CopiesMatch(n)'
    <3>1. cache'[n] = IF updates[n] # None THEN updates[n] ELSE cache[n]
      BY DEF Merge, Updated, Merged
    <3>2. Agrees(n)'
      BY <2>1, <3>1 DEF Merge, CopiesMatch, Agrees, Matches
    <3> QED
      BY <2>1, <3>2 DEF Merge, CopiesMatch
  <2> QED
    BY <2>1, SettledKept DEF Merge
<1>2. ASSUME NEW c \in Callers PROVE ToldTo(c)' = ToldTo(c)
  <2>1. pc[c] = "holding" => held'[c].hosts = held[c].hosts
    BY UnlinkedIsHeld DEF Merge, IInv, TypeOK, BusyWithName
  <2> QED
    BY <2>1 DEF Merge, ToldTo
<1> QED
  BY <1>1, <1>2, SettlesInside DEF Merge

(* Time changes no nodes.                                                   *)
LEMMA TickImplements ==
    ASSUME IInv, Tick
    PROVE  Answers!Next
<1> USE DEF agent, callers, loop
<1>1. ASSUME NEW n \in Names, NEW e \in Entry \cup {None}
      PROVE  /\ Aged(e) # None <=> e # None
             /\ e # None => Aged(e).hosts = e.hosts /\ Aged(e).err = e.err
  BY AgedIsEntry, NoneAssumption DEF Aged
<1>2. Answers!Settle
  <2>1. ASSUME NEW n \in Names, CopiesMatch(n) PROVE CopiesMatch(n)'
    <3>1. /\ cache'[n] = Aged(cache[n]) /\ cache[n] \in Entry \cup {None}
          /\ updates'[n] = Aged(updates[n]) /\ updates[n] \in Entry \cup {None}
      BY DEF Tick, IInv, TypeOK
    <3> QED
      BY <1>1, <2>1, <3>1 DEF Tick, CopiesMatch, Agrees, Matches
  <2> QED
    BY <2>1, SettledKept DEF Tick
<1>3. \A c \in Callers : ToldTo(c)' = ToldTo(c)
  BY DEF Tick, ToldTo
<1> QED
  BY <1>2, <1>3, SettlesInside DEF Tick

(* Every step of the client is a step of the directory, or none.            *)
LEMMA NextImplements == IInv /\ [Next]_vars => [Answers!Next]_(Answers!vars)
<1> SUFFICES ASSUME IInv, [Next]_vars PROVE [Answers!Next]_(Answers!vars)
  OBVIOUS
<1>1. ASSUME NEW n \in Names, RegistryChanges(n) PROVE Answers!Next
  BY <1>1, RegistryChangesImplements
<1>2. ASSUME NEW x \in Clients, AgentAnswers(x) \/ QueryFails(x) PROVE Answers!Next
  BY <1>2, AgentAnswersImplements, QueryFailsImplements
<1>3. ASSUME NEW c \in Callers, Discover(c) PROVE Answers!Next
  BY <1>3, LookupHitImplements, LookupMissImplements, QueryReturnsErrorImplements,
     StoreImplements, UseImplements, ReturnErrorImplements DEF Discover
<1>4. CASE Refresh
  BY <1>4, WakeAndScanImplements, RemoveImplements, QueryNextImplements,
     CollectUpdateImplements, MergeImplements DEF Refresh
<1>5. CASE Tick
  BY <1>5, TickImplements
<1>6. CASE UNCHANGED vars
  <2>1. Settled' = Settled
    BY <1>6 DEF vars, agent, callers, loop, Settled, CopiesMatch, Agrees, Matches
  <2>2. \A c \in Callers : ToldTo(c)' = ToldTo(c)
    BY <1>6 DEF vars, callers, ToldTo
  <2> QED
    BY <1>6, <2>1, <2>2 DEF vars, agent, Answers!vars
<1> QED
  BY <1>1, <1>2, <1>3, <1>4, <1>5, <1>6 DEF Next

(* The client of the registry implements a directory: a name that has       *)
(* settled is answered with the nodes of now, whatever is cached, evicted,  *)
(* refreshed or answered late, until a change or a failed query of that     *)
(* very name; and every answer is nodes the name had, or none.              *)
THEOREM ClientImplementsDirectory == Spec => ImplementsDirectory
BY InitImplements, Inductive, NextImplements, PTL
   DEF Spec, ImplementsDirectory, Answers!Spec
=============================================================================
