---------------------------- MODULE ConsulCache ----------------------------
(***************************************************************************)
(* The service cache of helper/consul: Client.Discover, called from any    *)
(* number of goroutines, and Client.loop, the goroutine that refreshes and *)
(* evicts the entries. Both query the consul agent without holding the     *)
(* mutex, so the answers of the agent are in flight while the cache, the   *)
(* registry and the clock move on.                                         *)
(*                                                                         *)
(* Time is kept as ages: a Go time.Time is only compared with time.Now(),  *)
(* so an entry holds how long ago its t and r were, up to one past the age *)
(* the code tells apart. The zero time.Time is older than every age.       *)
(***************************************************************************)
EXTENDS Integers, Sequences

CONSTANTS
    Names,          \* the service names that are looked up
    Callers,        \* the goroutines that call Discover
    Loop,           \* the refreshing goroutine
    Lists,          \* the non-empty lists of healthy nodes of a service
    NoHosts,        \* the empty list
    Failed,         \* the answer of a query that failed
    None,           \* no entry, no name, no answer
    RefreshAge,     \* an entry older than this is refreshed (5s)
    IdleAge,        \* an entry not used for longer is evicted (3min)
    Interval,       \* what loop sleeps between two iterations (5s)
    MaxFaults       \* bound: changes of the registry and failed queries

ASSUME TimesAssumption ==
    /\ RefreshAge \in Nat
    /\ IdleAge \in Nat
    /\ Interval \in Nat \ {0}
ASSUME MaxFaultsAssumption == MaxFaults \in Nat
ASSUME ValuesAssumption ==
    /\ Loop \notin Callers
    /\ None \notin Names
    /\ NoHosts # Failed
    /\ NoHosts # None
    /\ Failed # None
    /\ {NoHosts, Failed, None} \cap Lists = {}

Clients == Callers \cup {Loop}

(* The ages of t and r, the last one standing for "older than that". *)
TAges == 0 .. RefreshAge + 1
RAges == 0 .. IdleAge + 1
ZeroT == RefreshAge + 1
ZeroR == IdleAge + 1

(* A serviceCache: either an error and no nodes, or the nodes of a service. *)
Entry ==
    [err : {TRUE}, hosts : {NoHosts}, t : TAges, r : RAges]
        \cup [err : {FALSE}, hosts : Lists, t : TAges, r : RAges]

(* What a caller holds: the nodes or the error of an entry, and whether the *)
(* map still points to that entry.                                         *)
HeldEntry ==
    [err : {TRUE}, hosts : {NoHosts}, linked : BOOLEAN]
        \cup [err : {FALSE}, hosts : Lists, linked : BOOLEAN]

(* What a caller is told in the end: of which name, and which nodes. *)
Answer == [name : Names, nodes : Lists \cup {NoHosts}]

ASSUME NoneAssumption == None \notin Entry \cup HeldEntry \cup Answer

VARIABLES
    registry,   \* the healthy nodes of each service, as the agent has them
    faults,     \* history: the names whose nodes changed or whose query failed
    past,       \* history: every non-empty list the registry ever had
    cache,      \* Client.serviceCache
    pc,         \* where each caller is in Discover
    asking,     \* the name each client is busy with, in or out of a query
    reply,      \* the answer of the agent on its way to each client
    held,       \* the *serviceCache a caller holds, and whether the map
                \* still points to it
    lpc,        \* where loop is
    wait,       \* how long loop has slept
    del,        \* deleteServices
    qry,        \* what is left of queryServices
    updates     \* the new entries of this iteration

agent == <<registry, faults, past>>
callers == <<pc, held>>
loop == <<lpc, wait, del, qry, updates>>
vars == <<agent, cache, callers, asking, reply, loop>>

Reported(l) == {l} \ {NoHosts}

Init ==
    /\ registry \in [Names -> Lists \cup {NoHosts}]
    /\ faults = <<>>
    /\ past = [n \in Names |-> Reported(registry[n])]
    /\ cache = [n \in Names |-> None]
    /\ pc = [c \in Callers |-> "idle"]
    /\ asking = [x \in Clients |-> None]
    /\ reply = [x \in Clients |-> None]
    /\ held = [c \in Callers |-> None]
    /\ lpc = "sleep"
    /\ wait = 0
    /\ del = {}
    /\ qry = {}
    /\ updates = [n \in Names |-> None]

----------------------------------------------------------------------------
(* Plausible slips of the code, each the twin of the definition it names.  *)

IsBadAnswerUnlessEmpty(a) == a = Failed               \* IsBadAnswer
HasGoodIfCached(n) == cache[n] # None                  \* HasGoodEntry
MergedIfMissing(n) ==                                 \* Merged
    IF cache[n] = None THEN updates[n] ELSE cache[n]
MergedWithLastError(n) ==                             \* Merged
    IF \E m \in Names : updates[m] # None /\ updates[m].err
    THEN updates[CHOOSE m \in Names : updates[m] # None /\ updates[m].err]
    ELSE updates[n]

----------------------------------------------------------------------------
(* The consul agent: it answers a query with what the registry holds when  *)
(* it looks, and a query may fail. The registry changes as services come,  *)
(* go, and turn healthy or unhealthy.                                      *)

RegistryChanges(n) ==
    /\ Len(faults) < MaxFaults
    /\ faults' = Append(faults, n)
    /\ \E l \in (Lists \cup {NoHosts}) \ {registry[n]} :
        /\ registry' = [registry EXCEPT ![n] = l]
        /\ past' = [past EXCEPT ![n] = @ \cup Reported(l)]
    /\ UNCHANGED <<cache, callers, asking, reply, loop>>

InQuery(x) ==
    /\ reply[x] = None
    /\ IF x = Loop THEN lpc = "asked" ELSE pc[x] = "asked"

AgentAnswers(x) ==
    /\ InQuery(x)
    /\ reply' = [reply EXCEPT ![x] = registry[asking[x]]]
    /\ UNCHANGED <<agent, cache, callers, asking, loop>>

QueryFails(x) ==
    /\ InQuery(x)
    /\ Len(faults) < MaxFaults
    /\ faults' = Append(faults, asking[x])
    /\ reply' = [reply EXCEPT ![x] = Failed]
    /\ UNCHANGED <<registry, past, cache, callers, asking, loop>>

----------------------------------------------------------------------------
(* Client.service, once the agent has answered: a failure and an empty     *)
(* list are both errors, and only a good entry has a time.                 *)

IsBadAnswer(a) == a \in {Failed, NoHosts}

NewEntry(a) ==
    IF IsBadAnswer(a)
    THEN [err |-> TRUE, hosts |-> NoHosts, t |-> ZeroT, r |-> ZeroR]
    ELSE [err |-> FALSE, hosts |-> a, t |-> 0, r |-> ZeroR]

(* Holders of an entry of the map that is taken out of it keep the old one. *)
Unlinked(names) ==
    [c \in Callers |->
        IF held[c] # None /\ asking[c] \in names
        THEN [held[c] EXCEPT !.linked = FALSE]
        ELSE held[c]]

Hold(e) == [err |-> e.err, hosts |-> e.hosts, linked |-> TRUE]

----------------------------------------------------------------------------
(* Client.Discover *)

HasGoodEntry(n) == cache[n] # None /\ ~cache[n].err

(* The entry is read under the read lock and used after it is released. *)
LookupHit(c, n) ==
    /\ pc[c] = "idle"
    /\ HasGoodEntry(n)
    /\ pc' = [pc EXCEPT ![c] = "holding"]
    /\ asking' = [asking EXCEPT ![c] = n]
    /\ held' = [held EXCEPT ![c] = Hold(cache[n])]
    /\ UNCHANGED <<agent, cache, reply, loop>>

LookupMiss(c, n) ==
    /\ pc[c] = "idle"
    /\ ~HasGoodEntry(n)
    /\ pc' = [pc EXCEPT ![c] = "asked"]
    /\ asking' = [asking EXCEPT ![c] = n]
    /\ UNCHANGED <<agent, cache, held, reply, loop>>

(* A bad answer is returned to the caller and leaves the cache alone. *)
QueryReturnsError(c) ==
    /\ pc[c] = "asked"
    /\ reply[c] # None
    /\ IsBadAnswer(reply[c])
    /\ pc' = [pc EXCEPT ![c] = "failed"]
    /\ reply' = [reply EXCEPT ![c] = None]
    /\ UNCHANGED <<agent, cache, asking, held, loop>>

(* A good one replaces whatever the map holds by now. *)
Store(c) ==
    /\ pc[c] = "asked"
    /\ reply[c] # None
    /\ ~IsBadAnswer(reply[c])
    /\ cache' = [cache EXCEPT ![asking[c]] = NewEntry(reply[c])]
    /\ held' = [Unlinked({asking[c]}) EXCEPT ![c] = Hold(NewEntry(reply[c]))]
    /\ pc' = [pc EXCEPT ![c] = "holding"]
    /\ reply' = [reply EXCEPT ![c] = None]
    /\ UNCHANGED <<agent, asking, loop>>

(* The entry is stamped with the time of its use, in the map or out of it, *)
(* with no lock held; then its nodes (or its error) are returned.          *)
Use(c) ==
    /\ pc[c] = "holding"
    /\ cache' = IF held[c].linked /\ ~held[c].err
                THEN [cache EXCEPT ![asking[c]].r = 0]
                ELSE cache
    /\ pc' = [pc EXCEPT ![c] = IF held[c].err THEN "failed" ELSE "idle"]
    /\ asking' = [asking EXCEPT ![c] = IF held[c].err THEN @ ELSE None]
    /\ held' = [held EXCEPT ![c] = None]
    /\ UNCHANGED <<agent, reply, loop>>

(* The caller has its error; it may call Discover again. *)
ReturnError(c) ==
    /\ pc[c] = "failed"
    /\ pc' = [pc EXCEPT ![c] = "idle"]
    /\ asking' = [asking EXCEPT ![c] = None]
    /\ UNCHANGED <<agent, cache, held, reply, loop>>

Discover(c) ==
    \/ \E n \in Names : LookupHit(c, n) \/ LookupMiss(c, n)
    \/ QueryReturnsError(c)
    \/ Store(c)
    \/ Use(c)
    \/ ReturnError(c)

----------------------------------------------------------------------------
(* Client.loop *)

IsIdle(e) == e.r > IdleAge
IsOutdated(e) == e.t > RefreshAge

Cached == {n \in Names : cache[n] # None}

(* The timer has fired; both lists are made under one read lock. *)
WakeAndScan ==
    /\ lpc = "sleep"
    /\ wait = Interval
    /\ del' = {n \in Cached : IsIdle(cache[n])}
    /\ qry' = {n \in Cached : IsOutdated(cache[n])}
    /\ lpc' = "remove"
    /\ UNCHANGED <<agent, cache, callers, asking, reply, wait, updates>>

(* removeServices; with nothing to query the iteration is over. *)
Remove ==
    /\ lpc = "remove"
    /\ cache' = [n \in Names |-> IF n \in del THEN None ELSE cache[n]]
    /\ held' = Unlinked(del)
    /\ del' = {}
    /\ lpc' = IF qry = {} THEN "sleep" ELSE "query"
    /\ wait' = IF qry = {} THEN 0 ELSE wait
    /\ UNCHANGED <<agent, pc, asking, reply, qry, updates>>

QueryNext ==
    /\ lpc = "query"
    /\ \E n \in qry :
        /\ asking' = [asking EXCEPT ![Loop] = n]
        /\ qry' = qry \ {n}
    /\ lpc' = "asked"
    /\ UNCHANGED <<agent, cache, callers, reply, wait, del, updates>>

(* The error of service() is ignored: the entry that says so is kept. *)
CollectUpdate ==
    /\ lpc = "asked"
    /\ reply[Loop] # None
    /\ updates' = [updates EXCEPT ![asking[Loop]] = NewEntry(reply[Loop])]
    /\ asking' = [asking EXCEPT ![Loop] = None]
    /\ reply' = [reply EXCEPT ![Loop] = None]
    /\ lpc' = IF qry = {} THEN "merge" ELSE "query"
    /\ UNCHANGED <<agent, cache, callers, wait, del, qry>>

Updated == {n \in Names : updates[n] # None}
Merged(n) == updates[n]

(* mergeServices: every answer replaces the entry, or adds it again. *)
Merge ==
    /\ lpc = "merge"
    /\ cache' = [n \in Names |-> IF n \in Updated THEN Merged(n) ELSE cache[n]]
    /\ held' = Unlinked(Updated)
    /\ updates' = [n \in Names |-> None]
    /\ lpc' = "sleep"
    /\ wait' = 0
    /\ UNCHANGED <<agent, pc, asking, reply, del, qry>>

Refresh == WakeAndScan \/ Remove \/ QueryNext \/ CollectUpdate \/ Merge

----------------------------------------------------------------------------
(* Time passes for the entries, in the map or about to be merged, and for  *)
(* a sleeping loop.                                                        *)

Older(age, last) == IF age < last THEN age + 1 ELSE last

Aged(e) ==
    IF e = None THEN None
    ELSE [e EXCEPT !.t = Older(@, ZeroT), !.r = Older(@, ZeroR)]

Tick ==
    /\ cache' = [n \in Names |-> Aged(cache[n])]
    /\ updates' = [n \in Names |-> Aged(updates[n])]
    /\ wait' = IF lpc = "sleep" THEN Older(wait, Interval) ELSE wait
    /\ UNCHANGED <<agent, callers, asking, reply, lpc, del, qry>>

Next ==
    \/ \E n \in Names : RegistryChanges(n)
    \/ \E x \in Clients : AgentAnswers(x) \/ QueryFails(x)
    \/ \E c \in Callers : Discover(c)
    \/ Refresh
    \/ Tick

Spec == Init /\ [][Next]_vars

(* Goroutines run, the agent answers or fails every query in the end, and  *)
(* time passes. No caller is obliged to call Discover.                     *)
CallerProgress(c) ==
    QueryReturnsError(c) \/ Store(c) \/ Use(c) \/ ReturnError(c)

Fairness ==
    /\ \A c \in Callers : WF_vars(CallerProgress(c))
    /\ \A x \in Clients : WF_vars(AgentAnswers(x))
    /\ WF_vars(Refresh)
    /\ WF_vars(Tick)

FairSpec == Spec /\ Fairness

----------------------------------------------------------------------------
(* An entry is an error without nodes or has the nodes of a good answer;    *)
(* in particular an empty answer of the agent never becomes a good entry.   *)
TypeOK ==
    /\ registry \in [Names -> Lists \cup {NoHosts}]
    /\ faults \in Seq(Names) /\ Len(faults) <= MaxFaults
    /\ past \in [Names -> SUBSET Lists]
    /\ cache \in [Names -> Entry \cup {None}]
    /\ pc \in [Callers -> {"idle", "asked", "holding", "failed"}]
    /\ asking \in [Clients -> Names \cup {None}]
    /\ reply \in [Clients -> Lists \cup {NoHosts, Failed, None}]
    /\ held \in [Callers -> HeldEntry \cup {None}]
    /\ lpc \in {"sleep", "remove", "query", "asked", "merge"}
    /\ wait \in 0 .. Interval
    /\ del \subseteq Names
    /\ qry \subseteq Names
    /\ updates \in [Names -> Entry \cup {None}]

(* What Discover is about to return for a name are nodes the registry       *)
(* really listed for that very name at some time: no other service's nodes, *)
(* no empty list, whatever was refreshed, evicted or stored meanwhile.      *)
ServedWasReported ==
    \A c \in Callers :
        (pc[c] = "holding" /\ ~held[c].err) => held[c].hosts \in past[asking[c]]

(* An error the loop has cached is never what Discover answers: a caller    *)
(* that finds one asks the agent itself, so the last-moment check of        *)
(* consul.go:320 has nothing to catch.                                      *)
CachedErrorNeverServed ==
    \A c \in Callers : pc[c] = "holding" => ~held[c].err

(* Once the registry is quiet and the agent reachable, the cache comes to   *)
(* agree with the registry for good: late answers that overwrote newer      *)
(* ones, and errors, are refreshed away, and none is written again.         *)
Matches(e, n) == IF e.err THEN registry[n] = NoHosts ELSE e.hosts = registry[n]
Agrees(n) == cache[n] # None => Matches(cache[n], n)

CacheConverges == <>[](\A n \in Names : Agrees(n))

(* The client implements a directory: what Discover answers is what          *)
(* Directory allows. A name has settled when every copy of its nodes agrees  *)
(* with the registry: the entry, the entry to be merged, the answers of the  *)
(* agent under way. A caller has its answer from the entry it holds on.      *)
CopiesMatch(n) ==
    /\ Agrees(n)
    /\ updates[n] # None => Matches(updates[n], n)
    /\ \A x \in Clients : (asking[x] = n /\ reply[x] # None) => reply[x] = registry[n]

Settled == {n \in Names : CopiesMatch(n)}

ToldTo(c) ==
    CASE pc[c] = "holding" -> [name |-> asking[c], nodes |-> held[c].hosts]
      [] pc[c] = "failed" -> [name |-> asking[c], nodes |-> NoHosts]
      [] OTHER -> None

Answers == INSTANCE Directory WITH
    Askers <- Callers, NoNodes <- NoHosts, NotTold <- None,
    nodes <- registry, settled <- Settled, told <- [c \in Callers |-> ToldTo(c)]

ImplementsDirectory == Answers!Spec

(* What makes ServedWasReported inductive. A client is busy with a name     *)
(* exactly while it is in a call or a query, and only a query has an answer *)
(* under way;                                                               *)
BusyWithName ==
    /\ \A c \in Callers :
        /\ pc[c] # "idle" => asking[c] \in Names
        /\ pc[c] = "holding" <=> held[c] # None
        /\ reply[c] # None => pc[c] = "asked"
    /\ lpc = "asked" => asking[Loop] \in Names
    /\ reply[Loop] # None => lpc = "asked"

(* a caller's link is to an entry the map has;                              *)
LinksAreLive ==
    \A c \in Callers :
        (pc[c] = "holding" /\ held[c].linked) => cache[asking[c]] # None

(* and nodes are in the history of their name wherever they are: in the     *)
(* registry, the map, the new entries, an answer, or a caller's hands.      *)
NodesWereReported ==
    /\ \A n \in Names : Reported(registry[n]) \subseteq past[n]
    /\ \A n \in Names : cache[n] # None => Reported(cache[n].hosts) \subseteq past[n]
    /\ \A n \in Names : updates[n] # None => Reported(updates[n].hosts) \subseteq past[n]
    /\ \A x \in Clients : reply[x] \in Lists => reply[x] \in past[asking[x]]
    /\ \A c \in Callers :
        pc[c] = "holding" => Reported(held[c].hosts) \subseteq past[asking[c]]

IInv ==
    /\ TypeOK
    /\ BusyWithName
    /\ LinksAreLive
    /\ CachedErrorNeverServed
    /\ NodesWereReported
=============================================================================
