# A verification project for kits

TLA+ models of `lworkltd/kits`, a toolkit for Go microservices: how a server
reads its configuration, what protects it from overload, how it answers and reports
its requests, how it finds the nodes of other services and calls them. The models are
checked with TLC on small instances; their safety properties and the refinements of
the abstract specifications are proved with TLAPS for every value of the constants.

`PROJECT.json` is the index: components, runs, mutants, the source lines behind
each definition, findings, hazards and theorems.

## 1. The system

| component | source | state | operations | interacts with |
|---|---|---|---|---|
| overload guard | `service/restful/wrap/snowslide.go` | `curTime`, `curCount`, a mutex | `Check` | called by the wrapper for every request |
| request wrapper | `service/restful/wrap/wrapper.go`, `response.go`, `restful/code/error.go` | per request: `data`, `cerr`, the answer | `New`, `Wrap`, `reportProcessResultToMonitor` | asks the guard, runs the application's function, reports to the monitor |
| service cache | `helper/consul/consul.go` | `serviceCache`, an RW mutex, the locals of `loop` | `Discover`, `loop` (`removeServices`, `mergeServices`), `service` | queries the consul agent; used by the discovery |
| registration | `utils/discovery/discovery.go`, `helper/consul/consul.go` 43–291 | the facade of the process; entries are the agent's | `RegisterServerWithProfile`, `RegisterGrpcServerWithProfile`, `Register`, `Unregister`, `Version` | through the discovery facade to the agent |
| consul operations | `helper/consul/consul.go` 331–396 | none of its own: keys and sessions are the agent's | `KeyValue`, `UpdateKeyValue`, `CreateSession`, `Acquire`, … | straight calls of the agent |
| discovery facade | `service/discovery/` | a list of static services, function values | `Init`, `Discover`, `Register`, `Unregister` | static list first, then consul |
| invoke engine | `service/invoke/engine.go`, `service.go`, `export.go` | what `Init` sets, with no lock; `serviceMap` under an RW mutex; per service a copy of the configuration and an atomic call counter | `Init`, `Service`, `remote` | asks the discovery for nodes at every call |
| invoke client | `service/invoke/client.go`, `utils/invoke/invoke_utils.go` | per call: status or response, `out`, cancel function, error, shared between goroutines; the connection of the answer | `Exec`, `Response`, `ExtractHttpResponse`, `ExtractHeader` | hystrix, the HTTP client, the monitor |
| monitor | `service/monitor/` | four bounded channels, four maps, time and count since the last flush | `Init`, `Report…`, `processReportData`, `checkAndReportData` | fed by wrapper and client; sends to Aliyun and Loki |
| configuration | `service/profile/parser.go`, `profile.go` | the structure being filled, `parseStatus` of a walk | `Parse` (`parseInit`, `DecodeFile`, `parseEnv`, `parseDefault`) | hooks of the application's sections, the toml library, the environment |
| context, version, evaluation, helpers | `service/context`, `service/version`, `utils/…` | none that changes, or set once at start-up | parsing, formatting, wrapping | |

What makes each hard, and what makes it correct:

* **Overload guard.** The clock is read before the mutex is taken, and the wall
  clock may be set back; requests arrive at the counter with readings in any
  order. Correct: no window admits more than the limit; nobody is denied by a
  window that is not full.
* **Wrapper.** Four ways to end (denied, value, error, panic), a handler that may
  have written to the client by itself, whatever it returns, and a report that is made before
  the answer. Correct: one answer to each request whose handler writes exactly when it says so, in the
  end; the report agrees with the last answer; only admitted requests reach the application.
* **Service cache.** Queries of the agent run without the lock, so their answers
  are late; entries are evicted, refreshed and stored by different goroutines;
  an entry is used after the lock is released. Correct: nodes served for a name
  were nodes of that name; cached errors are not served; the cache comes to
  agree with a quiet registry; what is in use is not evicted.
* **Registration.** Arguments are checked in two places, the health check depends on the
  agent's version, and a call of the agent may fail after it took effect; processes with one id
  come and go. Correct: an entry of the catalogue is one registration, whole, and its check is one
  the agent has; what a process was told is true until somebody else uses its id. That an entry
  can be called is more than the code establishes (observations in section 3).
* **Invoke engine.** Lookup and insert are two critical sections; the counter is
  read at the start of a call and incremented at its end; `Init` takes no lock, and a
  service object copies what it finds. Correct: a name settles on one counter; each
  goroutine moves on with every call; a name first used after `Init` has all that
  `Init` set; no circuit has a limit out of range.
* **Invoke client.** After a timeout of hystrix the function it ran goes on and
  shares variables with the caller. Correct: no error means there is an answer, which is
  final and holds no connection; each call is reported, and last as the caller saw it, with the code
  it got; a timeout ends the call and, once it was sent, its request.
* **Configuration.** Four sources, one after the other, and one of them takes a detour:
  the environment is turned into a toml text that names each section by the last tag of its
  path, and that the toml library reads without regard to case where it must. Correct: each field has the
  value of the source with the last word; an override lands in its own field or nowhere, as long as names
  differ by more than case; a structure that cannot be walked panics before anything is read.
* **Monitor.** Reporters must never wait; the goroutine looks at the clock only
  when idle or after a number of reports; the maps are swapped under load; the wall
  clock may be set back; `Init` may stop half way.
  Correct: what a channel accepts is counted once and is sent in the end.

## 2. Modules

| module | what it is | code |
|---|---|---|
| `Quota` | abstract specification: windows opened in order, `Limit` grants each, denial only by a full one | – |
| `SnowSlide` | the guard, step by step; `ImplementsQuota` is its refinement of `Quota` | `snowslide.go` |
| `MCSnowSlide` | adds a history of admissions per second of the clock | – |
| `SnowSlideProofs` | theorems about `SnowSlide` | – |
| `Wrapper` | the life of requests under `Wrap`; instantiates `SnowSlide` as `Guard` | `wrapper.go`, `error.go` |
| `WrapperProofs` | theorems about `Wrapper`; instantiates `SnowSlideProofs` and carries its theorems over | – |
| `Directory` | abstract specification: askers are told nodes a name had, or none; those of now once the name has settled | – |
| `ConsulCache` | `Discover` and `loop` with queries in flight; `ImplementsDirectory` is its refinement of `Directory` | `consul.go` 293–328, 398–508 |
| `MCConsulCache` | starts every service with nodes of its own | – |
| `MCConsulEviction` | adds a history of uses per name | – |
| `ConsulCacheProofs` | theorems about `ConsulCache` | – |
| `Registration` | processes that register and unregister at the catalogue of the agent | `utils/discovery`, `service/discovery`, `consul.go` 108–291 |
| `MCRegistration` | profiles: good, with a defect that is refused, with one that is not; versions of the agent | – |
| `RegistrationProofs` | theorems about `Registration` | – |
| `InvokeEngine` | `Init`, `Service` and `remote` | `engine.go`, `service.go`, `invoke/export.go` |
| `InvokeEngineProofs` | theorems about `InvokeEngine` | – |
| `Call` | abstract specification: a caller is told once, with a whole answer or none, and the last report says the same | – |
| `InvokeClient` | a call, the function hystrix runs, its timer, and the reports; `ImplementsCall` is its refinement of `Call` | `client.go`, `invoke_utils.go` |
| `InvokeClientProofs` | theorems about `InvokeClient` | – |
| `Monitor` | `Init`, reporters, channels, the aggregating goroutine | `monitor/export.go`, `monitor.go` |
| `MCMonitor` | the requests that report | – |
| `MonitorProofs` | theorems about `Monitor`, and about sums over sequences | – |
| `Profile` | `Parse`: two walks, the file, the environment | `profile/parser.go`, `profile.go` |
| `MCProfile` | eleven structures, each with something `Parse` must get right | – |
| `ProfileProofs` | theorems about `Profile` | – |

Each module has plausible slips: twins of definitions, before the definition they are
twins of, used by nothing in the specification; each breaks the property it is paired with under
`mutants` in `PROJECT.json`. That shows that the properties depend on the code.

### SnowSlide and Quota

`curTime`, `curCount` are the Go fields; `pc` and `timeNow` are the place and the
local of each request. `Enter` is lines 21 to 25, before the mutex: with a limit that is
not positive the guard is off, otherwise the clock is read. The critical
section is one step with three outcomes, `OpenWindow`, `CountInWindow` and `Deny`.
The runs have the guard on, as every wrapper has it (`New` replaces a limit that is not
positive); the theorems are for both. `Return` lets a request
slot be used again, so three slots stand for any number of requests of which three
overlap. `ClockTick` and `ClockStepBack` are the wall clock. `admitted` is a history:
admissions per window. The refinement maps `curTime` to `window`, `admitted` to
`granted`, and a request that is still in `Check` to one that has no verdict. It is
for a positive limit: with the guard off there is no quota to implement.

### Wrapper

The guard is an instance of `SnowSlide` over the wrapper's own variables: `CheckOverload`
is a step of `Guard!Check`, `TakeVerdict` its `Return` and the branch at line 294.
`LimitCnt` is what `New` makes of the option. The wrapped function is
application code: it is handed the gin context, so it may write to the client or not (`MayWrite`), and then
succeeds, fails or panics in any of the ways the code tells
apart. `nil` is a hijacked response only under `ReturnNilDataHijack`, which the run
sets. The deferred function looks at what the handler returned, never at what it wrote: `AnsweredOnce`
says exactly when the two agree. Errors are kept as what `Mcode()` tells apart: one with a code of its own, one
made from a number, whose code the answer makes from the prefix, the guard's, and the
internal error of an unknown panic. `Deferred` recovers and writes the answer.

### ConsulCache

A `time.Time` in an entry is only compared with `time.Now()`, so an entry holds the
*ages* of `t` and `r`, up to one past the age the code tells apart; the zero time is older
than everything. `Tick` ages all entries, those about to be merged included. `Discover`
is five actions per caller, as it takes and releases the lock: `LookupHit` or `LookupMiss`
(read lock), the query (`AgentAnswers` or `QueryFails`, external), `QueryReturnsError` or
`Store` (write lock), `Use` (the unlocked write of `r`). The caller holds a pointer to an
entry; `held[c].linked` says whether the map still points to the same one, so that a use of an entry
that was replaced is not noted in its successor. `loop` is `WakeAndScan`,
`Remove`, one `QueryNext` and `CollectUpdate` per outdated name, and `Merge`. `past` is a
history of what the registry ever listed for a name.

`Directory` is what callers see of all this: no cache, no lock, no clock, no query. A caller is told
nodes that the name had at some time, or none (the error). A name *has settled* when every copy of its nodes agrees with
the registry: the entry of the map, the entry about to be merged, and the answers of the agent under way
(`CopiesMatch`). Settling is up to the cache; but only a change of the name's own nodes or a failed query for it may
unsettle a name, and one that has settled is answered with the nodes of now. Both are recorded in `faults`, a sequence of names
that no other step touches; the cache has the same history and writes it where the registry changes and where a query fails. So a
store, a merge or an eviction that brought old nodes back to a settled name would be no step of `Directory`. The mapping takes `registry` for
the nodes, and a caller to have been told from the moment it holds an entry or an error (`ToldTo`). That a name settles in the end is
`CacheConverges`, which is liveness.

### Registration

One process registers one service at a time; processes share only the agent and perhaps an
id. `facade` is `defaultDiscovery`: nil until `InitDiscovery`, then the set of functions it was given.
`Start` is `RegisterServerWithProfile` (or the grpc twin) up to the facade,
with both early returns and the panic of a nil facade in `Discover`, which the grpc twin does not call;
`Submit` is `Client.Register` with `checkAndDefaultOption`, up to the first call of the agent; `AskVersion` is
`Version`; `Registered` is `ServiceRegister` and `Stop` is `ServiceDeregister`, each of which may
take effect and yet fail. `Die` ends a process anywhere. Addresses and ports are kept as far as
the checks tell them apart; a `BadWord` is a port, a time or a word of a version that does not parse. A negative port, one
beyond 65535 and a loopback address of another name are good for both checks, as they are in the code. `Given` is what is
passed to the agent as it is: anything for a check that is not empty and does not begin with `/`, be it a url or not.
`lastChange` is a history of who changed the entry of an id.

### InvokeEngine

One name, since names do not interfere. A service object is identified by the goroutine
that made it. `BeginInit` and `EndInit` are `invoke.Init`, with the defaults and ranges of
the limits (`Adjusted`; one limit stands for the three, which differ in numbers only). While `Init` runs, an object
that is made may have got any of its assignments and not others (`Seen`): they are ordered by no lock.
`Lookup`/`Create`, `Insert`, `ReadCount`, `PickNode`/`NoNodeFound` and `Return`
are the steps between which others may run. `used` (the last index a goroutine got of an
object) and `early` (somebody used the name before `Init` was done) are histories. The counter is a
64-bit `co.Int64` in the code and a natural number here: a wrap needs 2^63 calls of one service
and is not modelled.

### InvokeClient

Three actors share a call: the caller (`StartRequest`, `DoReturns`, `CancelRequest`,
`ReportToMonitor`, `Return`, `Extract`), the function (`MakeContext` … `Assign`) and hystrix
(`Reject`, `Signal`, `Finish`, `TimerFires`). `status` is the captured variable: the status of
`Exec`, or `resp` of `Response` known by its status, zero for nil; `out` is what `Exec` decodes into. The caller reads
`status` twice, for the report of a failure (`code`, in `ReportToMonitor`) and to return it (`returned`, in `Return`), and the function
may assign it between the two.
`once`, `done`, `errChan`
are hystrix's and external: they are modelled from what `hystrix.Do` promises and how
`client.go` uses it. `conn` is the connection of the answer: held from the answer on, and free again
when the body was read to its end, closed, or the context cancelled (`net/http`, external). `Extract`
is `ExtractHttpResponse` with `ExtractHeader`: `result` is what
it makes of the response and error it is handed, `ReportsOf` what it reports on the way,
`ClosesBody` whether it closes the body; the
texts of network errors and the fields of the body are reduced to the outcomes that differ. A call is with or without circuit, with or without a
context.

`Call` is the call seen from outside: the caller is told once, the monitor has heard of it before or hears of it then, and
the last report is what the caller is told. It allows one earlier report of a failure, the late response of finding 4,
and nothing else. The mapping (`Verdict`, `Received`) takes the error of `Exec`, or the result of `ExtractHttpResponse`, for
the verdict, and the status that was returned with, for `Exec`, the decoded body for the answer: that it never changes after the caller
was told is part of the refinement.

### Monitor

Each of the four channels is a sequence of at most `QueueLen` items; a report is a key and a
time. `Init` is three steps: reporting is enabled, the channels exist, the goroutine runs; it may stop
after any of them. `Offer` is the `select` with `default`: nothing is sent to a full channel, or to the
nil channel of an `Init` that has not made it yet. `Take` is one receive with the clock check
that follows when `MustCheck` holds; `SendWhenIdle` is the default branch. The clock is known by
`sinceSend`, which is below zero after a `ClockStepBack`. A key whose
fields hold the delimiter does not parse back and gives no metric (`ParsesBack`). `owed` is
a history: what a channel accepted and no sender has been handed, in number and in time.

### Profile

A structure is the sequence of its fields in the order in which the three walks of `parser.go`
meet them; a field is its path of tags and its kind. A value is known by its source and by the path
of the field it was meant for, which is what tells an override that landed in the wrong
field. `Walk` is `parseInit0` and `parseDefault0`, one field per step (they differ in the hook
only); the hook of a field may set any of the leaves under it. `meta` is `parseStatus.meta`, new for each walk. The deferred
`recover` of a walk panics again, so stages `"panic"` (the walk's own panics) and `"hookPanic"` (a hook's, which is application
code and may panic in either walk, its work half done) are final. `Route` is what `routes` makes of a path: a section of an empty
tag gives its leaves the routes of leaves outside of all sections. `DecodeFile` is the file.
`ParseEnv` is `parseEnv0`, `folderToText` and the decoding of the text: the text is known by the tables
and keys it has, which section's table a key is in, and which field the toml library finds for a name: the one that is called so
or else the first that is in another case (`Finds`, `Fold`), first for the table and then for the key (`Meets`). `Ambiguous` is what
the library refuses, `Misfits` what has the wrong type. A text that fits in part is written in part, in no order the library promises.
A `"raw"` word has a quote or a line end in it: it is written as it is, so it may be any tables and keys, and may set any field or fail
(`Spills`, `Lands`). Two assumptions about structures are not constants: a leaf is neither a map nor a pointer to a
structure, and the Go name of a field with an empty tag is no other field's tag.
The hooks of `profile.go` set fields of their own section and are the `HookWrites` of the model.

## 3. Runs

Bounds are chosen so that the interesting case happens; the mutants show that it does.

| run | expected | shows | bounds |
|---|---|---|---|
| `SnowSlide_safety` | pass | type, `WindowLimit`, `DeniedOnlyWhenFull`, `ImplementsQuota` | 3 overlapping requests, limit 2 (one more request than the limit), 3 seconds (a late reading, a current and a future one), clock set back; 44 163 states |
| `SnowSlide_second` | violation of `SecondLimit` | a second of the clock admits more than the limit | 2 requests, limit 1, clock that only advances |
| `Wrapper_safety` | pass | `AnsweredOnce`, `ReportAgreesWithAnswer`, `OnlyAdmittedRun`, `OptionLimitsWindow`, `EveryoneAnswered` | 3 requests, limit 1: two are denied or meet another window; a handler that writes or not in each of its ends; 274 590 states |
| `ConsulCache_all` | pass | `CachedErrorNeverServed`, `ImplementsDirectory`, `CacheConverges` | 2 names with different nodes at first (mixing), 2 callers (racing stores) and the loop, 2 lists, one change or failure, shortest ages, no symmetry; 1 062 058 states |
| `ConsulCache_evicts` | violation of `OnlyUnusedAreDue` | a service used just now is evicted after a refresh; calls under way are left out of the question | 1 name, 1 caller, the idle age longer than the interval |
| `Registration_safety` | pass | `EntriesAreWhole`, `ChecksMatch`, `ToldIsTrue` | 2 processes, 20 profiles of which most have one defect that is refused or gets through, two ids, 9 versions, 2 registrations in all (a server and its successor); 2 882 208 states |
| `InvokeEngine_race` | pass | `IndexAdvances`, `ObjectSettles`, `ConfiguredUnlessEarly`, `LimitsInRange` | 2 goroutines (both may make an object) and `Init`, 3 calls each, discovery that fails, a limit that is not set, below, in and above its range; 1 780 236 states |
| `InvokeClient_safety` | pass | `NoErrorMeansAnswer`, `FailureCodeIsReturned`, `LastReportIsResult`, `ConnectionIsReleased`, `ReturnedIsFinal`, `ImplementsCall`, `CallReturns`, `TimeoutEndsRequest` | one call of every kind, a plain and another 2xx, a 404; calls share nothing in this module; 1 960 states |
| `InvokeClient_twice` | violation of `ReportedOnce` | a late response is reported twice | as above |
| `Monitor_all` | pass | `NothingLostInside`, `SentEventually`, `ReportersNeverWait` | 2 reporters without a bound on their requests, 2 keys (one unparsable), channels of length 1, the clock set back once; 84 195 states |
| `Profile_parse` | pass | `Precedence`, `OwnOverridesOnly`, `OwnPanicsBeforeReading` | 11 structures of at most 7 fields, every file, every environment of good, malformed, misfitting and raw words, every choice of the hooks, panics included; 646 561 states |
| `Profile_nested` | violation of `EnvironmentFirst` | the environment does not reach a section in a section | as above |

`MaxFaults`, `MaxTime`, `MaxCalls`, `MaxCount`, `MaxSetBacks` and `MaxStarts` are the bounds that
the code does not have. `MaxCount` freezes the counters of the model, not the actions:
`NothingLostInside` says nothing of a counter that is frozen, and its history starts again from what is
in the channel at the next flush; below it, which is where the swap of the maps races with the reports, it is
exact. `Monitor_all` has reporters that never stop, since `SentEventually` is about a goroutine that is never idle.
The eleven structures of `MCProfile` are one for each way in which the walks or the text can go wrong
(a section in a section, two of one name, a section called like a leaf, what is left out, two leaves of one tag or of
tags that differ in the first letter, what reflection cannot walk, leaves and sections whose names differ in a later letter, a
section of an empty tag); the theorems are for all structures.
`CHECK_DEADLOCK FALSE` is set where the system stops: a finished call (`InvokeClient`), a `Parse` that has
returned or panicked (`Profile`), and the last of `MaxStarts` registrations.

### Findings

1. **One second may admit more than the limit.** `Check` reads the clock (`snowslide.go:25`) before
   it locks, and `t > curTime` opens no window for a reading that is not newer; a request that read
   the clock earlier is counted in the newest window, and one that is delayed past the end of
   its second takes a place in the old window. `wrapper.go:60` promises a limit per second. What
   does hold is the limit per *window* (proved).
2. **A service in use is evicted.** `service()` builds an entry with a zero `r`
   (`consul.go:473`), and `mergeServices` puts it over one that was just used; the next
   scan finds it unused for longer than three minutes. The run shows a lookup that has returned, a refresh and a scan; an
   entry that a lookup has just stored and not yet stamped (`consul.go:325`) is left out of the property. `consul.go:411` says three minutes without
   a use. The next `Discover` asks the agent again, so callers get nodes all the same.
3. **The environment does not reach a section in a section.** `folderToText` (`parser.go:221`) names the
   table of a section by the last tag of its path alone, so toml finds no such section at the top and drops
   what the table holds, without an error. `docs/profile_manual.md:7` puts the environment above the file
   for every field. Sections in no other section do get their overrides (`Precedence`, proved).
4. **A response can be reported twice.** After a hystrix timeout `Response` reports a nil `resp`
   as failed; if the response is assigned before the `return`, `ExtractHttpResponse` reports it
   once more (`client.go:637`, `invoke_utils.go:34`). The last of the two is the truth
   (`LastReportIsResult`, proved).

### Observations without a run

* `client.Fallback` (`client.go:112`) drops the function it is given; no fallback is ever run,
  though `export.go:76` describes it.
* Round robin is not kept when calls overlap: `remote` reads the counter at its start and adds one at its
  end (`service.go:26`), so two goroutines in step pick the same node and skip the other, without bound. Alone, each
  goroutine does move on (`IndexAdvances`).
* A name that is used before `Init` keeps the failing discovery of `newEngine` (`engine.go:83`) for good: the map
  keeps the object, and the object its copy. `ConfiguredUnlessEarly` leaves exactly these names out.
* `discovery.Register` and `Discover` before `discovery.Init` panic on a nil facade (`discovery/export.go:21`).
* A client that is used again after a call of it was cancelled still has the cancelled context.
* `cancel` (`client.go:633`) may be read before the function has set it: the request is
  then not cancelled and runs until the timeout of the HTTP client. `TimeoutEndsRequest` is for the other case.
* `build` (`client.go:372`) runs the discovery inside the function of hystrix, and a consul query has neither context nor
  timeout: one that never returns keeps that goroutine for good, and the cancelled context does not end it.
  `TimeoutEndsRequest` leaves exactly this open.
* After a timeout the status may come in between the report of `Exec` (`client.go:339`) and its return (`client.go:369`): the
  failure is then reported with code 0 and returned with the status. `FailureCodeIsReturned` says that this is the only difference.
* A handler that writes and then panics, fails or returns data gets a second body after its own (`wrapper.go:206`,
  `wrapper.go:228`), and one that returns a hijacked response without having written gets none.
* `Exec` never closes the body of an answer that is not a 2xx (`client.go:546`), and nobody that of a response that comes
  after the timeout; `ConnectionIsReleased` is therefore about calls without an error.
* The name of the circuit is taken before `serverid` is set (`client.go:79`): a client's first call has a circuit
  called by no node.
* `AfterParse` of a section runs before that of a section in it, and a tag of options only (`,omitempty`) keeps the
  environment from a field that the file can set.
* toml finds a name in another case when there is none as it is written: of two leaves `AB` and `ab`, or two such sections, one takes the
  override meant for the other. `CaseTold` leaves such structures out of `Precedence` and `OwnOverridesOnly`.
* The value of a variable is written into the toml text unescaped (`parser.go:226`): one with a quote or a line end may set
  other fields, or fail. `Precedence`, `OwnOverridesOnly` and `EnvironmentFirst` are for the others.
* A leaf in a section of an empty tag has the route of a leaf outside of all sections (`parser.go:75`): with one name the two panic as a
  duplicate, although neither the file nor the environment would mix them up.
* The `recover` in the walks of `parser.go` always panics again, for a hook's panic as well, which in an `AfterParse` leaves the structure
  configured; the error that `Parse` could return instead is never made.
* `utils/eval/README.md` writes expressions as `$(...)`, the code looks for `${...}`; the default `ReportIp`
  (`profile.go`) is `ip_of_first_interface()`, which is neither.
* `errInProcess` in `client.go` is never given an error, so its test has nothing to catch.
* A `SnowSlideLimit` of zero or less is documented as "no limit" (`wrapper.go:60`) and becomes the default
  limit (`wrapper.go:90`).
* An error made from a number is reported to the monitor with an empty code (`wrapper.go:158`) and
  answered with the prefixed one (`wrapper.go:242`); `ReportAgreesWithAnswer` allows for it.
* An entry evicted by one iteration of `loop` may be in the same iteration's query list, and
  is then put back by `mergeServices`.

* `ReportPort` is an `int16` (`profile.go:73`): a port above 32767 can only come from `Host`. A negative or too
  large port of `Host` passes both checks.
* Loopback addresses are recognised by `localhost` and the prefix `127.0.0` (`utils/discovery/discovery.go:143`): `::1` and `127.1.0.1`
  are registered.
* A check that is neither a path nor a url is passed on to the agent as it is (`utils/discovery/discovery.go:77`).
* `utils/discovery/discovery.go:19` gives 60 s and 15 s as the default times of a check; they are 5 s and 3 s
  (`consul.go:20`).
* The warning that an id has moved (`utils/discovery/discovery.go:33`) is given for healthy nodes only, and never for
  a service with a static list, which hides the ids.
* A server whose registration failed after the agent had taken it stays in the catalogue; nothing tries again or takes it out.

## 4. Fairness

* `ConsulCache`: weak fairness of every started `Discover`, of `loop`, of the clock, and of the agent's
  answers. The consul client sets no timeout, so a query that never returns does stop the
  refresh; the property is for an agent that answers. Nobody is obliged to call `Discover`. Failures
  and changes are bounded by `MaxFaults`: they end.
* `Monitor`: weak fairness of `Take` per channel, since Go's `select` picks among ready channels at
  random; of the idle flush and of the clock, whose setting back is bounded by `MaxSetBacks`. Requests that
  report go on. Nobody is obliged to report or to stop, and no fairness is assumed of `Init`.
* `Wrapper`: weak fairness of each request: the scheduler runs goroutines, and the application's function
  returns or panics.
* `InvokeClient`: weak fairness of the goroutines and of the timer of hystrix, none of the network: a
  server need never answer, and `build` need never end, since the discovery in it may ask consul without a timeout.
  `CallReturns` is therefore about calls with a circuit, and `TimeoutEndsRequest`
  about those whose cancel function was there when the timeout came, and which do not stay in `build` for good. That
  a request whose context is cancelled ends is what `net/http` promises.

## 5. Proofs

Assumptions are the named `ASSUME`s of each module; TLC evaluates them in the runs. Nothing else is
assumed.

* **`SnowSlideProofs`**, for any set of requests, limit, last second and clock. `IInv` is
  `TypeOK`, `CounterIsExact` and `WindowLimit`. `WindowLimit` alone is not inductive: a counter
  below the limit says nothing of the window unless it *is* the number of the window's admissions, and a
  window that opens must be empty, which is the second half of `CounterIsExact`. From it:
  `WindowLimitHolds`, `CounterStaysExact`, `DenialsAreJustified` (an action property) and
  `GuardImplementsQuota`, the refinement, for `LimitCnt > 0`.
* **`WrapperProofs`**, for any requests, option and clock. `WrapperImplementsGuard`: every behaviour of the wrapper is one of
  the guard it instantiates, because it calls `Check`, takes the verdict once, and touches the guard's
  variables nowhere else. The theorems of `SnowSlideProofs`, instantiated for the wrapper's variables, then give the guard's
  types and `OptionIsTheLimit`. For the requests, `IInv` says of each stage of a request what it has been told
  and what was reported of it (`RequestInv`); `AnsweredOnce` and `ReportAgreesWithAnswer` are its last stage: `OneAnswer`,
  `ReportsAgree`. The step that needs the argument is `Deferred` (`DeferredAgrees`): before it there is at most the handler's own
  answer, and one it adds comes after that (`AnswerComesLast`). `OnlyAdmittedRequestsRun` counts: the
  admissions of the windows and the requests let through are two finite sets that grow together, one element each, with every verdict
  "admitted" (`AdmissionInv`, `AdmissionAddsOne`). `WrapperImplementsQuota` composes the two refinements: wrapper to guard, guard to quota.
* **`InvokeEngineProofs`**, for any goroutines, list lengths, limits and calls. The type invariant first
  (with the lemma that a position is in its list); then `IInv`, which adds `CountersAreAhead`:
  no goroutine has used an index the counter has not passed. `IndexAlwaysAdvances`, `CountersStayAhead`, `ObjectsSettle`.
  For the configuration, `ConfInductive`: until somebody is early there is no object before `Init` is done, and
  whatever an object copied is a part of the option. `LateCallsAreConfigured`, `LimitsStayInRange`.
* **`InvokeClientProofs`**, for any calls and statuses. What the caller returns rests on what another goroutine has
  done by then, so the invariant has a part for each: `RunInv` (the function has assigned the answer, and decoded the body, before it
  says nil to hystrix, and does nothing to them afterwards) and `CallerInv` (without an error the caller has heard of that nil;
  a report is there, or a response for `ExtractHttpResponse` to report). A step of one call leaves the
  others as they are (`OthersStaySame`), so one lemma per call is enough (`StepKeepsInv`). From it:
  `NoErrorHasAnswer`, `EveryCallIsReported`, `LastReportIsTheResult`, `ConnectionsAreReleased`, and
  the action property `ReturnsAreFinal`. `FailureCodeIsTheStatus` has an invariant of its own, `CodeInv`, on top of it: between the report
  and the return the status is the code reported, or the code is still none and the timer has fired; with any other
  error the function is over before the caller goes on. `ClientImplementsCall` is the refinement: a step is seen by its own call only, and
  there it is the report (`ReportLooksLikeReport`), the return (`ExecReturnsLooksLikeReturn`, `ExtractLooksLikeReturn`) or nothing;
  the case that needs the invariant is the body decoded into `out` under a caller that has returned (`RequestLooksSame`).
* **`ProfileProofs`**, for any structures, tags, `unTitle` and folding of case, assuming that a field is in a section of the
  structure which has its tag to itself, that `unTitle` and folding turn no ordinary tag into a special one, and that `unTitle` is a change of case.
  The properties of the values are for structures and environments that are `Plain` (`CaseTold`, and no word that is text of its own).
  The heart is `OverriddenByOwn`: when the text is not refused, a leaf is
  overridden by itself or not at all, although tables are known by their last names and names are found in another case; it takes both that no two tables
  share a name and that the leaf's own table is the one the library finds (`TableOf`, `TableIsOwn`, `OwnOverrides`). What a name finds is the
  first field in any case, so that it finds one at all is the least element of a set (`FindsOne`), and with `CaseTold` it can only be the right one (`FoldKeeps`). `ValuesInductive` says which sources a leaf may have met at each
  stage (`PrecedenceHolds`, `OverridesStayHome`); `WalksAgree` that the second walk meets what the first has passed, with no
  routes left over (`OwnPanicsComeFirst`), whichever hooks panic; `AmbiguousNeverParses` that two sections of one name are always refused.
* **`ConsulCacheProofs`**, for any names, callers, lists, ages and number of faults. What a
  caller holds is in the history of its name only if the same is true of everything it may have
  come from, so `IInv` says it of the registry, the map, the new entries and the answers under way
  (`NodesWereReported`); it needs that a client is busy with a name while it queries or holds
  (`BusyWithName`) and that a link of a caller is to an entry the map has (`LinksAreLive`). One
  lemma per action, one step per conjunct; `ServedNodesWereReported`, `CachedErrorsStayInside`
  and `TypeCorrect` follow. `ClientImplementsDirectory` is the refinement, with one lemma per action on the same
  invariant: an eviction, a merge or a collected answer leaves what has settled settled (`SettledKept`), only a change or a failure, which leaves
  its name in `faults`, unsettles, and its own name only (`SettledButOne`), a hit, a store and an error tell (`Tells`), a return forgets (`Forgets`). `ServedWasReported` is proved on its own
  (`ServedNodesWereReported`) and not run: `Directory` contains it.
* **`MonitorProofs`**, for any reporters, keys, requests, lengths and limits. `NothingLostInside` counts and adds up what waits in a
  channel, so the first part is about sums over sequences: `Total` is a recursive function, `TotalAppend` and `TotalTail` say what
  an element does that enters at the end or leaves at the front, and are proved by induction over the length. The induction is
  over a *set* of numbers (`InductiveSet`, from the least element of its complement), since the library's theorems over a predicate
  cannot be instantiated. `IInv` is `TypeOK`, `WithinBounds` and `NothingLostInside`; the three are
  inductive only together, since the history has natural numbers only because nothing is lost, and the counters are frozen exactly at their
  bound. `Books` is the part about the channels, the maps and the history, with one lemma per action that moves an item;
  `LocalsTyped` the rest. From it: `NothingIsLostInside`, `TypeCorrect`.
* **`RegistrationProofs`**, for any processes, profiles, versions and number of registrations.
  `VersionsAreCompared` shows that the comparison word by word is the one of the numbers.
  `IInv` adds to the properties that a process past a check has passed it (`Checked`) and that a
  check about to be registered fits the profile (`CheckFits`); without them nothing is known of an entry
  at the moment it is put in. `QuietStep` and `ChangeStep` are the two ways a step can treat the catalogue, and
  each action is one of them. `EntriesStayWhole`, `ChecksAlwaysMatch`, `ToldStaysTrue`, `TypeCorrect`.

Only model-checked: the liveness properties `CacheConverges`, `SentEventually`, `ReportersNeverWait`, `EveryoneAnswered`, `CallReturns` and
`TimeoutEndsRequest`, since the prover does not do fairness. Every invariant, action property and refinement of the passing runs is
stated by a theorem.

## 6. Not modelled

* `service/context`: spans, baggage and headers of a third-party tracer around the application's values; no control of its own.
* `service/version`, `service/proxy`, `main.go`: a value read once, an interface nothing implements, a line printed.
* `utils/eval`: a pure expansion of texts, character by character; what is hard in it is the syntax, which the tests of
  the repository go through, and an abstraction of it would leave out just that.
* `utils/log`, `utils/tags`, `utils/ipnet`, `utils/number`, `utils/jsonize`, `utils/gin`, `utils/redis`: formatting and
  straight calls of libraries, without state.
* In modelled components: registration of routes, logging and tracing; keys and sessions of `consul.go` (each is one call of
  the agent); the building of URLs, payloads and headers in `client.go`, and `Addr`, which makes a service anew for each call; the
  runtime metrics of the monitor and the sending itself (one goroutine per flush, no retry, result ignored); embedded
  and pointer sections of a configuration.
* The static list that `DiscoverImpl` asks before consul: it never changes, and when it has the name the consul cache is not asked.
  `InvokeEngine` takes the list of either at every call, of any length in `NodeCounts`.
* A second call of `monitor.Init` (two goroutines on one Go map crash the program) and of `invoke.Init`; overflow of the call counter; circuits
  shared by several calls, whose tickets and statistics are in hystrix.

## 7. Plan

Done: the guard and its quota; the service cache; the engine, with its `Init`; the monitor, with a clock that is set back;
the wrapper over the guard; the client, to the result its caller extracts and the connection it holds;
registration; the configuration. All have proofs; the guard, the cache and the client also an abstract specification that they implement.

What would come next:

1. Several calls on one hystrix command (tickets, the name of the circuit at the first call), added to `InvokeClient`; this is the
   one hazard of the client that no property covers.
2. `Discovery`: the static list and the consul cache behind one `Discover`, against an abstract directory, composed with `InvokeEngine`.
3. An abstract specification of the engine (each name one counter that all goroutines advance) and of the monitor (a ledger), with
   the refinements on the invariants that are proved.
