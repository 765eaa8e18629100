---------------------------- MODULE Registration ----------------------------
(***************************************************************************)
(* How server processes put themselves into the catalogue of the consul    *)
(* agent and take themselves out: RegisterServerWithProfile and its grpc   *)
(* twin of utils/discovery, the facade service/discovery, Register and     *)
(* Unregister of helper/consul. The arguments are checked in two places,   *)
(* by the profile and by the option; a grpc server first asks the agent    *)
(* for its version.                                                        *)
(*                                                                         *)
(* Processes start, stop, die and start again, may share an id (a service  *)
(* that has moved), and a call of the agent may fail before or after it    *)
(* took effect. The look-up of the old endpoints of an http server only    *)
(* logs, and changes nothing but that it needs the facade.                 *)
(***************************************************************************)
EXTENDS Integers, Sequences

CONSTANTS
    Servers,    \* the server processes
    Profiles,   \* the profile.Service values they may start with
    Versions,   \* what the agent may say its version is: sequences of words
    BadWord,    \* a word that is not a number
    Path,       \* a check url that is a path of the server: it begins with "/"
    None,       \* an empty string; no entry, no server, a nil facade
    MaxStarts   \* bound: the registrations asked for

ASSUME VersionsAssumption ==
    /\ BadWord \notin Int
    /\ Versions \subseteq Seq(Nat \cup {BadWord})
ASSUME ProfilesAssumption ==
    /\ Profiles # {}
    /\ \A p \in Profiles : p.type \in {"http", "grpc"}
ASSUME MaxStartsAssumption == MaxStarts \in Nat

Ids == {p.id : p \in Profiles} \ {None}

(* What is given to check that is no path: a complete url, or any word.     *)
Given == {p.checkUrl : p \in Profiles} \ {None, Path}

VARIABLES
    facade,     \* defaultDiscovery of each process: nil, or what it can do
    version,    \* the version of the agent
    services,   \* the catalogue of the agent: the entry of each id
    pc,         \* what each process is doing or was told
    profile,    \* what it was started with
    check,      \* the health check it is about to register
    starts,     \* registrations asked for so far
    lastChange  \* history: the last process that changed the entry of an id

vars == <<facade, version, services, pc, profile, check, starts, lastChange>>

Init ==
    /\ facade = [s \in Servers |-> None]
    /\ version \in Versions
    /\ services = [i \in Ids |-> None]
    /\ pc = [s \in Servers |-> "down"]
    /\ profile \in [Servers -> {CHOOSE p \in Profiles : TRUE}]
    /\ check = [s \in Servers |-> None]
    /\ starts = 0
    /\ lastChange = [i \in Ids |-> None]

----------------------------------------------------------------------------
(* The versions: up to three words are looked at, missing ones are zero.    *)

Word(v, i) == IF i <= Len(v) THEN v[i] ELSE 0
IsBadVersion(v) == \E i \in 1 .. 3 : Word(v, i) = BadWord
versionToInts(v) == [i \in 1 .. 3 |-> Word(v, i)]

(* A slip: one smaller word decides, whatever is before it. *)
LtAnyWord(va, vb) == \E i \in 1 .. 3 : va[i] < vb[i]

Lt(va, vb) ==
    \E i \in 1 .. 3 : va[i] < vb[i] /\ \A j \in 1 .. i - 1 : va[j] = vb[j]

GrpcVersion == <<1, 0, 6>>

(* A slip: a version that cannot be read passes for a new one. *)
NeedsTcpIfRead(v) == ~IsBadVersion(v) /\ Lt(versionToInts(v), GrpcVersion)

(* An old agent, or one whose version cannot be read, gets a tcp check. *)
NeedsTcp(v) == IsBadVersion(v) \/ Lt(versionToInts(v), GrpcVersion)

----------------------------------------------------------------------------
(* The arguments: checkAndResolveProfile, then checkAndDefaultOption.      *)

(* ReportPort when it is positive, or else the port of Host, which may be   *)
(* missing or not a number, both a BadWord, and else is any integer.       *)
Port(p) == IF p.reportPort > 0 THEN p.reportPort ELSE p.hostPort

(* The argument is refused while it is a profile: "loopback" stands for     *)
(* localhost and what begins with 127.0.0, as other names of the own host   *)
(* do not; of the port only that it is one is looked at ...                *)
IsResolved(p) ==
    /\ None \notin {p.name, p.id, p.ip}
    /\ p.ip # "loopback"
    /\ Port(p) # BadWord

(* ... or when it has become an option. Empty times get defaults. *)
OptionIsGood(p) ==
    /\ None \notin {p.name, p.id, p.ip}
    /\ Port(p) # 0
    /\ p.times # BadWord

(* A slip: the flag is not looked at. *)
ReportsAll(p) == TRUE

(* A server is registered only if its profile says so. *)
IsReportable(p) == p.reportable

Endpoint(p) == [ip |-> p.ip, port |-> Port(p)]

(* A slip: what was given is passed on, a path as well. *)
HttpCheckAsGiven(p) ==
    IF p.checkUrl = None THEN [kind |-> "tcp", at |-> Endpoint(p)]
    ELSE [kind |-> "http", at |-> p.checkUrl]

(* With no url the check is a tcp one; a path is one of the own endpoint;   *)
(* anything else is passed on as it is, be it a url or not.                *)
HttpCheck(p) ==
    IF p.checkUrl = None THEN [kind |-> "tcp", at |-> Endpoint(p)]
    ELSE [kind |-> "http", at |-> IF p.checkUrl = Path THEN Endpoint(p) ELSE p.checkUrl]

GrpcCheck(p, v) ==
    [kind |-> IF NeedsTcp(v) THEN "tcp" ELSE "grpc", at |-> Endpoint(p)]

EntryOf(s) ==
    [name |-> profile[s].name, at |-> Endpoint(profile[s]), check |-> check[s]]

----------------------------------------------------------------------------
Told(s, what) == pc' = [pc EXCEPT ![s] = what]

(* discovery.Init with some of its functions, perhaps not for the first     *)
(* time.                                                                   *)
InitDiscovery(s) ==
    /\ pc[s] # "crashed"
    /\ \E functions \in SUBSET {"register", "unregister"} :
        facade' = [facade EXCEPT ![s] = functions]
    /\ UNCHANGED <<version, services, pc, profile, check, starts, lastChange>>

(* RegisterServerWithProfile or RegisterGrpcServerWithProfile up to the     *)
(* call of Register. Only the http one calls Discover before.              *)
Start(s) ==
    /\ pc[s] \in {"down", "gone", "refused", "unreported"}
    /\ starts < MaxStarts
    /\ starts' = starts + 1
    /\ \E p \in Profiles :
        /\ profile' = [profile EXCEPT ![s] = p]
        /\ \/ ~IsReportable(p) /\ Told(s, "unreported")
           \/ IsReportable(p) /\ ~IsResolved(p) /\ Told(s, "refused")
           \/ /\ IsReportable(p) /\ IsResolved(p)
              /\ Told(s, IF p.type = "http" /\ facade[s] = None THEN "crashed"
                         ELSE "resolved")
    /\ UNCHANGED <<facade, version, services, check, lastChange>>

(* discovery.Register and Client.Register up to the first call of the agent.*)
Submit(s) ==
    /\ pc[s] = "resolved"
    /\ \/ /\ facade[s] = None
          /\ Told(s, "crashed") /\ UNCHANGED check
       \/ /\ facade[s] # None
          /\ "register" \notin facade[s] \/ ~OptionIsGood(profile[s])
          /\ Told(s, "refused") /\ UNCHANGED check
       \/ /\ facade[s] # None /\ "register" \in facade[s] /\ OptionIsGood(profile[s])
          /\ IF profile[s].type = "grpc"
             THEN Told(s, "version") /\ UNCHANGED check
             ELSE /\ Told(s, "register")
                  /\ check' = [check EXCEPT ![s] = HttpCheck(profile[s])]
    /\ UNCHANGED <<facade, version, services, profile, starts, lastChange>>

(* registerGrpc asks the agent for its version, which may fail. *)
AskVersion(s) ==
    /\ pc[s] = "version"
    /\ \/ /\ Told(s, "register")
          /\ check' = [check EXCEPT ![s] = GrpcCheck(profile[s], version)]
       \/ Told(s, "refused") /\ UNCHANGED check
    /\ UNCHANGED <<facade, version, services, profile, starts, lastChange>>

(* A change of the agent's catalogue, with a note of who asked for it. *)
Change(s, entry) ==
    /\ services' = [services EXCEPT ![profile[s].id] = entry]
    /\ lastChange' = [lastChange EXCEPT ![profile[s].id] = s]

(* ServiceRegister puts the entry over that of the id. The process may be   *)
(* told of a failure although the agent has taken the entry.               *)
Registered(s) ==
    /\ pc[s] = "register"
    /\ \/ Change(s, EntryOf(s)) /\ Told(s, "up")
       \/ Change(s, EntryOf(s)) /\ Told(s, "refused")
       \/ UNCHANGED <<services, lastChange>> /\ Told(s, "refused")
    /\ check' = [check EXCEPT ![s] = None]
    /\ UNCHANGED <<facade, version, profile, starts>>

(* Unregister, when a server that is registered stops: it may lack the      *)
(* function, and the agent may fail as before.                             *)
Stop(s) ==
    /\ pc[s] = "up"
    /\ \/ /\ "unregister" \in facade[s]
          /\ Change(s, None)
          /\ Told(s, "gone") \/ Told(s, "down")
       \/ UNCHANGED <<services, lastChange>> /\ Told(s, "down")
    /\ UNCHANGED <<facade, version, profile, check, starts>>

(* A process may die at any time, and come up with nothing; what it asked   *)
(* of the agent may still happen.                                          *)
Die(s) ==
    /\ pc[s] # "down"
    /\ \/ pc[s] = "register" /\ Change(s, EntryOf(s))
       \/ UNCHANGED <<services, lastChange>>
    /\ Told(s, "down")
    /\ facade' = [facade EXCEPT ![s] = None]
    /\ check' = [check EXCEPT ![s] = None]
    /\ UNCHANGED <<version, profile, starts>>

Serve(s) ==
    \/ InitDiscovery(s) \/ Start(s) \/ Submit(s) \/ AskVersion(s) \/ Registered(s)
    \/ Stop(s) \/ Die(s)

Next == \E s \in Servers : Serve(s)

Spec == Init /\ [][Next]_vars

----------------------------------------------------------------------------
(* The variables have their types, and a process about to register has a    *)
(* health check for what it was started with: consul.go:108-126, 150-163.  *)
Checks ==
    [kind : {"tcp", "http", "grpc"}, at : {Endpoint(p) : p \in Profiles} \cup Given]

Entries ==
    [name : {p.name : p \in Profiles} \ {None},
     at : {Endpoint(p) : p \in Profiles}, check : Checks]

ASSUME NoneAssumption == None \notin Entries \cup Checks \cup {Path}
ASSUME GivenAssumption == \A p \in Profiles : Endpoint(p) \notin Given

TypeOK ==
    /\ facade \in [Servers -> (SUBSET {"register", "unregister"}) \cup {None}]
    /\ version \in Versions
    /\ services \in [Ids -> Entries \cup {None}]
    /\ pc \in [Servers -> {"down", "resolved", "version", "register", "up", "refused",
                           "unreported", "crashed", "gone"}]
    /\ profile \in [Servers -> Profiles]
    /\ check \in [Servers -> Checks \cup {None}]
    /\ \A s \in Servers : pc[s] = "register" <=> check[s] # None
    /\ starts \in 0 .. MaxStarts
    /\ lastChange \in [Ids -> Servers \cup {None}]

(* consul.go:52 says that grpc needs an agent of 1.0.6 or newer: an entry   *)
(* has a grpc check only then, and the check of an entry, unless it is an   *)
(* http one of what was given, is at the entry's own endpoint. That what    *)
(* was given is a url is nobody's concern.                                 *)
IsGrpcAgent ==
    LET major == Word(version, 1)  minor == Word(version, 2)  patch == Word(version, 3)
    IN  /\ ~IsBadVersion(version)
        /\ \/ major > 1
           \/ major = 1 /\ minor > 0
           \/ major = 1 /\ patch >= 6

ChecksMatch ==
    \A i \in Ids : services[i] # None =>
        /\ services[i].check.kind = "grpc" => IsGrpcAgent
        /\ \/ services[i].check.at = services[i].at
           \/ services[i].check.kind = "http" /\ services[i].check.at \in Given

CheckWanted(p) ==
    IF p.type = "grpc" THEN IF IsGrpcAgent THEN "grpc" ELSE "tcp"
    ELSE IF p.checkUrl = None THEN "tcp" ELSE "http"

IsAsWanted(entry, p) ==
    /\ entry # None
    /\ entry.name = p.name
    /\ entry.at = Endpoint(p)
    /\ entry.check.kind = CheckWanted(p)
    /\ entry.check.at = IF p.type = "http" /\ p.checkUrl \in Given THEN p.checkUrl
                        ELSE Endpoint(p)

(* An entry is one registration, whole: name, endpoint and health check are *)
(* those of one and the same profile, with the id and to be reported. It is *)
(* so too when the process was told of a failure, has started again with    *)
(* something else since, or has died, and when others used the id between   *)
(* its steps: there is no entry of parts, and none of a server that asked   *)
(* for none.                                                               *)
EntriesAreWhole ==
    \A i \in Ids : services[i] # None =>
        \E p \in Profiles : p.id = i /\ p.reportable /\ IsAsWanted(services[i], p)

(* A process that was told it is registered is in the catalogue as its      *)
(* profile says, with a grpc check if it wants one and the agent has it,    *)
(* until somebody with the same id registers or unregisters; one that was   *)
(* told it is unregistered is out of the catalogue until then. It does not  *)
(* matter what others were refused, failed at or died of meanwhile.        *)
ToldIsTrue ==
    \A s \in Servers : \A i \in Ids : i = profile[s].id /\ lastChange[i] = s =>
        /\ pc[s] = "up" => IsAsWanted(services[i], profile[s])
        /\ pc[s] = "gone" => services[i] = None

(* What makes them inductive. A process that is past a check has passed it, *)
Checked ==
    \A s \in Servers :
        /\ pc[s] \in {"resolved", "version", "register"} =>
                profile[s].reportable /\ IsResolved(profile[s])
        /\ pc[s] \in {"version", "register"} => OptionIsGood(profile[s])
        /\ pc[s] = "version" => profile[s].type = "grpc"

(* and one about to register has the check of its profile.                  *)
CheckFits ==
    \A s \in Servers : pc[s] = "register" =>
        check[s] = IF profile[s].type = "grpc" THEN GrpcCheck(profile[s], version)
                   ELSE HttpCheck(profile[s])

IInv ==
    /\ TypeOK
    /\ Checked
    /\ CheckFits
    /\ EntriesAreWhole
    /\ ChecksMatch
    /\ ToldIsTrue
=============================================================================
