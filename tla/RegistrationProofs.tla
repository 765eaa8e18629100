------------------------- MODULE RegistrationProofs -------------------------
(***************************************************************************)
(* Proofs about Registration, for any processes, profiles, versions of the *)
(* agent and any number of registrations: an entry of the catalogue is one *)
(* registration, whole, with the check that fits it and the agent, and what *)
(* a process was told is true.                                             *)
(***************************************************************************)
EXTENDS Registration, TLAPS

----------------------------------------------------------------------------
(* The agent gets grpc checks exactly when it is of 1.0.6 or newer: the     *)
(* comparison of registerGrpc word by word is the one of the numbers.      *)
LEMMA VersionsAreCompared ==
    ASSUME version \in Versions
    PROVE  NeedsTcp(version) <=> ~IsGrpcAgent
<1> DEFINE va == versionToInts(version)
           vb == GrpcVersion
<1>1. CASE IsBadVersion(version)
  BY <1>1 DEF NeedsTcp, IsGrpcAgent
<1>2. CASE ~IsBadVersion(version)
  <2>1. \A i \in 1 .. 3 : Word(version, i) \in Nat
    <3> SUFFICES ASSUME NEW i \in 1 .. 3 PROVE Word(version, i) \in Nat
      OBVIOUS
    <3>1. version \in Seq(Nat \cup {BadWord})
      BY VersionsAssumption
    <3>2. Word(version, i) \in Nat \cup {BadWord}
      BY <3>1 DEF Word
    <3> QED
      BY <1>2, <3>2 DEF IsBadVersion
  <2>2. /\ Word(version, 1) \in Nat /\ Word(version, 2) \in Nat
        /\ Word(version, 3) \in Nat
    BY <2>1
  <2>3. /\ va[1] = Word(version, 1) /\ va[2] = Word(version, 2)
        /\ va[3] = Word(version, 3)
    BY DEF versionToInts
  <2>4. vb[1] = 1 /\ vb[2] = 0 /\ vb[3] = 6
    BY DEF GrpcVersion
  <2> HIDE DEF va, vb
  <2>5. Lt(va, vb) <=> \/ va[1] < vb[1]
                       \/ va[1] = vb[1] /\ va[2] < vb[2]
                       \/ va[1] = vb[1] /\ va[2] = vb[2] /\ va[3] < vb[3]
    <3>1. \A j \in 1 .. 1 - 1 : FALSE
      OBVIOUS
    <3>2. \A j : j \in 1 .. 2 - 1 <=> j = 1
      OBVIOUS
    <3>3. \A j : j \in 1 .. 3 - 1 <=> j = 1 \/ j = 2
      OBVIOUS
    <3>4. \A j : j \in 1 .. 3 <=> j = 1 \/ j = 2 \/ j = 3
      OBVIOUS
    <3> QED
      BY <3>1, <3>2, <3>3, <3>4 DEF Lt
  <2>6. NeedsTcp(version) <=> Lt(va, vb)
    BY <1>2 DEF NeedsTcp, va, vb
  <2> QED
    BY <1>2, <2>2, <2>3, <2>4, <2>5, <2>6 DEF IsGrpcAgent
<1> QED
  BY <1>1, <1>2

(* The check and the entry that a checked profile leads to. *)
CheckOf(p) ==
    IF p.type = "grpc" THEN GrpcCheck(p, version) ELSE HttpCheck(p)

(* The health check that is made for a profile fits it and the agent.      *)
LEMMA CheckIsGood ==
    ASSUME NEW p \in Profiles, version \in Versions
    PROVE  /\ CheckOf(p) \in Checks
           /\ CheckOf(p) # None
           /\ CheckOf(p).kind = CheckWanted(p)
           /\ CheckOf(p).kind = "grpc" => IsGrpcAgent
           /\ CheckOf(p).at = IF p.type = "http" /\ p.checkUrl \in Given THEN p.checkUrl
                              ELSE Endpoint(p)
           /\ CheckOf(p).kind # "http" => CheckOf(p).at = Endpoint(p)
<1>1. p.type \in {"http", "grpc"}
  BY ProfilesAssumption
<1>2. p.checkUrl \in Given <=> p.checkUrl \notin {None, Path}
  BY DEF Given
<1>3. CASE p.type = "grpc"
  <2>1. CheckOf(p) = [kind |-> CheckWanted(p), at |-> Endpoint(p)]
    BY <1>3, VersionsAreCompared DEF CheckOf, GrpcCheck, CheckWanted
  <2>2. CheckWanted(p) \in {"grpc", "tcp"} /\ (CheckWanted(p) = "grpc" => IsGrpcAgent)
    BY <1>3 DEF CheckWanted
  <2>3. CheckOf(p) \in Checks
    BY <2>1, <2>2 DEF Checks
  <2> QED
    BY <1>3, <2>1, <2>2, <2>3, NoneAssumption
<1>4. CASE p.type = "http"
  <2>1. CASE p.checkUrl = None
    <3>1. CheckOf(p) = [kind |-> "tcp", at |-> Endpoint(p)]
      BY <1>4, <2>1 DEF CheckOf, HttpCheck
    <3>2. CheckOf(p) \in Checks
      BY <3>1 DEF Checks
    <3>3. CheckWanted(p) = "tcp"
      BY <1>4, <2>1 DEF CheckWanted
    <3>4. p.checkUrl \notin Given
      BY <2>1 DEF Given
    <3> QED
      BY <1>4, <3>1, <3>2, <3>3, <3>4, NoneAssumption
  <2>2. CASE p.checkUrl # None
    <3>1. CheckOf(p) = [kind |-> "http",
                        at |-> IF p.checkUrl = Path THEN Endpoint(p) ELSE p.checkUrl]
      BY <1>4, <2>2 DEF CheckOf, HttpCheck
    <3>2. CheckOf(p) \in Checks
      BY <1>2, <2>2, <3>1 DEF Checks
    <3>3. CheckWanted(p) = "http"
      BY <1>4, <2>2 DEF CheckWanted
    <3> QED
      BY <1>2, <1>4, <2>2, <3>1, <3>2, <3>3, NoneAssumption
  <2> QED
    BY <2>1, <2>2
<1> QED
  BY <1>1, <1>3, <1>4

(* The entry that is about to be registered is that of its profile.        *)
LEMMA EntryIsGood ==
    ASSUME IInv, NEW s \in Servers, pc[s] = "register"
    PROVE  /\ EntryOf(s) \in Entries
           /\ profile[s].id \in Ids
           /\ profile[s] \in Profiles /\ profile[s].reportable
           /\ IsAsWanted(EntryOf(s), profile[s])
           /\ EntryOf(s).check.kind = "grpc" => IsGrpcAgent
           /\ \/ EntryOf(s).check.at = EntryOf(s).at
              \/ EntryOf(s).check.kind = "http" /\ EntryOf(s).check.at \in Given
<1> DEFINE p == profile[s]
<1>1. p \in Profiles /\ version \in Versions
  BY DEF IInv, TypeOK
<1>2. p.reportable /\ IsResolved(p)
  BY DEF IInv, Checked
<1>3. check[s] = CheckOf(p)
  BY DEF IInv, CheckFits, CheckOf
<1>4. EntryOf(s) = [name |-> p.name, at |-> Endpoint(p), check |-> CheckOf(p)]
  BY <1>3 DEF EntryOf
<1>5. p.name # None /\ p.id # None
  BY <1>2 DEF IsResolved
<1>6. EntryOf(s) \in Entries
  BY <1>1, <1>4, <1>5, CheckIsGood DEF Entries
<1>7. p.id \in Ids
  BY <1>1, <1>5 DEF Ids
<1> HIDE DEF p
<1>8. IsAsWanted(EntryOf(s), p)
  <2>1. EntryOf(s) # None
    BY <1>6, NoneAssumption
  <2> QED
    BY <1>1, <1>4, <2>1, CheckIsGood DEF IsAsWanted
<1>9. /\ EntryOf(s).check.kind = "grpc" => IsGrpcAgent
      /\ \/ EntryOf(s).check.at = EntryOf(s).at
         \/ EntryOf(s).check.kind = "http" /\ EntryOf(s).check.at \in Given
  <2>1. EntryOf(s).check = CheckOf(p) /\ EntryOf(s).at = Endpoint(p)
    BY <1>4
  <2>2. CASE p.type = "http" /\ p.checkUrl \in Given
    BY <1>1, <2>1, <2>2, CheckIsGood
  <2>3. CASE ~(p.type = "http" /\ p.checkUrl \in Given)
    BY <1>1, <2>1, <2>3, CheckIsGood
  <2> QED
    BY <2>2, <2>3
<1> QED
  BY <1>1, <1>2, <1>6, <1>7, <1>8, <1>9 DEF p

----------------------------------------------------------------------------
(* Init has a profile for each process and nothing in the catalogue. *)
LEMMA Initially == Init => IInv
<1> SUFFICES ASSUME Init PROVE IInv
  OBVIOUS
<1>1. (CHOOSE p \in Profiles : TRUE) \in Profiles
  BY ProfilesAssumption
<1>2. profile \in [Servers -> Profiles]
  BY <1>1 DEF Init
<1>3. TypeOK
  BY <1>2, MaxStartsAssumption DEF Init, TypeOK
<1>4. Checked /\ CheckFits /\ ToldIsTrue
  BY DEF Init, Checked, CheckFits, ToldIsTrue
<1>5. EntriesAreWhole /\ ChecksMatch
  BY DEF Init, EntriesAreWhole, ChecksMatch
<1> QED
  BY <1>3, <1>4, <1>5 DEF IInv

(* The version of the agent stays, and so does what a version means. *)
LEMMA AgentStays ==
    ASSUME version' = version
    PROVE  IsGrpcAgent' <=> IsGrpcAgent
BY DEF IsGrpcAgent, IsBadVersion

(* A step that leaves the catalogue alone leaves its entries right, and     *)
(* what processes were told true, unless it tells one of them something.   *)
LEMMA QuietStep ==
    ASSUME IInv, version' = version, services' = services, lastChange' = lastChange,
           \A s \in Servers :
                pc'[s] \in {"up", "gone"} => pc'[s] = pc[s] /\ profile'[s] = profile[s]
    PROVE  EntriesAreWhole' /\ ChecksMatch' /\ ToldIsTrue'
<1>1. EntriesAreWhole'
  BY AgentStays DEF IInv, EntriesAreWhole, IsAsWanted, CheckWanted
<1>2. ChecksMatch'
  BY AgentStays DEF IInv, ChecksMatch
<1>3. ToldIsTrue'
  <2> SUFFICES ASSUME NEW s \in Servers, NEW i \in Ids,
                      i = profile'[s].id, lastChange'[i] = s
               PROVE  /\ pc'[s] = "up" => IsAsWanted(services[i], profile[s])'
                      /\ pc'[s] = "gone" => services'[i] = None
    BY DEF ToldIsTrue
  <2>1. CASE pc'[s] = "up"
    <3>1. pc[s] = "up" /\ profile'[s] = profile[s]
      BY <2>1
    <3>2. IsAsWanted(services[i], profile[s])
      BY <3>1 DEF IInv, ToldIsTrue
    <3> QED
      BY <2>1, <3>1, <3>2, AgentStays DEF IsAsWanted, CheckWanted
  <2>2. CASE pc'[s] = "gone"
    BY <2>2 DEF IInv, ToldIsTrue
  <2> QED
    BY <2>1, <2>2
<1> QED
  BY <1>1, <1>2, <1>3

(* A process that changes the catalogue puts in what it is about to         *)
(* register, or takes its entry out. What was told to others with the id is *)
(* no longer promised; what was told to the rest still holds.              *)
LEMMA ChangeStep ==
    ASSUME IInv, NEW s \in Servers, version' = version, profile' = profile,
           \/ pc[s] = "register" /\ Change(s, EntryOf(s))
           \/ Change(s, None),
           \A t \in Servers : t # s => pc'[t] = pc[t],
           pc'[s] = "up" => pc[s] = "register" /\ Change(s, EntryOf(s)),
           pc'[s] = "gone" => Change(s, None)
    PROVE  /\ services' \in [Ids -> Entries \cup {None}]
           /\ lastChange' \in [Ids -> Servers \cup {None}]
           /\ EntriesAreWhole' /\ ChecksMatch' /\ ToldIsTrue'
<1> DEFINE id == profile[s].id
<1>1. /\ services \in [Ids -> Entries \cup {None}]
      /\ lastChange \in [Ids -> Servers \cup {None}]
  BY DEF IInv, TypeOK
<1>2. /\ \A i \in Ids : i # id => services'[i] = services[i]
      /\ \A i \in Ids : i # id => lastChange'[i] = lastChange[i]
      /\ \A i \in Ids : i = id => lastChange'[i] = s
  BY <1>1 DEF Change
<1>3. \A i \in Ids : i = id =>
        \/ services'[i] = None
        \/ pc[s] = "register" /\ services'[i] = EntryOf(s)
  BY <1>1 DEF Change
<1>4. /\ services' \in [Ids -> Entries \cup {None}]
      /\ lastChange' \in [Ids -> Servers \cup {None}]
  BY <1>1, EntryIsGood DEF Change
<1>5. EntriesAreWhole'
  <2> SUFFICES ASSUME NEW i \in Ids, services'[i] # None
               PROVE  \E p \in Profiles :
                        p.id = i /\ p.reportable /\ IsAsWanted(services[i], p)'
    BY DEF EntriesAreWhole
  <2>1. PICK p \in Profiles : p.id = i /\ p.reportable /\ IsAsWanted(services'[i], p)
    <3>1. CASE i # id
      BY <1>2, <3>1 DEF IInv, EntriesAreWhole
    <3>2. CASE i = id
      BY <1>3, <3>2, EntryIsGood
    <3> QED
      BY <3>1, <3>2
  <2> QED
    BY <2>1, AgentStays DEF IsAsWanted, CheckWanted
<1>6. ChecksMatch'
  <2> SUFFICES ASSUME NEW i \in Ids, services'[i] # None
               PROVE  /\ services'[i].check.kind = "grpc" => IsGrpcAgent
                      /\ \/ services'[i].check.at = services'[i].at
                         \/ services'[i].check.kind = "http" /\ services'[i].check.at \in Given
    BY AgentStays DEF ChecksMatch
  <2>1. CASE i # id
    BY <1>2, <2>1 DEF IInv, ChecksMatch
  <2>2. CASE i = id
    BY <1>3, <2>2, EntryIsGood
  <2> QED
    BY <2>1, <2>2
<1>7. ToldIsTrue'
  <2> SUFFICES ASSUME NEW t \in Servers, NEW i \in Ids,
                      i = profile'[t].id, lastChange'[i] = t
               PROVE  /\ pc'[t] = "up" => IsAsWanted(services[i], profile[t])'
                      /\ pc'[t] = "gone" => services'[i] = None
    BY DEF ToldIsTrue
  <2>1. CASE t = s
    <3>1. i = id
      BY <2>1
    <3>2. CASE pc'[t] = "up"
      <4>1. pc[s] = "register" /\ services'[i] = EntryOf(s)
        BY <1>1, <2>1, <3>1, <3>2 DEF Change
      <4>2. IsAsWanted(EntryOf(s), profile[s])
        BY <4>1, EntryIsGood
      <4> QED
        BY <2>1, <3>2, <4>1, <4>2, AgentStays DEF IsAsWanted, CheckWanted
    <3>3. CASE pc'[t] = "gone"
      BY <1>1, <2>1, <3>1, <3>3 DEF Change
    <3> QED
      BY <3>2, <3>3
  <2>2. CASE t # s
    <3>1. i # id
      BY <1>2, <2>2
    <3>2. /\ services'[i] = services[i] /\ lastChange[i] = t /\ pc'[t] = pc[t]
          /\ i = profile[t].id
      BY <1>2, <2>2, <3>1
    <3>3. /\ pc[t] = "up" => IsAsWanted(services[i], profile[t])
          /\ pc[t] = "gone" => services[i] = None
      BY <3>2 DEF IInv, ToldIsTrue
    <3> QED
      BY <3>2, <3>3, AgentStays DEF IsAsWanted, CheckWanted
  <2> QED
    BY <2>1, <2>2
<1> QED
  BY <1>4, <1>5, <1>6, <1>7

----------------------------------------------------------------------------
(* One lemma per action. Those that leave the catalogue alone:              *)

(* The facade is no part of what the invariant says.                       *)
LEMMA InitDiscoveryKeeps ==
    ASSUME IInv, NEW s \in Servers, InitDiscovery(s)
    PROVE  IInv'
<1>1. TypeOK'
  BY DEF IInv, TypeOK, InitDiscovery
<1>2. Checked' /\ CheckFits'
  BY DEF IInv, Checked, CheckFits, InitDiscovery
<1>3. EntriesAreWhole' /\ ChecksMatch' /\ ToldIsTrue'
  BY QuietStep DEF InitDiscovery
<1> QED
  BY <1>1, <1>2, <1>3 DEF IInv

(* A process that goes on from here has a profile that passed its check.   *)
LEMMA StartKeeps ==
    ASSUME IInv, NEW s \in Servers, Start(s)
    PROVE  IInv'
<1>1. PICK p \in Profiles :
        /\ profile' = [profile EXCEPT ![s] = p]
        /\ \/ ~p.reportable /\ Told(s, "unreported")
           \/ p.reportable /\ ~IsResolved(p) /\ Told(s, "refused")
           \/ /\ p.reportable /\ IsResolved(p)
              /\ Told(s, IF p.type = "http" /\ facade[s] = None THEN "crashed"
                         ELSE "resolved")
  BY DEF Start, IsReportable
<1>2. /\ pc \in [Servers -> {"down", "resolved", "version", "register", "up", "refused",
                             "unreported", "crashed", "gone"}]
      /\ profile \in [Servers -> Profiles]
  BY DEF IInv, TypeOK
<1>3. /\ profile' \in [Servers -> Profiles]
      /\ profile'[s] = p
      /\ \A t \in Servers : t # s => profile'[t] = profile[t] /\ pc'[t] = pc[t]
  BY <1>1, <1>2 DEF Told
<1>4. /\ pc' \in [Servers -> {"down", "resolved", "version", "register", "up", "refused",
                              "unreported", "crashed", "gone"}]
      /\ pc'[s] \in {"unreported", "refused", "crashed", "resolved"}
      /\ pc'[s] = "resolved" => p.reportable /\ IsResolved(p)
  BY <1>1, <1>2 DEF Told
<1>5. /\ version' = version /\ check' = check /\ facade' = facade
      /\ services' = services /\ lastChange' = lastChange
      /\ pc[s] # "register"
      /\ starts' \in 0 .. MaxStarts
  BY MaxStartsAssumption DEF IInv, TypeOK, Start
<1>6. TypeOK'
  <2>1. \A t \in Servers : pc'[t] = "register" <=> check'[t] # None
    BY <1>3, <1>4, <1>5 DEF IInv, TypeOK
  <2> QED
    BY <1>3, <1>4, <1>5, <2>1 DEF IInv, TypeOK
<1>7. Checked'
  BY <1>3, <1>4 DEF IInv, Checked
<1>8. CheckFits'
  BY <1>3, <1>4, <1>5 DEF IInv, CheckFits
<1>9. EntriesAreWhole' /\ ChecksMatch' /\ ToldIsTrue'
  BY <1>3, <1>4, <1>5, QuietStep
<1> QED
  BY <1>6, <1>7, <1>8, <1>9 DEF IInv

(* A process that goes on from here has an option that passed its check.   *)
LEMMA SubmitKeeps ==
    ASSUME IInv, NEW s \in Servers, Submit(s)
    PROVE  IInv'
<1>1. /\ pc[s] = "resolved"
      /\ profile[s] \in Profiles /\ version \in Versions
      /\ IsResolved(profile[s])
  BY DEF IInv, TypeOK, Checked, Submit
<1>2. /\ UNCHANGED <<facade, version, services, profile, starts, lastChange>>
      /\ \/ Told(s, "crashed") /\ UNCHANGED check
         \/ Told(s, "refused") /\ UNCHANGED check
         \/ /\ Told(s, "version") /\ UNCHANGED check /\ OptionIsGood(profile[s])
            /\ profile[s].type = "grpc"
         \/ /\ Told(s, "register") /\ OptionIsGood(profile[s])
            /\ profile[s].type # "grpc"
            /\ check' = [check EXCEPT ![s] = HttpCheck(profile[s])]
  BY DEF Submit
<1>3. profile[s].type # "grpc" => HttpCheck(profile[s]) = CheckOf(profile[s])
  BY DEF CheckOf
<1>4. CheckOf(profile[s]) \in Checks /\ CheckOf(profile[s]) # None
  BY <1>1, CheckIsGood
<1>5. TypeOK'
  BY <1>1, <1>2, <1>3, <1>4 DEF IInv, TypeOK, Told
<1>6. Checked'
  BY <1>1, <1>2 DEF IInv, TypeOK, Checked, Told
<1>7. CheckFits'
  BY <1>1, <1>2 DEF IInv, TypeOK, CheckFits, Told
<1>8. \A t \in Servers : pc'[t] \in {"up", "gone"} => pc'[t] = pc[t]
  BY <1>1, <1>2 DEF IInv, TypeOK, Told
<1>9. EntriesAreWhole' /\ ChecksMatch' /\ ToldIsTrue'
  BY <1>2, <1>8, QuietStep
<1> QED
  BY <1>5, <1>6, <1>7, <1>9 DEF IInv

(* The version decides on the check that is about to be registered.        *)
LEMMA AskVersionKeeps ==
    ASSUME IInv, NEW s \in Servers, AskVersion(s)
    PROVE  IInv'
<1>1. /\ pc[s] = "version"
      /\ profile[s] \in Profiles /\ version \in Versions
      /\ IsResolved(profile[s]) /\ OptionIsGood(profile[s])
  BY DEF IInv, TypeOK, Checked, AskVersion
<1>2. /\ UNCHANGED <<facade, version, services, profile, starts, lastChange>>
      /\ \/ /\ Told(s, "register")
            /\ check' = [check EXCEPT ![s] = GrpcCheck(profile[s], version)]
         \/ Told(s, "refused") /\ UNCHANGED check
  BY DEF AskVersion
<1>3. profile[s].type = "grpc"
  BY <1>1 DEF IInv, Checked
<1>4. GrpcCheck(profile[s], version) = CheckOf(profile[s])
  BY <1>3 DEF CheckOf
<1>5. CheckOf(profile[s]) \in Checks /\ CheckOf(profile[s]) # None
  BY <1>1, CheckIsGood
<1>6. TypeOK'
  BY <1>1, <1>2, <1>4, <1>5 DEF IInv, TypeOK, Told
<1>7. Checked'
  BY <1>1, <1>2, <1>3 DEF IInv, TypeOK, Checked, Told
<1>8. CheckFits'
  BY <1>1, <1>2, <1>3 DEF IInv, TypeOK, CheckFits, Told
<1>9. \A t \in Servers : pc'[t] \in {"up", "gone"} => pc'[t] = pc[t]
  BY <1>1, <1>2 DEF IInv, TypeOK, Told
<1>10. EntriesAreWhole' /\ ChecksMatch' /\ ToldIsTrue'
  BY <1>2, <1>9, QuietStep
<1> QED
  BY <1>6, <1>7, <1>8, <1>10 DEF IInv

(* Those that may change it:                                                *)

(* An entry is put in, by a call that succeeds or fails.                   *)
LEMMA RegisteredKeeps ==
    ASSUME IInv, NEW s \in Servers, Registered(s)
    PROVE  IInv'
<1>1. /\ pc[s] = "register"
      /\ check' = [check EXCEPT ![s] = None]
      /\ UNCHANGED <<facade, version, profile, starts>>
      /\ \/ Change(s, EntryOf(s)) /\ Told(s, "up")
         \/ Change(s, EntryOf(s)) /\ Told(s, "refused")
         \/ UNCHANGED <<services, lastChange>> /\ Told(s, "refused")
  BY DEF Registered
<1>2. /\ pc' \in [Servers -> {"down", "resolved", "version", "register", "up", "refused",
                              "unreported", "crashed", "gone"}]
      /\ pc'[s] \in {"up", "refused"}
      /\ \A t \in Servers : t # s => pc'[t] = pc[t] /\ check'[t] = check[t]
      /\ check' \in [Servers -> Checks \cup {None}] /\ check'[s] = None
      /\ pc'[s] = "up" => Change(s, EntryOf(s))
  BY <1>1 DEF IInv, TypeOK, Told
<1>3. /\ services' \in [Ids -> Entries \cup {None}]
      /\ lastChange' \in [Ids -> Servers \cup {None}]
      /\ EntriesAreWhole' /\ ChecksMatch' /\ ToldIsTrue'
  <2>1. CASE Change(s, EntryOf(s))
    BY <1>1, <1>2, <2>1, ChangeStep
  <2>2. CASE UNCHANGED <<services, lastChange>> /\ Told(s, "refused")
    <3>1. \A t \in Servers : pc'[t] \in {"up", "gone"} => pc'[t] = pc[t]
      BY <2>2 DEF IInv, TypeOK, Told
    <3> QED
      BY <1>1, <2>2, <3>1, QuietStep DEF IInv, TypeOK
  <2> QED
    BY <1>1, <2>1, <2>2
<1>4. TypeOK'
  <2>1. \A t \in Servers : pc'[t] = "register" <=> check'[t] # None
    BY <1>2 DEF IInv, TypeOK
  <2> QED
    BY <1>1, <1>2, <1>3, <2>1 DEF IInv, TypeOK
<1>5. Checked'
  BY <1>1, <1>2 DEF IInv, Checked
<1>6. CheckFits'
  BY <1>1, <1>2 DEF IInv, CheckFits
<1> QED
  BY <1>3, <1>4, <1>5, <1>6 DEF IInv

(* The entry of the id goes, by a call that succeeds or fails.             *)
LEMMA StopKeeps ==
    ASSUME IInv, NEW s \in Servers, Stop(s)
    PROVE  IInv'
<1>1. /\ pc[s] = "up"
      /\ UNCHANGED <<facade, version, profile, check, starts>>
      /\ \/ Change(s, None) /\ Told(s, "gone")
         \/ Change(s, None) /\ Told(s, "down")
         \/ UNCHANGED <<services, lastChange>> /\ Told(s, "down")
  BY DEF Stop
<1>2. /\ pc' \in [Servers -> {"down", "resolved", "version", "register", "up", "refused",
                              "unreported", "crashed", "gone"}]
      /\ pc'[s] \in {"gone", "down"}
      /\ \A t \in Servers : t # s => pc'[t] = pc[t]
  BY <1>1 DEF IInv, TypeOK, Told
<1>3. /\ services' \in [Ids -> Entries \cup {None}]
      /\ lastChange' \in [Ids -> Servers \cup {None}]
      /\ EntriesAreWhole' /\ ChecksMatch' /\ ToldIsTrue'
  <2>1. CASE Change(s, None)
    BY <1>1, <1>2, <2>1, ChangeStep
  <2>2. CASE UNCHANGED <<services, lastChange>> /\ Told(s, "down")
    <3>1. \A t \in Servers : pc'[t] \in {"up", "gone"} => pc'[t] = pc[t]
      BY <2>2 DEF IInv, TypeOK, Told
    <3> QED
      BY <1>1, <2>2, <3>1, QuietStep DEF IInv, TypeOK
  <2> QED
    BY <1>1, <2>1, <2>2
<1>4. TypeOK'
  <2>1. \A t \in Servers : pc'[t] = "register" <=> check'[t] # None
    BY <1>1, <1>2 DEF IInv, TypeOK
  <2> QED
    BY <1>1, <1>2, <1>3, <2>1 DEF IInv, TypeOK
<1>5. Checked'
  BY <1>1, <1>2 DEF IInv, Checked
<1>6. CheckFits'
  BY <1>1, <1>2 DEF IInv, CheckFits
<1> QED
  BY <1>3, <1>4, <1>5, <1>6 DEF IInv

(* A process that dies leaves its entry.                                   *)
LEMMA DieKeeps ==
    ASSUME IInv, NEW s \in Servers, Die(s)
    PROVE  IInv'
<1>1. /\ Told(s, "down")
      /\ facade' = [facade EXCEPT ![s] = None]
      /\ check' = [check EXCEPT ![s] = None]
      /\ UNCHANGED <<version, profile, starts>>
      /\ \/ pc[s] = "register" /\ Change(s, EntryOf(s))
         \/ UNCHANGED <<services, lastChange>>
  BY DEF Die
<1>2. /\ pc' \in [Servers -> {"down", "resolved", "version", "register", "up", "refused",
                              "unreported", "crashed", "gone"}]
      /\ pc'[s] = "down"
      /\ \A t \in Servers : t # s => pc'[t] = pc[t] /\ check'[t] = check[t]
      /\ check' \in [Servers -> Checks \cup {None}] /\ check'[s] = None
  BY <1>1 DEF IInv, TypeOK, Told
<1>3. /\ services' \in [Ids -> Entries \cup {None}]
      /\ lastChange' \in [Ids -> Servers \cup {None}]
      /\ EntriesAreWhole' /\ ChecksMatch' /\ ToldIsTrue'
  <2>1. CASE pc[s] = "register" /\ Change(s, EntryOf(s))
    BY <1>1, <1>2, <2>1, ChangeStep
  <2>2. CASE UNCHANGED <<services, lastChange>>
    <3>1. \A t \in Servers : pc'[t] \in {"up", "gone"} => pc'[t] = pc[t]
      BY <1>2
    <3> QED
      BY <1>1, <2>2, <3>1, QuietStep DEF IInv, TypeOK
  <2> QED
    BY <1>1, <2>1, <2>2
<1>4. TypeOK'
  <2>1. \A t \in Servers : pc'[t] = "register" <=> check'[t] # None
    BY <1>2 DEF IInv, TypeOK
  <2> QED
    BY <1>1, <1>2, <1>3, <2>1 DEF IInv, TypeOK
<1>5. Checked'
  BY <1>1, <1>2 DEF IInv, Checked
<1>6. CheckFits'
  BY <1>1, <1>2 DEF IInv, CheckFits
<1> QED
  BY <1>3, <1>4, <1>5, <1>6 DEF IInv

(* A step that changes nothing.                                             *)
LEMMA StutterKeeps ==
    ASSUME IInv, UNCHANGED vars
    PROVE  IInv'
<1>1. TypeOK' /\ Checked' /\ CheckFits'
  BY DEF vars, IInv, TypeOK, Checked, CheckFits
<1>2. EntriesAreWhole' /\ ChecksMatch' /\ ToldIsTrue'
  BY QuietStep DEF vars
<1> QED
  BY <1>1, <1>2 DEF IInv

(* Every step of a process keeps the invariant.                            *)
LEMMA NextKeepsIInv == IInv /\ [Next]_vars => IInv'
<1> SUFFICES ASSUME IInv, [Next]_vars PROVE IInv'
  OBVIOUS
<1>1. ASSUME NEW s \in Servers, Serve(s) PROVE IInv'
  <2>1. CASE InitDiscovery(s)
    BY <2>1, InitDiscoveryKeeps
  <2>2. CASE Start(s)
    BY <2>2, StartKeeps
  <2>3. CASE Submit(s)
    BY <2>3, SubmitKeeps
  <2>4. CASE AskVersion(s)
    BY <2>4, AskVersionKeeps
  <2>5. CASE Registered(s)
    BY <2>5, RegisteredKeeps
  <2>6. CASE Stop(s)
    BY <2>6, StopKeeps
  <2>7. CASE Die(s)
    BY <2>7, DieKeeps
  <2> QED
    BY <1>1, <2>1, <2>2, <2>3, <2>4, <2>5, <2>6, <2>7 DEF Serve
<1> QED
  BY <1>1, StutterKeeps DEF Next

----------------------------------------------------------------------------
(* The invariant holds of every behaviour, and each property is part of it. *)
THEOREM Inductive == Spec => []IInv
BY Initially, NextKeepsIInv, PTL DEF Spec

(* A process about to register has a health check, and the catalogue has    *)
(* well-formed entries.                                                    *)
THEOREM TypeCorrect == Spec => []TypeOK
<1>1. IInv => TypeOK
  BY DEF IInv
<1> QED
  BY Inductive, <1>1, PTL

(* An entry is one registration, whole, of a profile that is to be reported, *)
(* whatever has become of the process that asked for it.                   *)
THEOREM EntriesStayWhole == Spec => []EntriesAreWhole
<1>1. IInv => EntriesAreWhole
  BY DEF IInv
<1> QED
  BY Inductive, <1>1, PTL

(* Grpc checks are only asked of agents that have them, and a check is at   *)
(* the endpoint of its entry.                                              *)
THEOREM ChecksAlwaysMatch == Spec => []ChecksMatch
<1>1. IInv => ChecksMatch
  BY DEF IInv
<1> QED
  BY Inductive, <1>1, PTL

(* What a process was told of its registration is true until another        *)
(* process uses its id.                                                    *)
THEOREM ToldStaysTrue == Spec => []ToldIsTrue
<1>1. IInv => ToldIsTrue
  BY DEF IInv
<1> QED
  BY Inductive, <1>1, PTL
=============================================================================
