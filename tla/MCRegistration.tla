--------------------------- MODULE MCRegistration ---------------------------
(* Profiles, each good, with one defect that is refused or one that is not, *)
(* and versions around 1.0.6.                                              *)
EXTENDS Registration

CONSTANTS Url, NoUrl    \* what may be given to check: a url, and no url at all

Http ==
    [type |-> "http", reportable |-> TRUE, name |-> "a", id |-> "1", ip |-> "10",
     reportPort |-> 80, hostPort |-> 81, checkUrl |-> Path, times |-> None]

Grpc == [Http EXCEPT !.type = "grpc"]

Good ==
    {Http, [Http EXCEPT !.checkUrl = Url], [Http EXCEPT !.checkUrl = None], Grpc,
     [Grpc EXCEPT !.reportPort = 0], [Grpc EXCEPT !.name = "b", !.ip = "11"],
     [Http EXCEPT !.id = "2"]}

Refused ==
    {[p EXCEPT !.reportPort = 0, !.hostPort = h] : p \in {Http, Grpc}, h \in {0, BadWord}}
    \cup {[Http EXCEPT !.name = None], [Http EXCEPT !.id = None], [Http EXCEPT !.ip = None],
          [Grpc EXCEPT !.ip = "loopback"], [Grpc EXCEPT !.times = BadWord]}

(* No port, another name of the own host, and nothing that can be checked.  *)
Unnoticed ==
    {[Grpc EXCEPT !.reportPort = 0, !.hostPort = -1], [Http EXCEPT !.reportPort = 99999],
     [Http EXCEPT !.ip = "::1", !.checkUrl = NoUrl]}

MCProfiles == Good \cup Refused \cup Unnoticed
              \cup {[Http EXCEPT !.reportable = FALSE, !.name = "c"]}

MCVersions ==
    {<<BadWord>>, <<0, 9, 9>>, <<1>>, <<1, 0, 5>>, <<1, 0, 6>>, <<1, 1>>,
     <<1, 0, BadWord>>, <<1, 0, 6, BadWord>>, <<2, 0, 5>>}
=============================================================================
