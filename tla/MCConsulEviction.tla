-------------------------- MODULE MCConsulEviction --------------------------
(***************************************************************************)
(* ConsulCache with a history of its own: how long ago Discover last       *)
(* returned the nodes of each service.                                     *)
(***************************************************************************)
EXTENDS ConsulCache

VARIABLE unused     \* history: age of the last use of each name

mcVars == <<vars, unused>>

JustUsed ==
    {n \in Names : \E c \in Callers :
        asking[c] = n /\ pc[c] = "holding" /\ pc'[c] = "idle"}

MCInit == Init /\ unused = [n \in Names |-> ZeroR]

MCNext ==
    \/ /\ Tick
       /\ unused' = [n \in Names |-> Older(unused[n], ZeroR)]
    \/ /\ Next /\ ~Tick
       /\ unused' = [n \in Names |-> IF n \in JustUsed THEN 0 ELSE unused[n]]

MCSpec == MCInit /\ [][MCNext]_mcVars

(* No call of Discover for the service has returned its nodes for long. *)
LongUnused(n) == unused[n] > IdleAge

(* A call that is under way may or may not count as a use: an entry that it  *)
(* has just stored, and not stamped yet, is left out of the question.       *)
InCall(n) == \E c \in Callers : asking[c] = n

(* consul.go:411 says what is taken off the automatic refresh: services not *)
(* used for more than three minutes, and so no other.                       *)
OnlyUnusedAreDue ==
    [][del' \subseteq del \cup {n \in Names : LongUnused(n) \/ InCall(n)}]_mcVars
=============================================================================
