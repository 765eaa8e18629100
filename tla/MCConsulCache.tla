--------------------------- MODULE MCConsulCache ---------------------------
(* Model-checking module of ConsulCache. *)
EXTENDS ConsulCache

(* At first every service has nodes, and no two have the same. *)
MCInit ==
    /\ Init
    /\ \A n \in Names : registry[n] # NoHosts
    /\ \A n, m \in Names : n # m => registry[n] # registry[m]

MCFairSpec == MCInit /\ [][Next]_vars /\ Fairness
=============================================================================
