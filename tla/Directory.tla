----------------------------- MODULE Directory -----------------------------
(***************************************************************************)
(* What a service cache promises to those who ask it, with no cache, no    *)
(* lock, no clock and no query under way: an asker is told the nodes of a  *)
(* service at some time, or nothing. Once a name has settled, which is the *)
(* cache's own doing and takes it some time, askers are told the nodes of  *)
(* now, until the nodes change or a query for them fails. Changes and      *)
(* failures are recorded: a cache that forgets, or that writes old nodes   *)
(* over new ones, has no record to show for a name that is unsettled.      *)
(***************************************************************************)
EXTENDS Sequences

CONSTANTS
    Names,      \* the services
    Askers,
    Lists,      \* the non-empty lists of nodes
    NoNodes,    \* the empty list, and the answer "nothing"
    NotTold     \* an asker without an answer

VARIABLES
    nodes,      \* of each service, now
    past,       \* the lists that each service has had
    faults,     \* the names whose nodes changed or whose query failed, in order
    settled,    \* the names that are answered with the nodes of now
    told        \* what each asker was told, and of which name

vars == <<nodes, past, faults, settled, told>>

NonEmpty(l) == {l} \ {NoNodes}

Init ==
    /\ nodes \in [Names -> Lists \cup {NoNodes}]
    /\ past = [n \in Names |-> NonEmpty(nodes[n])]
    /\ faults = <<>>
    /\ settled = Names
    /\ told = [a \in Askers |-> NotTold]

(* A change of the nodes, or a query that fails, is recorded with its name,  *)
(* and may settle or unsettle that name only.                               *)
MayUnsettle(n) ==
    /\ faults' = Append(faults, n)
    /\ settled' \ {n} = settled \ {n}
    /\ settled' \subseteq Names

Change(n) ==
    /\ \E l \in Lists \cup {NoNodes} :
        /\ nodes' = [nodes EXCEPT ![n] = l]
        /\ past' = [past EXCEPT ![n] = @ \cup NonEmpty(l)]
    /\ MayUnsettle(n)
    /\ UNCHANGED told

Fault(n) ==
    /\ MayUnsettle(n)
    /\ UNCHANGED <<nodes, past, told>>

(* Whatever else a cache does leaves the settled names settled.             *)
Settle == UNCHANGED faults /\ settled \subseteq settled' /\ settled' \subseteq Names

Tell(a, n) ==
    /\ told[a] = NotTold
    /\ \E l \in past[n] \cup {NoNodes} :
        /\ n \in settled => l = nodes[n]
        /\ told' = [told EXCEPT ![a] = [name |-> n, nodes |-> l]]
    /\ Settle
    /\ UNCHANGED <<nodes, past>>

Forget(a) ==
    /\ told[a] # NotTold
    /\ told' = [told EXCEPT ![a] = NotTold]
    /\ UNCHANGED <<nodes, past, faults, settled>>

Next ==
    \/ \E n \in Names : Change(n) \/ Fault(n)
    \/ Settle /\ UNCHANGED <<nodes, past, told>>
    \/ \E a \in Askers : Forget(a) \/ \E n \in Names : Tell(a, n)

Spec == Init /\ [][Next]_vars
=============================================================================
