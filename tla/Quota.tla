------------------------------- MODULE Quota -------------------------------
(***************************************************************************)
(* What an overload guard promises to the requests that ask it for         *)
(* admission, with no clock and no lock: windows are opened one after the  *)
(* other and never reopened, a window grants at most Limit admissions, and *)
(* a request is turned away only by a window that has granted all of them. *)
(***************************************************************************)
EXTENDS Integers

CONSTANTS
    Clients,    \* the requests that may ask at the same time
    Windows,    \* the windows, a set of integers
    Limit       \* admissions per window

VARIABLES
    window,     \* the window that is open
    granted,    \* admissions of each window
    verdict     \* what each client was told, "none" when it has not asked

vars == <<window, granted, verdict>>

Init ==
    /\ window = 0
    /\ granted = [w \in Windows |-> 0]
    /\ verdict = [c \in Clients |-> "none"]

Grant(c, w) ==
    /\ verdict[c] = "none"
    /\ granted[w] < Limit
    /\ granted' = [granted EXCEPT ![w] = @ + 1]
    /\ verdict' = [verdict EXCEPT ![c] = "admitted"]

GrantInNewWindow(c) ==
    \E w \in Windows :
        /\ w > window
        /\ window' = w
        /\ Grant(c, w)

GrantInWindow(c) ==
    /\ window \in Windows
    /\ Grant(c, window)
    /\ UNCHANGED window

Deny(c) ==
    /\ window \in Windows
    /\ verdict[c] = "none"
    /\ granted[window] = Limit
    /\ verdict' = [verdict EXCEPT ![c] = "denied"]
    /\ UNCHANGED <<window, granted>>

Forget(c) ==
    /\ verdict[c] # "none"
    /\ verdict' = [verdict EXCEPT ![c] = "none"]
    /\ UNCHANGED <<window, granted>>

Next ==
    \E c \in Clients :
        GrantInNewWindow(c) \/ GrantInWindow(c) \/ Deny(c) \/ Forget(c)

Spec == Init /\ [][Next]_vars
=============================================================================
