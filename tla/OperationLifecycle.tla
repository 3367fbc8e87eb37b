------------------------- MODULE OperationLifecycle -------------------------
(***************************************************************************)
(* What the Console promises about the life of a governed operation,       *)
(* whoever executes it: the closed transition table of the domain package  *)
(* and the state version that optimistic callers compare against.  A       *)
(* transaction may commit two transitions at once (Reconciling and then    *)
(* Applied), and the version counts every one of them.                     *)
(***************************************************************************)
EXTENDS Naturals

CONSTANT Operations

VARIABLES
    state,        \* operation -> its state, "None" before it is accepted
    version       \* operation -> state_version

vars == <<state, version>>

States == {"Planned", "Authorized", "Submitted", "Reconciling", "Applied",
           "Verified", "Failed", "Unknown", "RolledBack"}

Transitions ==
    [Planned     |-> {"Authorized", "Failed"},
     Authorized  |-> {"Submitted", "Failed"},
     Submitted   |-> {"Reconciling", "Failed", "Unknown"},
     Reconciling |-> {"Applied", "Failed", "Unknown"},
     Applied     |-> {"Verified", "Failed", "Unknown", "RolledBack"},
     Verified    |-> {"RolledBack"},
     Failed      |-> {"RolledBack"},
     Unknown     |-> {"Reconciling", "Applied", "Verified", "Failed", "RolledBack"},
     RolledBack  |-> {}]

Init ==
    /\ state = [o \in Operations |-> "None"]
    /\ version = [o \in Operations |-> 0]

\* An operation is born awaiting an approval, or authorized.
Create(o) ==
    /\ state[o] = "None"
    /\ \E s \in {"Planned", "Authorized"} : state' = [state EXCEPT ![o] = s]
    /\ UNCHANGED version

Transit(o) ==
    /\ state[o] # "None"
    /\ \E s \in Transitions[state[o]] : state' = [state EXCEPT ![o] = s]
    /\ version' = [version EXCEPT ![o] = @ + 1]

TransitTwice(o) ==
    /\ state[o] # "None"
    /\ \E s \in Transitions[state[o]] : \E t \in Transitions[s] :
          state' = [state EXCEPT ![o] = t]
    /\ version' = [version EXCEPT ![o] = @ + 2]

Next == \E o \in Operations : Create(o) \/ Transit(o) \/ TransitTwice(o)

Spec == Init /\ [][Next]_vars
=============================================================================
