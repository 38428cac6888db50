----------------------------- MODULE NameLifecycle -----------------------------
(***************************************************************************)
(* What the wrapper promises about a name, as the state machine of its     *)
(* documentation: a name is Unregistered, Unwrapped, Wrapped, Emancipated  *)
(* or Locked.  Most moves are free.  The promise is in the others:         *)
(*   - a name becomes Emancipated or Locked only under a Locked parent;    *)
(*   - an Emancipated name never falls back to Wrapped, and only its own   *)
(*     unwrapping or its expiry ends the state;                            *)
(*   - a Locked name leaves that state only by expiring, and no protected  *)
(*     name stays behind when its parent expires.                          *)
(***************************************************************************)
CONSTANTS Nodes, ROOT, Parent, Permanent    \* Permanent: locked from the start, for ever

VARIABLE state

States == {"Unregistered", "Unwrapped", "Wrapped", "Emancipated", "Locked"}
Protected == {"Emancipated", "Locked"}

LifecycleTypeOK == state \in [Nodes -> States]

Init ==
    /\ state \in [Nodes -> {"Unregistered", "Unwrapped", "Locked"}]
    /\ \A n \in Nodes : state[n] = "Locked" <=> n \in Permanent

\* Registering, wrapping, deleting, re-creating, protecting: one call may do
\* several of these to a name its owner, or a parent's owner, still controls.
Control(n, to) ==
    /\ state[n] \notin Protected
    /\ to \in Protected => state[Parent[n]] = "Locked"
    /\ state' = [state EXCEPT ![n] = to]

\* The owner of an emancipated name gives up unwrapping it ...
Lock(n) ==
    /\ state[n] = "Emancipated"
    /\ state' = [state EXCEPT ![n] = "Locked"]

\* ... or unwraps it, keeping it or deleting it.
Release(n, to) ==
    /\ state[n] = "Emancipated"
    /\ to \in {"Unwrapped", "Unregistered"}
    /\ state' = [state EXCEPT ![n] = to]

Expire(names) ==
    /\ \A n \in names : state[n] \in Protected /\ n \notin Permanent
    /\ \A n \in Nodes \ {ROOT} :
        Parent[n] \in names /\ state[n] \in Protected => n \in names
    /\ state' = [n \in Nodes |-> IF n \in names THEN "Unregistered" ELSE state[n]]

Next ==
    \/ \E n \in Nodes \ Permanent, to \in States : Control(n, to)
    \/ \E n \in Nodes : Lock(n)
    \/ \E n \in Nodes, to \in States : Release(n, to)
    \/ \E names \in SUBSET (Nodes \ Permanent) : Expire(names)

Spec == Init /\ [][Next]_state
================================================================================
