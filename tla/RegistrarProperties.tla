-------------------------- MODULE RegistrarProperties --------------------------
(***************************************************************************)
(* What the registrar promises the holder of a name.  A passive holder is  *)
(* an address that never sends a transaction: what happens to its names is *)
(* what others can do to them.                                             *)
(***************************************************************************)
EXTENDS BaseRegistrar

PassiveHolders == Targets \ (Senders \union {NoAddr, REGISTRAR})

InGrace(id) == expiries[id] <= now /\ ~Available(id) /\ expiries[id] > 0

\* While a registration is in its grace period nobody can move the token, the
\* old holder included: ownerOf() reverts and register() is not yet possible.
GraceFreezesToken ==
    [][\A id \in Names : InGrace(id) => tokenOwner'[id] = tokenOwner[id]]_registrarStateVars

\* A holder who does nothing keeps the token until the grace period is over,
\* whatever approvals earlier holders gave and however boundaries fall.
HolderKeepsToken ==
    [][\A id \in Names :
         tokenOwner[id] \in PassiveHolders /\ ~Available(id)
         => tokenOwner'[id] = tokenOwner[id]]_registrarStateVars

\* As long as the registrar is live, a holder who does nothing and also owns the
\* name in the registry keeps it there too: only the holder can reclaim.
HolderKeepsRecord ==
    [][\A id \in Names :
         /\ Live
         /\ tokenOwner[id] \in PassiveHolders
         /\ records[id].owner \in PassiveHolders
         /\ ~Available(id)
         => records'[id].owner = records[id].owner]_registrarStateVars

\* The owners of a node and of the node above it are all who may write its record.
OwnersAbove(n) == {records[n].owner} \union (IF n = ROOT THEN {} ELSE {records[Parent[n]].owner})

\* Authority over a record comes from its node or from above, and from nowhere else:
\* no chain of approvals, subnode writes, sales and reclaims reaches a record whose
\* node and parent belong to accounts that send nothing and not to the registrar.
\* It holds of each ancestor in turn, so that such a branch stays as it is for good.
ControlledFromAbove ==
    [][\A n \in Nodes :
         OwnersAbove(n) \intersect (Senders \union {REGISTRAR}) = {}
         => records'[n] = records[n]]_registrarStateVars

\* What was paid for is never taken back: no sequence of registrations and
\* renewals brings an expiry forward.
ExpiryNeverShortened ==
    [][\A id \in Names : expiries'[id] >= expiries[id]]_registrarStateVars
================================================================================
