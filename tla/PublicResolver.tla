----------------------------- MODULE PublicResolver -----------------------------
(***************************************************************************)
(* resolvers/PublicResolver.sol with its profiles: records of any node,    *)
(* written by whoever owns the node in the registry or, when that is the   *)
(* wrapper, by whoever owns the token, and by those the owner appointed.   *)
(*                                                                         *)
(* A setter call is a record: the node, a key (the profile and what it is  *)
(* indexed by) and the value, NoValue being the empty string, the empty    *)
(* bytes and zero.  A multicall is a sequence of them.  The controller     *)
(* writes the records of the names it sells in the sale's transaction.     *)
(***************************************************************************)
EXTENDS NameWrapper, ETHRegistrarController, SequencesExt

CONSTANTS
    RESOLVER,               \* the address of this contract
    Trusted,                \* trustedETHController, trustedReverseRegistrar
    Writers,                \* the accounts that call this contract
    CoinTypes, TextKeys, DataKeys, InterfaceIDs,
    ContentTypes,           \* the powers of two: setABI refuses the others
    EVMCoinTypes,           \* ENSIP19.isEVMCoinType
    Values, NoValue,
    AddressValues,          \* the values of 20 bytes
    RecordNodes,            \* the nodes whose records callers write
    WrittenKeys,            \* the keys of the records they write
    RRLists,                \* the lists of DNS resource records callers pass
    DNSNames, RRTypes,
    ZeroType,               \* type 0, which setDNSRecords takes for "none yet"
    Multicalls,             \* the sequences of calls callers pass
    ResolverDelegations,    \* the <<owner, operator>> pairs of setApprovalForAll
    Delegates,              \* the accounts approve() appoints
    MaxVersion, MaxRecords  \* bounds: of clearRecords, of the values stored at once

VARIABLES
    recordVersions,
    stored,                 \* the versionable_* mappings of every profile
    entries,                \* versionable_nameEntriesCount
    resolverOperators,      \* _operatorApprovals
    delegates               \* _tokenApprovals

resolverVars == <<recordVersions, stored, entries, resolverOperators, delegates>>
allVars == <<vars, controllerVars, resolverVars>>

ASSUME ResolverAssumption ==
    /\ RESOLVER \in Resolvers \ {NoAddr}
    /\ CONTROLLER \in Trusted /\ Trusted \subseteq Addresses \ Writers
    /\ Writers \subseteq Addresses \ {NoAddr}
    /\ EVMCoinTypes \subseteq CoinTypes
    /\ NoValue \in Values /\ AddressValues \subseteq Values \ {NoValue}
    /\ RecordNodes \subseteq Nodes
    /\ RRLists \subseteq Seq([name : DNSNames, type : RRTypes, empty : BOOLEAN])
    /\ \A r \in Registrations : r.resolver \in {NoAddr, RESOLVER}

(***************************************************************************)
(* The setters                                                             *)
(***************************************************************************)
Call(n, key, value) == [node |-> n, key |-> key, value |-> value]

SetAddr(n, coinType, value) == Call(n, <<"addr", coinType>>, value)
SetText(n, key, value) == Call(n, <<"text", key>>, value)
SetData(n, key, value) == Call(n, <<"data", key>>, value)
SetABI(n, contentType, value) == Call(n, <<"abi", contentType>>, value)
SetInterface(n, interfaceID, value) == Call(n, <<"interface", interfaceID>>, value)
SetName(n, value) == Call(n, <<"name">>, value)
SetContenthash(n, value) == Call(n, <<"contenthash">>, value)
SetPubkey(n, value) == Call(n, <<"pubkey">>, value)
SetZonehash(n, value) == Call(n, <<"zonehash">>, value)
SetDNSRecords(n, rrs) == Call(n, <<"dns">>, rrs)
ClearRecords(n) == Call(n, <<"clear">>, NoValue)

ValueCalls(n, v) ==
    {SetAddr(n, c, v) : c \in CoinTypes} \union {SetText(n, k, v) : k \in TextKeys}
    \union {SetData(n, k, v) : k \in DataKeys} \union {SetABI(n, c, v) : c \in ContentTypes}
    \union {SetInterface(n, i, v) : i \in InterfaceIDs}
    \union {SetName(n, v), SetContenthash(n, v), SetPubkey(n, v), SetZonehash(n, v)}

CallsOn(n) ==
    (UNION {ValueCalls(n, v) : v \in Values})
    \union {SetDNSRecords(n, rrs) : rrs \in RRLists} \union {ClearRecords(n)}

Calls == UNION {CallsOn(n) : n \in Nodes}
ResolverCalls == {call \in Calls : call.node \in RecordNodes /\ call.key \in WrittenKeys}

\* Callers are Writers, and what they pass are calls; a set of DNS records is not
\* the empty value.
ASSUME CallsAssumption ==
    /\ Multicalls \subseteq Seq(Calls)
    /\ ResolverDelegations \subseteq Writers \X Addresses
    /\ MaxVersion \in Nat
    /\ \A rrs \in RRLists : \A i \in 1 .. Len(rrs), j \in 1 .. Len(rrs) :
          i <= j => SubSeq(rrs, i, j) # NoValue

(***************************************************************************)
(* What a call does to the contract's storage                              *)
(***************************************************************************)
Storage == [versions |-> recordVersions, stored |-> stored, entries |-> entries]

At(db, n, key) == {s \in db.stored : s.version = db.versions[n] /\ s.node = n /\ s.key = key}

Put(db, n, key, value) ==
    [db EXCEPT !.stored =
        (@ \ At(db, n, key))
        \union IF value = NoValue THEN {}
               ELSE {[version |-> db.versions[n], node |-> n, key |-> key, value |-> value]}]

\* Slip: a deletion is counted even if there is nothing to delete.
SetDNSRRSet_CountsAnyway(db, n, name, type, rrs, delete) ==
    LET key == <<"dns", name, type>>
        change == IF delete THEN -1 ELSE IF At(db, n, key) = {} THEN 1 ELSE 0
    IN  [Put(db, n, key, IF delete THEN NoValue ELSE rrs)
            EXCEPT !.entries[n][db.versions[n]][name] = @ + change]

\* One record set: deleted if its first record has no data.
SetDNSRRSet(db, n, name, type, rrs, delete) ==
    LET key == <<"dns", name, type>>
        change == IF delete THEN IF At(db, n, key) = {} THEN 0 ELSE -1
                            ELSE IF At(db, n, key) = {} THEN 1 ELSE 0
    IN  [Put(db, n, key, IF delete THEN NoValue ELSE rrs)
            EXCEPT !.entries[n][db.versions[n]][name] = @ + change]

\* Slip: the offset is not moved on to the next set.
WriteRRs_KeepsOffset(db, n, rrs) ==
    LET Flush(set, last) ==
            SetDNSRRSet(set.db, n, set.rr.name, set.rr.type, SubSeq(rrs, 1, last), set.rr.empty)
        Read(set, i) ==
            IF <<rrs[i].name, rrs[i].type>> # <<set.rr.name, set.rr.type>>
            THEN [rr |-> rrs[i], db |-> Flush(set, i - 1)]
            ELSE set
        start == [rr |-> rrs[1], db |-> db]
    IN  IF rrs = <<>> THEN db ELSE Flush(FoldLeftDomain(Read, start, rrs), Len(rrs))

\* Neighbouring records of one name and type form a set; a set is written when
\* the next one begins, and the last one at the end.  After a record of type 0
\* the next one is taken for the first, and the set still begins where it did.
WriteSet(n, rrs, set, last) ==
    SetDNSRRSet(set.db, n, set.rr.name, set.rr.type, SubSeq(rrs, set.first, last), set.rr.empty)

ReadRR(n, rrs, set, i) ==
    IF set.rr.type = ZeroType THEN [set EXCEPT !.rr = rrs[i]]
    ELSE IF <<rrs[i].name, rrs[i].type>> # <<set.rr.name, set.rr.type>>
    THEN [rr |-> rrs[i], first |-> i, db |-> WriteSet(n, rrs, set, i - 1)]
    ELSE set

WriteRRs(db, n, rrs) ==
    LET Read(set, i) == ReadRR(n, rrs, set, i)
        start == [rr |-> rrs[1], first |-> 1, db |-> db]
    IN  IF rrs = <<>> THEN db
        ELSE WriteSet(n, rrs, FoldLeftDomain(Read, start, rrs), Len(rrs))

\* Slip: a flag is turned instead of a number raised.
NextVersion_Toggles(db, n) == [db EXCEPT !.versions[n] = 1 - @]

\* clearRecords(): nothing is deleted, a new version begins.
NextVersion(db, n) == [db EXCEPT !.versions[n] = @ + 1]

Apply(db, call) ==
    CASE call.key = <<"dns">> -> WriteRRs(db, call.node, call.value)
      [] call.key = <<"clear">> -> NextVersion(db, call.node)
      [] OTHER -> Put(db, call.node, call.key, call.value)

(***************************************************************************)
(* Who may call                                                            *)
(***************************************************************************)
\* ens.owner(node), or the token's owner if that is the wrapper.
NodeOwner(n) == IF Owner(n) = WRAPPER THEN Data(n).owner ELSE Owner(n)

\* Slip: a delegate is the node's, whoever appointed it.
IsAuthorised_AnyOwnersDelegate(n, sender) ==
    \/ sender \in Trusted
    \/ sender = NodeOwner(n)
    \/ <<NodeOwner(n), sender>> \in resolverOperators
    \/ \E owner \in Addresses : <<owner, n, sender>> \in delegates

IsAuthorised(n, sender) ==
    \/ sender \in Trusted
    \/ sender = NodeOwner(n)
    \/ <<NodeOwner(n), sender>> \in resolverOperators
    \/ <<NodeOwner(n), n, sender>> \in delegates

\* An address of an EVM chain is 20 bytes or none.
WellFormed(call) ==
    \A coinType \in EVMCoinTypes :
        call.key = <<"addr", coinType>> => call.value \in AddressValues \union {NoValue}

\* The calls one after the other, all or none.  No call changes who owns what.
Perform(sender, batch) ==
    LET after == FoldLeft(Apply, Storage, batch) IN
    /\ \A i \in 1 .. Len(batch) :
        IsAuthorised(batch[i].node, sender) /\ WellFormed(batch[i])
    /\ \A n \in Nodes : after.versions[n] <= MaxVersion
    /\ Cardinality(after.stored) <= MaxRecords
    /\ recordVersions' = after.versions
    /\ stored' = after.stored
    /\ entries' = after.entries
    /\ UNCHANGED <<resolverOperators, delegates>>

\* bytes32(0), the root's node, asks for no check.
SameNode(nodehash, batch) ==
    nodehash # ROOT => \A i \in 1 .. Len(batch) : batch[i].node = nodehash

(***************************************************************************)
(* The transactions                                                        *)
(***************************************************************************)
Write(sender, call) ==
    /\ Perform(sender, <<call>>)
    /\ UNCHANGED <<vars, controllerVars>>

MulticallWithNodeCheck(sender, nodehash, batch) ==
    /\ SameNode(nodehash, batch)
    /\ Perform(sender, batch)
    /\ UNCHANGED <<vars, controllerVars>>

SetResolverApprovalForAll(sender, operator, approved) ==
    /\ sender # operator
    /\ resolverOperators' = IF approved THEN resolverOperators \union {<<sender, operator>>}
                                        ELSE resolverOperators \ {<<sender, operator>>}
    /\ UNCHANGED <<vars, controllerVars, recordVersions, stored, entries, delegates>>

\* Anybody may appoint a delegate for any node: it counts while he owns the node.
ApproveDelegate(sender, n, delegate, approved) ==
    /\ sender # delegate
    /\ delegates' = IF approved THEN delegates \union {<<sender, n, delegate>>}
                                ELSE delegates \ {<<sender, n, delegate>>}
    /\ UNCHANGED <<vars, controllerVars, recordVersions, stored, entries, resolverOperators>>

\* register() with records for this resolver: the controller passes on what the
\* buyer gave it.  This contract calls nobody back, so the sale is one step.
RegisterWithRecords(r, batch) ==
    /\ r.data
    /\ Consume(r)
    /\ records' = WithRecord(records, r.id, r.owner, r.resolver, NoTTL)
    /\ SameNode(r.id, batch)
    /\ Perform(CONTROLLER, batch)
    /\ MoveToken(r.id, r.owner)
    /\ UNCHANGED <<calls, wrapperVars>>

ResolverInit ==
    /\ recordVersions = [n \in Nodes |-> 0]
    /\ stored = {}
    /\ entries = [n \in Nodes |-> [v \in 0 .. MaxVersion |-> [name \in DNSNames |-> 0]]]
    /\ resolverOperators = {}
    /\ delegates = {}

ResolverStep ==
    \/ \E sender \in Writers :
        \/ \E call \in ResolverCalls : Write(sender, call)
        \/ \E nodehash \in RecordNodes \union {ROOT}, batch \in Multicalls :
            MulticallWithNodeCheck(sender, nodehash, batch)
        \/ \E n \in RecordNodes, delegate \in Delegates, approved \in BOOLEAN :
            ApproveDelegate(sender, n, delegate, approved)
    \/ \E pair \in ResolverDelegations, approved \in BOOLEAN :
        SetResolverApprovalForAll(pair[1], pair[2], approved)

SaleStep ==
    \E r \in Registrations :
        \/ Commit(r) /\ UNCHANGED <<wrapperVars, resolverVars>>
        \/ RegisterPlain(r) /\ UNCHANGED <<wrapperVars, resolverVars>>
        \/ \E batch \in Multicalls : RegisterWithRecords(r, batch)

ResolverNext ==
    \/ ResolverStep
    \/ SaleStep
    \/ Next /\ UNCHANGED <<controllerVars, resolverVars>>

ResolverStart == Init /\ ControllerInit /\ ResolverInit

ResolverSpec == ResolverStart /\ [][ResolverNext]_allVars

(***************************************************************************)
(* Properties                                                              *)
(***************************************************************************)
\* What anybody reads of a node.
Visible(n) == {s \in stored : s.node = n /\ s.version = recordVersions[n]}

\* The records of a node whose owner makes no calls, wrapped or not, stay as they are
\* whatever previous owners, their operators and delegates and the buyers of other
\* names do, unless the name has run out and is sold.
BystandersRecordsStay ==
    [][\A n \in Nodes :
         NodeOwner(n) \notin Writers /\ ~(n \in Names /\ Available(n))
         => Visible(n)' = Visible(n) /\ recordVersions'[n] = recordVersions[n]]_allVars

\* A record that is not read comes back only by being written again: clearing is
\* for good, whatever is written or cleared afterwards.
NothingResurfaces ==
    [][\A n \in Nodes : (Visible(n)' \ Visible(n)) \intersect stored = {}]_allVars

\* hasDNSRecords: the count of a DNS name is the number of its record sets.
EntriesCounted ==
    \A n \in Nodes, v \in 0 .. MaxVersion, dnsName \in DNSNames :
        entries[n][v][dnsName] =
            Cardinality({s \in stored : /\ s.node = n /\ s.version = v
                                        /\ \E type \in RRTypes : s.key = <<"dns", dnsName, type>>})

\* A stored record set consists of records of its own name and type, however the
\* sets of a call follow each other.
SetsHoldTheirOwn ==
    \A s \in stored, dnsName \in DNSNames, type \in RRTypes :
        s.key = <<"dns", dnsName, type>>
        => \A i \in 1 .. Len(s.value) : s.value[i].name = dnsName /\ s.value[i].type = type
================================================================================
