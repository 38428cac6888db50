# ENS contracts in TLA+

Specifications, model checks and machine-checked proofs for this repository: the
contracts (a name registry, the registrar that sells `.etn` names, its controller,
the wrapper that turns names into tokens with fuses, the resolver) and the
TypeScript pipeline that deploys and wires them on a network.

**On chain** a transaction is atomic, so at first sight there is little to
interleave. The difficulty is elsewhere: the same name is recorded in up to three
contracts (registry, registrar, wrapper), each with its own owner, operators,
approvals and expiry; every account may call every entry point in any order and
at any time; and three of the boundaries between "yours", "frozen" and "free
again" are comparisons with the block's timestamp. What one contract promises
rests on sequences of calls to the others.

**The pipeline** is the opposite: one process, one statement after another, and
each statement that writes is final. It is 38 scripts long, its operator is told
to run it again when it fails, and what a second run does depends on what the
first one had recorded, had sent and had not come to. In between the process may
die, the node may refuse, somebody may register a name the pipeline wants, and the
signers of a multisig may not have signed yet.

**Off chain** is a third place: records signed in the DNS, submitted by anybody and
in any order, and gateways nobody trusts, whose answers come back in rounds.

## 1. Inventory

### Contracts

Paths are below `src/contracts/`.

| part | state | operations | interacts with | what makes it correct |
|---|---|---|---|---|
| **registry** `registry/ENSRegistry.sol` | owner, resolver, TTL of every node; operators | set owner, subnode owner, record, subnode record, resolver, TTL, approval | called by all the others | a record changes only by authority over it or over a node above it |
| **base registrar** `ethregistrar/BaseRegistrarImplementation.sol` | expiry per name, an ERC721 token per name, controllers | register, registerOnly, renew, reclaim, controllers, TLD resolver, token transfers and approvals | writes the registry; called by controllers and the wrapper | a paid registration and its grace period are respected by everybody |
| **controller** `ethregistrar/ETHRegistrarController.sol` | commitments, funds | commit, register, renew, withdraw | registrar, registry, oracle, reverse registrars, a resolver of the buyer's choice | nobody overtakes a purchase; nothing stays behind in the contract |
| **name wrapper** `wrapper/NameWrapper.sol`, `wrapper/ERC1155Fuse.sol` | owner, fuses, expiry per node, approvals, operators, controllers, upgrade contract, labels | wrap and unwrap (`.etn` and other names), renew, fuses, expiries, subnames, records, transfers, upgrade | owns names in registry and registrar | the fuses: what was given up stays so, an emancipated name is out of its parent's reach |
| **renewal helpers** `ethregistrar/*Renewal*.sol` | funds | quote, renew one, renew many, withdraw | controller, wrapper, oracle | all or nothing, exact refunds |
| **price oracles** `ethregistrar/*PriceOracle.sol`, `OwnedUsdOracle.sol` | the USD answer | price, premium, its inverse; set the answer | controller, owner | premium falls to zero when it says it does |
| security controllers `ethregistrar/RegistrarSecurityController.sol`, `root/RootSecurityController.sol` | owner | disable controllers, disable a TLD | registrar, root | emergency powers only |
| **root** `root/` | owner, controllers, locked TLDs | create TLDs, lock, disable | registry, DNS registrar | a locked TLD stays |
| public resolver `resolvers/` | records per node and version, delegates, operators | set records, clear, multicall, approve | reads registry and wrapper | only the present owner and its delegates write |
| reverse registrars `reverseRegistrar/` and resolvers `reverseResolver/` | a name per address | claim, set by owner, operator or signature | registry, contracts' `owner()` | a name is set only for whom it speaks |
| **DNS registrar** `dnsregistrar/`, DNSSEC oracle `dnssec-oracle/` | inception per node; trust anchors, algorithms | prove and claim, enable a suffix; verify a chain | registry, root, public suffix list | a claim is never older than the last |
| **CCIP batch gateway** `ccipRead/`, universal resolver `universalResolver/` | none on chain; a batch carried through callbacks | batch, callback rounds, resolve | untrusted gateways | each answer goes to its own lookup |
| fallback registry, FIFS registrars `registry/` | an older registry | views | registry | migrated names are read from the new one |
| migration helper, pure helpers `utils/` | migration target | batches of transfers; encodings | registrar, wrapper | all or nothing |

Where it is hard: approvals and operators that outlive the owner who gave them;
grace periods; a renewal that one contract sees and another does not; tokens left
behind after an expiry or a deletion; a parent and a subname with separate
expiries; a callback in the middle of a purchase; batches; times that wrap around;
prices that move between a quote and a payment; gateways that answer anything.

### Deployment

Paths are below `src/`.

| part | state | operations | interacts with | what makes it correct |
|---|---|---|---|---|
| **runner** (rocketh, a dependency; `rocketh.ts`) | records of deployed contracts with their arguments, scripts that returned `true` | deploy unless recorded with the same arguments, run the scripts a tag selects, stop at the first error | every script, the node | a rerun takes up where the last run stopped |
| **registry, DNSSEC, root and DNS scripts** `deploy/registry`, `dnssec-oracle`, `root`, `dnsregistrar` | the contracts' ownership and wiring | deploy, hand over, set the root, TLDs and algorithms | contracts, runner | the root belongs to `Root`, `Root` to the owner account |
| **set TLDs** `deploy/dnsregistrar/20_set_tlds.ts` | a cursor shared by workers, the results, how far batches were sent | ask for every suffix's owner with retries, enable in batches | public suffix list, rate-limited node, `DNSRegistrar` | every suffix on the list ends with the current registrar |
| **registrar scripts** `deploy/ethregistrar` | controllers of the registrar, oracle, names registered at launch | deploy, grant and revoke a temporary role, register names, set their resolver, hand them over | security controller, resolver | nobody keeps a role it was lent; a name handed over resolves |
| **resolver, reverse, wrapper and utility scripts** `deploy/resolvers`, `reverseregistrar`, `reverseresolver`, `wrapper`, `utils` | resolvers, reverse nodes, metadata service | deploy, set default resolvers, add controllers | all of the above | addresses stay, wiring is complete |
| **shared and L2 scripts** `deploy/utils/shared`, `deploy/l2` | keyless signers, a Safe's nonce and queue, a file of pending proposals | pre-signed transactions with a fallback, propose, execute, wait | node, Safe signers | no money is stranded; one proposal is not made twice |
| **verification** `scripts/verify-deployment.ts` | readings kept between transactions | read the wiring; buy and renew a name; double the oracle and put it back; withdraw | the live system | notices what a run has left out, raises no false alarm, undoes what it does |
| tasks `tasks/`, other scripts | none | transfer a name, create a Safe, save records, lists | contracts | short sequences of an operator |
| configuration `hardhat.config.ts`, `rocketh.ts` | none | networks, tags, accounts | runner | |

Where it is hard: an interruption between two statements of a script whose next
run takes another path; arguments of a recorded contract that change between runs;
a role lent and not returned; names taken by others between a read and a write;
nodes that reject transactions signed for every chain; workers that share a cursor
across awaits; rate limits; anybody enabling the same suffix at the same time; a
drill on the live system that is cut in the middle.

`PROJECT.json` lists each hazard at its line with the property that covers it, or why
none does yet.

## 2. Modules

    ENSRegistry
      +-- BaseRegistrar ------------ RegistrarProperties -- RegistrarProofs
            |                          +-- MCBaseRegistrar
            +-- ETHRegistrarController -- MCController
            +-- NameWrapper -------- WrapperProperties (INSTANCE NameLifecycle)
                                       +-- MCNameWrapper
    NameWrapper + ETHRegistrarController -- PublicResolver -- MCPublicResolver
    WrapperProperties + PublicResolver -- WrapperProofs (with RegistrarProofs)
    ETHRegistrarController + PriceOracle -- Market -- MCMarket
                                              +-- Verification -- MCVerification
                                                    +-- ControllerProofs (with RegistrarProofs)
    ENSRegistry -- Root -- DNSRegistrar -- DNSRegistrarProperties -- DNSProofs
                                             +-- MCDNSRegistrar

    CCIPBatcher -- BatchSession -- BatchProperties (INSTANCE OffchainLookupSession)
                                     +-- BatchProofs
                                     +-- MCBatchSession

    Deployment
      +-- RootScripts -------+
      +-- RegistrarScripts --+
      +-- ResolverScripts ---+-- Rollout -- RolloutProperties -- MCRollout
      +-- SharedScripts -----+                               +-- RolloutProofs -- AddressProofs

    SetTlds -- SetTldsProofs
      +-- MCSetTlds

Each line extends the one above it, and so composes the contracts: a module's
`Next` contains the transactions of the contracts below it.

**ENSRegistry.** `records` and `operators` are the two mappings. A node is an
element of a bounded tree `Nodes` with a `Parent`; a hash never collides. Every
write exists twice: as an operator on a value of the table (`WithOwner`,
`WithRecord`, ...), which other contracts' actions compose, and as a transaction
(`SetOwner`, `SetSubnodeRecord`, ...).

**BaseRegistrar.** `now` is `block.timestamp`; `Tick` is a later block. A token id
is the node below `ETN`. `tokenOwner`, `tokenApproved`, `tokenOperators` belong
to OpenZeppelin's ERC721, which is not in the repository and is modelled from its
use: `MoveToken` is `_mint` after `_burn`, and `_transfer`. The repository's
override of `_isApprovedOrOwner` is `IsApprovedOrOwner`. `Register`,
`RegisterOnly`, `Renew`, `Reclaim`, `AddController`, ... are the external calls.

**ETHRegistrarController.** `commitments` is the mapping. A commitment is a hash
of the request and stands for it. `register()` with resolver data calls a
contract the buyer chose, so it is two actions, `RegisterBegin` and `RegisterEnd`,
with the stack of unfinished calls in `calls`; in between every other call of this and
the other contracts may happen, but no block ends (`Tick` needs an empty stack).
Without data it is one action, `RegisterPlain`. A transaction that cannot finish
reverts; that none gets stuck by what the callback does is `PendingCallsHold`.

**NameWrapper.** `tokens[n]` is the packed word owner/fuses/expiry as stored;
`Data(n)` is what `getData()` returns after `_clearOwnerAndFuses`. Every external
call of the contract that changes a token, an approval or a record is one action
that contains the calls it makes to the registrar and the registry and its own
internal writes (`Mint`, `Burn`, `TransferTo`, `UnwrapTo`). A fuse word is a set of
fuses. `WrapETH2LD` and `OnERC721Received` are the pulling and the pushing way of
wrapping a `.etn` name, `RegisterAndWrapETH2LD` the selling one.

**PublicResolver.** `stored` holds the values of every profile's mapping, each
with the record version it was written under; `entries` counts the DNS record
types of a name; `resolverOperators` and `delegates` are the two approval mappings.
A setter is a call, a record with a node, a key and a value (`SetAddr`,
`SetDNSRecords`, `ClearRecords`, ...); `Write` performs one, `MulticallWithNodeCheck` a
sequence, all or nothing, and `RegisterWithRecords` is the controller's sale with
the buyer's records: this resolver calls nobody back, so that sale is one step.
`WriteRRs` is the loop that cuts a list of DNS records into sets, `ReadRR` its body,
which calls `WriteSet` where the next set begins. Who may write is
asked of the registry and, for wrapped names, of the wrapper.

**PriceOracle** has the arithmetic of `StablePriceOracle` and `LinearPremiumPriceOracle`.
**Market** adds money to the controller: `balances`, and the `answer` the owner gives
the USD oracle. `Buy` and `PaidRenew` are `register()` and `renew()` with the value that
is sent along, `UniversalRenewAll` and `StaticRenewAll` the two renewals of a list, and
`Withdraw` what anybody may call for the owner. A list is all or nothing; a
name listed twice is renewed twice. `StaticBulkRenewal` pays the controller per
name, with the premium, and cannot receive what comes back: `StaticAccepts`.
`BulkRenewal` is the same loop with the controller looked up, and the universal
contract's `renew()` of one name is a list of one.

**Verification** is `verify-deployment.ts` on such a market. `run` has its program
counter and the readings it keeps (`total`, `balance`, `expiry`, `before`, `base`),
`failed` is its count of failures cut to a bit, `primary` the registrant's reverse record. Each
transaction, and each reading used later, is a step; a transaction that reverts
throws, and `Killed` may come between any two. `Others` is everybody else, the owner by
hand included. It may act at any moment; the run is `disturbed` only by what falls between
two steps of the script that go together (`Disturbs`): the label is renewed between the two
readings of its expiry, the oracle is moved between the quote and the sale or between a
setting of the drill and its check, or the controller is paid between the withdrawal and its
check.

**Root** is `Root.sol` and `RootSecurityController.sol` over the registry: its
owner, controllers and locks. **DNSRegistrar** composes it with the claims: `signed` are
the TXT records the DNS has signed so far, of which anybody may submit any, as often as
they like; `Enabled` is what the recursion of `enableNode` makes of all nodes above
a name; `SerialGte` is the serial arithmetic, with `W` for 2^32. Times are kept in
full and cut where the code has 32 bits, so that a property can tell an old record
from a new one. That a record was signed at all is what the chain of
proofs establishes, and is taken from the oracle.

**CCIPBatcher** has the pure functions of the batcher, which keeps no state: the
batch travels with the client. **BatchSession** is that client: it calls, asks the
gateways in order, calls back, until the batch is returned, reverts or no
gateway is left. **OffchainLookupSession** is the abstract specification of a lookup, the
"independent session" of the contract's comment: it knows nothing of other lookups, positions or
flags. **BatchProperties** maps each lookup of a batch to such a session.

**Deployment** is what scripts are written with. `net` is the network (its tags, its
owner account, the scripts its tags select), `env` the node and the environment
variables of the present run, `chain` the contracts as the scripts see them, `safe`
an L2's Safe, `saved` the deployment records, `done` the scripts that returned
`true`. `place`, `pc` and `mem` are the run: where the running script is in the `Pipeline`,
which lists the scripts in their order, its next statement and its local variables.
`Later` are the scripts the run has still to execute. An address is a contract's name and the
number of times it was deployed, so that a redeployment has another address.
`Deploy` takes the record if its arguments are the same and otherwise deploys;
`Tx` goes on or throws, `Throw` ends the run and keeps what was written, and
`Return` records a script that returns `true`.

**RootScripts**, **RegistrarScripts**, **ResolverScripts**, **SharedScripts** have
one action per script and in it one disjunct per statement that writes, numbered
in the order of the file. A read and the write it guards are one step where nobody
else can change what was read; where somebody can (names that may be taken, a Safe
whose signers act) they are two.

**Rollout** composes them: `DependsOn` is what each script names as its dependencies; which
scripts a tag selects with them is computed in `MCRollout` (`Closure`). `Start` is the operator, `RunScript` the next
statement, `Interrupt` the death of the process or of its connection, `Squat` a
member of the public who registers a name the pipeline wants, `Reclaim` the wallet a
name was handed to, `Confirm` a Safe's signers. `Gap` lists, per script, the places between
a deployment and the last statement behind its `if (!newlyDeployed) return`;
`lost` remembers interruptions in one. **RolloutProperties** has the properties;
`Verified` is phase 1 of `verify-deployment.ts`.

**SetTlds** opens the one script with concurrency inside: workers take suffixes
from `next`, ask for the owner and the list (`step`, `attempt`, `item`), leave a
`result`, and the calls are then sent in batches. `generation` counts the
deployments of `DNSRegistrar`, because each rerun of the pipeline makes another.
`Enable` is anybody calling `enableNode`. In `RootScripts` the same script is one step.

**NameLifecycle** is the abstract machine of `wrapper/README.md`: a name is
Unregistered, Unwrapped, Wrapped, Emancipated or Locked, with the moves that are
promised never to happen left out. It is the one module not translated from code:
it states what the code is measured against. `WrapperProperties` gives
the refinement mapping `StateOf`; TLC checks that the wrapper implements it and
`WrapperProofs` proves it.

**RegistrarProperties** and **WrapperProperties** hold the properties; definitions
whose names end in `_Something` next to a definition of the same stem in the models
("slips") are wrong variants of it, used to confirm that a property notices.

### Abstractions

- A revert is a transaction that does not happen: its condition is a guard.
- Expiries are small numbers. `MaxExpiry` stands for the overflow checks of
  `_register` and `renew`, `MAX_EXPIRY` for `type(uint64).max`; `WrapperAssumption` says
  that a registrar's expiry plus the grace period fits, which is when the casts to
  `uint64` in the wrapper lose nothing.
- `name.label` strings, the metadata service, events and the referrer are left out,
  reverse records but for the verification script's, and money but for `Market`,
  where accounts do not trade tokens or records, no name is wrapped and requests carry
  no data. Gas is left out. The bits of a fuse word the code gives no
  name are left out too.
- Multicalls consist of setters: one inside another, or an approval inside one,
  which the code allows, is not enumerated. Approvals so given by a trusted contract
  would be that contract's own.
- Contracts that accept a token (`Receivers`) do so without calling back. The
  controller's callback is modelled; re-entrant receivers of the wrapper are not yet.
- In a batch, the bytes of a gateway's failure are not themselves an `OffchainLookup`
  error, and which targets lack the `revert` opcode is given (`LegacyCalls`).
- The exponential premium is fixed point with 18 decimals: it neither fits the
  integers of TLC nor survives being scaled down.
- The upgrade contract is external: `Upgrade` checks what the wrapper needs from
  it (its approvals) and leaves the record alone.
- In the wrapper's models the root belongs to nobody who takes part and the `.etn`
  node to the registrar (`DeploymentAssumption`). In the registrar's model the
  root's owner is an ordinary account and does take the `.etn` node away.

- rocketh, the node, the Safe's contracts and its service are external and modelled
  from how the scripts use them. Gas, URLs, logging, the hooks that register
  test names, and the choice of the wallet's keys are left out.
- A suffix stands for its place in the list. In `Rollout` the node `com.` stands
  for all of them, and `wallet`, `resolver`, `validators` for the reserved and the
  infrastructure names: the loops treat each name the same way, apart from the
  `resolver` name, which is there.
- The scripts `02_deploy_chain_reverse_resolver` return at once on the networks
  modelled: they deploy on Ethereum's mainnet and test network alone.

### Bystanders

Accounts in `Senders` do everything the code lets an account do, in any order. An
address in `Targets` but not in `Senders` is given names and never acts. A
property about such a *bystander* is then a statement of non-interference: what
happens to its names is what others can do to them.

## 3. What the runs show

| run | instance | properties |
|---|---|---|
| `registrar` | 1 name, an account and the root's owner, operators both ways, time 2-7, grace 1, durations 0-2 | `GraceFreezesToken`, `HolderKeepsToken`, `HolderKeepsRecord`, and `ControlledFromAbove`: authority over a record comes from its node or from above, in the registry's calls and in the registrar's |
| `controller` | 2 names, 4 requests (one too short), ages 1-2, depth 2 | `SoldAsCommitted`, `NoCommitmentFromBefore`, `PendingCallsHold` |
| `wrapped_2ld` | 1 `.etn` name, 2 senders with operators and renewal managers, all ways to wrap, controllers and upgrade contract changing | `RegistrationCoversToken`, `BystanderIsSafe`, `GraceFreezesName` |
| `subnames` | a `.etn` name and its subname, emancipating, locking and extending words, batch transfers of both | `WrapperInv` (the inductive invariant of the proofs, whose parts section 4 explains), `FusesStayBurned`, `BystanderIsSafe`, and `LifecycleSpec`, the refinement |
| `resolver` | a `.etn` name sold with or without records, wrapped or not, and a TLD of the bystander's; an operator and delegate, DNS sets written, replaced and deleted, 2 versions | `BystandersRecordsStay`, `NothingResurfaces`, `EntriesCounted`, `SetsHoldTheirOwn` |
| `rollout` | the whole pipeline on five networks, and each script with its dependencies on Electroneum; any number of reruns, one kind of mishap in each behaviour | `FinishedIsWired`, `GrantIsTemporary`, `HandedOverNamesResolve`, `AddressesAreStable`, `SafeToRerun`, and `Completes`: the operator who goes on gets to the end |
| `tlds` | 5 suffixes (malformed, off the list, taken), 2 workers, 2 retries, batches of 2, 3 registrars | `FinishedIsEnabled`, `OrphanedByRerunsOnly`, and `RunEnds` |
| `dns` | a TLD, a suffix and a name below it, 32-bit times cut to 2 bits, two signed records, one account and a bystander in the DNS, an owner of `Root` who locks, disables and hands over | `NewestRecordWins`, `LockedStays`, `DNSOwnerDecides` |
| `batch` | six batches of three calls: answered, missing, failing, legacy, one round, two rounds; an honest gateway and one that says anything in any number | `BatchInv` (the inductive invariant of the proofs), `NoForgedValue`, `LookupsAreIndependent` (the refinement), and `BatchEnds` |
| `market` | 2 accounts, 2 names of different price, 3 lists, one with a name twice, 2 answers of the oracle | `TimeIsPaidFor`, `QuotesSuffice`, `PremiumFallsAsPromised` |
| `verification` | 2 runs of the script, killed anywhere, another account that buys and renews the names, an owner who moves the oracle and withdraws | `ChecksHold`: a check fails only if an act of the others falls in one of the windows of `Disturbs`; `DrillIsUndone`; and `RunEnds` |

One more run expects a violation: a statement of the documentation that the code
does not keep.

| run | statement | what the code does |
|---|---|---|
| `doc_rerun_completes` | `deployments/electroneum/README.md:140`, the pipeline is safe to rerun after an interruption | interrupted between the deployment of `RegistrarSecurityController` and its handover, no later run can finish |

Other places where code and documentation part, met while modelling. They have no run of
their own; the properties named allow for them.

- `contracts/wrapper/README.md:220` has the wrapper's expiry always equal the registrar's
  plus the grace period. A renewal through the controller extends the registrar alone:
  `RegistrationCoversToken` is an inequality, and `GraceFreezesName` speaks of the wrapper's
  own grace period.
- `deployments/electroneum/README.md:68` has contracts that are deployed read from the
  records and skipped. Interrupted before its script ended, the `NameWrapper` is deployed
  again two runs later, for the metadata service it was built with has been replaced: the
  last exception of `AddressesAreStable`.
- `DNSRegistrar.sol:146` compares a first claim with an inception of 0. From an
  inception of 2^31 (January 2038) on, serial arithmetic takes that for later, and every
  first claim reverts. `NewestRecordWins` says that no older record wins, not that a
  newer one is accepted.
- `LinearPremiumPriceOracle.sol:35` promises no premium for renewals. In the last second of
  the grace period, when a name can be renewed and not bought, it is quoted all the same, and
  `StaticBulkRenewal`, which cannot receive it back, cannot renew the name: the exception
  of `QuotesSuffice`.
- `verify-deployment.ts:22` says that the script leaves no residue. The registrant's reverse
  record is overwritten and emptied, whatever it was (`ClearReverse`).

### What an interruption costs

`SafeToRerun`, `FinishedIsWired` and `Completes` hold with exceptions, and the
exceptions are results of their own. Each is named in the property it weakens.

- An interruption in the gap of `RegistrarSecurityController`, `OwnedResolver`,
  `ReverseRegistrar`, `NameWrapper` or the Safe of an L2 (`Bricking`) can leave later
  runs failing: the next run skips the wiring that a later script cannot do without.
- One in the gap of a controller, the `PublicResolver`, the public suffix list, the
  `RootSecurityController`, the price oracle or the `DNSRegistrar` lets the next run
  finish, with the wiring missing. `Verified` does not cover all of it.
- A `DNSRegistrar` is given its own recorded address as an argument, and is so
  deployed again at every rerun. `enableNode` takes a node over from the registrar
  before, not from the one before that: a rerun (not the first run) that is cut
  short leaves suffixes no later run can enable (`OrphanedByRerunsOnly`).
- Changing `ETN_USD_ORACLE_VALUE` between runs replaces the oracle, and with it the
  controller.
- A name that somebody registered, or that the wallet it was handed to reclaimed,
  ends the run; if the temporary role was granted, the owner account keeps it for good. A
  later run of `06_register_reserved_names.ts` or `08_register_validator_name.ts` finds the
  role there, takes it for somebody else's and leaves it; so it does after a process that
  died between the grant and the removal. Both are exceptions of `GrantIsTemporary`: the role
  has to be taken away by hand.
- The `UniversalResolver` needs the owner of `addr.reverse` and does not name the
  script that sets it among its dependencies: by its tag alone it fails.
- Line 144 of the same README says that scripts heal themselves. That of
  `UniversalSigValidator` does not: every way out returns `true`, so that it is
  recorded as done, the one that deployed nothing included.

**Bounds and why they suffice.** A name's life has these stages: never registered,
registered, in grace, available, registered again. The times above let a name go
through all of them, with a renewal in each stage and a second sale after the
first; a grace period of 1 makes each of the three strict or non-strict
comparisons a case of its own. The wrapper relates a name to its parent and to
nothing else, so a chain of two names below the TLD contains every relation; two
names below the same parent never touch. Two senders are enough for a past owner
and a present one, or an owner and an operator; the bystander is the third. The fuse
words passed contain each fuse at least once, and prerequisites present and
absent. Deadlock is not checked where the clock's bound stops the model: a state
at `MaxTime` in which nobody has anything left to do is an artefact of the bound.

In the run `resolver` every setter but the address, the DNS records and the clearing
is left out (`WrittenKeys`): the others write one value under one key in the same
way. `MaxRecords` and `MaxVersion` bound the values stored at once and the clearings; two of
each are enough for a set beside another and for a value from before a clearing.
Type 0, after which the DNS loop takes the next record for the first one, is in the
model and not among the lists passed.

For `rollout`, `MaxMishaps = 1` lets each behaviour have one kind of mishap: an
interruption at any statement of any run, or a bad environment, a name squatted, or a
name reclaimed, the latter three any number of times. `MaxInterruptions = 1` has one run
interrupted; a bound there must be, for `Completes` is about an operator whose runs are not
interrupted for ever. The properties also hold with two kinds of mishap, and with two
interruptions (more than 2 million states each; the run keeps one for its time), and the
theorems of section 4 with any number. `MaxGenerations = 3`
stops reruns once a contract was deployed three times. The `DNSRegistrar` is deployed
at every run, so this is three full runs: as many as it takes to orphan a suffix, and to
replace a `NameWrapper`. Two reserved names are the name with
resolver wiring and another; one infrastructure name is enough, for the names do not
touch one another. The networks are the ones `rocketh.ts` and `hardhat.config.ts`
give different tags, one L2, and one L2 with the tag `testnet`, which `safeDeploy` asks for
and no configuration has at present. Deadlock is not checked: a run that is over and
needs no other is no error.

For `tlds`, five suffixes are two full batches and a remainder; two workers are all
that two can do to a cursor; two retries make the boundary of the count differ from
the first attempt; three registrars are the least that can leave an orphan.

For `dns`, `W = 4` is the least modulus with a half that is not a point, and the clock
goes once around it (`MaxTime < StartTime + W`: within less than one turn, and with
signatures valid for less than half of it, serial arithmetic orders records as time does;
the assumption says so). Two signed records are an old and a new one.

For `batch`, three lookups put a finished one before, between and after two that ask; two
rounds change which are unfinished in between. For `market`, prices divide evenly at
both answers of the oracle, as a difference of a wei by rounding is not the point; the
clock reaches every stage of a registration of one second and its grace period.
For `verification`, the registration lasts longer than the clock runs: a script that takes
28 days for a minute's work is left out. Two runs are one that is cut and one that
finds what it left. A label costs 408 at the lower answer of the oracle, 400 at the higher
and 100 after two doublings: the margins of 1 and 2 % are whole numbers at every answer two
drills can leave, and a move of the oracle from one answer to the other costs what the margin
of the sale allows and no more. Every window of `Disturbs` is needed in this instance: without
any one of them TLC finds a check that fails.

**Fairness.** On chain none: no contract acts by itself and no account has to, so
nothing must eventually happen, and those specifications state safety only. In
`Rollout`, `RunScript` is weakly fair (a process that is not interrupted goes on),
`Confirm` is weakly fair (the signers act on what they can execute), and `Start` in
a good environment is strongly fair: the README tells the operator to run the command
again, and it says which variables must be set. In `SetTlds`, `Work` is weakly fair:
the event loop goes on with whatever promise is settled, and viem settles every request by an
answer, an error or its timeout. In `BatchSession` the client goes on, and the present
gateway answers or is down, by the client's timeout if by nothing else. In
`Verification`, `ScriptStep` is weakly fair, for the node answers, and `TimePasses` is, for
blocks come. No fairness is put on `Interrupt`, `Squat`,
`Reclaim`, `Enable`, `Killed`, `Others`, `RateLimited` or `RequestFails`: the bad things may
happen or not.

## 4. What is proved

`tlapm` proves, for every tree of names, every set of accounts, operators and
controllers, every fuse word, duration and clock bound allowed by the assumptions
(`RegistryAssumption`, `RegistrarAssumption`, `WrapperAssumption`,
`DeploymentAssumption`, `ControllerAssumption`, `MarketAssumption`, `VerificationAssumption`, `RootAssumption`, `DNSAssumption`,
`ResolverAssumption`, `CallsAssumption`, `TldsAssumption`, `BatcherAssumption`,
`SessionAssumption`, `DependenciesFirst`, `RolloutAssumption`, `WiringAssumption`,
`AddressAssumption`):

- **RegistrarProofs**: `RegistrarInvariant`; from it `GraceFreezes`,
  `HolderKeeps`, `HolderKeepsName`, `ExpiryGrows` and `AuthorityFromAbove`. The strengthening over type
  correctness: every operator approval in force was given by an account that sends
  transactions (`OnlySendersDelegate`), and a token held by a passive holder carries
  no approval (`NoApprovalOnPassive`): otherwise one given by an earlier holder could
  speak for a holder who never gave any.
- **WrapperProofs**: `TypeCorrect` and `WrapperTypeCorrect`: no expiry of a token
  exceeds 64 bits, with renewals, extensions and inherited expiries;
  `WrapperInvariant`, and from it `FusesNeedLock`,
  `NoNameOutlivesItsParent`, `ParentStaysLocked`, `ProtectedNamesAreHeld`,
  `NoTokenOutlivesItsName`, `FusesHold`, `ExpiriesGrow`; that third parties reach
  neither a bystander's emancipated name (`BystandersAreSafe`) nor a name in its grace
  period (`GraceFreezes2LD`); and the refinement `ImplementsLifecycle`: the contracts
  implement the lifecycle the documentation draws. Of the resolver, which asks the wrapper who
  owns a name, for multicalls and lists of DNS records of any length: `ResolverInvariant`, and
  from it `RecordsAreTheOwners`, `ClearingIsForGood`, `CountsAreRight` and, if no record is of
  type 0, `SetsAreNotMixed`.
- **ControllerProofs**: for any requests, commitment ages and depth of nested
  purchases, `PendingCallsAreSafe` and `SalesAreCommitted`; and where the maximum age
  does not exceed the grace period, `CommitmentsDoNotLast`. For any prices, answers of
  the USD oracle, accounts and lists of names, `MarketInvariant`, and from it
  `QuotesAreEnough` and `PremiumIsInverted`. For any number of runs of the verification
  script on such a market, cut anywhere, `DrillsAreUndone` and, for prices of at least
  100 wei and registrations longer than the clock runs, `NoFalseAlarms`: a check fails only
  for an act of the others in one of the windows of `Disturbs`.
- **SetTldsProofs**: for any number of suffixes, workers, retries, reruns and any
  size of a batch, `SetTldsTypes`, `NothingTakenTwice`, `FinishedRunsEnable`,
  `OnlyRerunsOrphan`.
- **BatchProofs**: for any number of lookups, requests, gateways and rounds,
  `BatchInvariant`, `IndependentLookups` (each lookup of a batch behaves as an
  `OffchainLookupSession` of its own) and `ValuesAreNotForged`.
- **DNSProofs**: for every tree, any number of signed records and any width of the
  serial numbers, `DNSInvariant`, and from it `NewestWins`, `LockIsForGood` and
  `TheDNSDecides`.
- **RolloutProofs**: for every network, environment and list of names, any number of runs and
  any mishaps between their statements, `RolloutInvariant`, and from it `GrantsAreTemporary`
  and `NamesHandedOverResolve`. For a network deployed to as a whole, and any number of
  interruptions outside of the gaps (`MaxInterruptions`), `FinishedRunsAreWired`: every run that ends has
  left the whole wiring.
- **AddressProofs**: for every network, deployed to as a whole or in part, and any number of
  runs, interruptions, names taken by others and acts of the signers, `SteadyInvariant`, and
  from it `AddressesStay`: a recorded contract keeps its address, as long as no run had a wrong
  shell and the scripts of `NameWrapper` and `OwnedResolver` were not cut before their end.
  `DNSRegistrar` and `StaticMetadataService`, and a `Multicall3` that becomes the canonical one,
  are excepted throughout.

The proof of `NewestWins` shows what the serial arithmetic needs: signatures valid for
less than half a turn, and a clock that makes less than one (`DNSAssumption`). The check
that the claim is fresh alone would not do, because half a turn back looks like forward;
`Verifies` puts the inception no more than a validity before the clock
(`ClaimIsNewer`), and the earlier claim was no later than the clock. `LockIsForGood`
and `TheDNSDecides` need that the root never leaves `Root` and that contracts approve
no operators (`RootIsHeld`); that the registrar it replaces is neither itself nor `Root`
is an assumption, which the constructor does not check.

The refinement rests on one fact about positions: the number of unfinished lookups up
to a place differs for any two of them (`PlacesDiffer`), so that the request at that
number is the lookup's own (`OwnRequest`) and the answer at that number answers it.
What an answer may be is fixed when the gateway gives it and used a step later, when the
callback runs; `AnswersAreMeant` carries it over.

The invariant of `SetTldsProofs`, `Inv`, adds to the properties what links the phases: a
worker returns only when the cursor is at the end and the calls are collected only
when all have returned (`ReturnedAtEnd`), so that by `EachTakenOnce` no suffix is without
a result; a result that says there is nothing to do, and a call that was sent, stay
true while others enable suffixes (`ResultsHold`), for `enableNode` never gives a
node to anybody but the current registrar; nothing off the list is ever enabled
(`OnlyListed`).

The inductive invariant `WrapperInv` has ten parts. `ProtectedIsHeld` is what one
wants; it is not inductive alone. A locked name is lost if the wrapper stops owning
it: in the registry that takes the wrapper's own call, or a call by the owner of
the node above. Above an emancipated name is a locked one
(`EmancipatedUnderLocked`), which the wrapper holds in turn, up to the TLD and the
root (`TLDsHeld`). The parent must not expire first (`ExpiryHierarchy`), which for a
`.etn` name needs that the token ends with the registration
(`RegistrationCoversToken`) and that only `renew()` moves its expiry
(`OnlyRenewed`). Nobody may hold an approval from the wrapper
(`DelegationsKnown`). And a fuse word that is brought back by `renew()` must be
legal while it is expired (`FuseInvariant`). That `.etn` names are emancipated
(`DotEthIsEmancipated`) is what the grace period needs: a token that says
`IS_DOT_ETH` but could be taken by the parent's owner would not be frozen.

The proof does not go through the ten parts once per operation. `TokenMove(n)`
bounds what may happen to the token of `n`: its expiry does not shrink and grows at
most to the parent's or, for a `.etn` name, to the registration's end plus the grace
period; its fuses only grow while in force and stay legal; it becomes emancipated only
under a locked parent. `SafeStep` says that every token makes such a move and that
protected names are still held. One lemma per operation (`WrapSafe`,
`SetChildFusesSafe`, `BatchSafe`, ...) shows that it is a `SafeStep`, and
`SafeStepKeepsInv` shows, once, that every `SafeStep` keeps the invariant.
`AroundStep` is the other case: a step of the registry, the registrar or the clock
around the wrapper.

`BystandersAreSafe` and `GraceFreezes2LD` ask the opposite question of the same
operations: not what may happen to a token, but which names one call touches.
`MayBeTouched(n)` says what entitles anybody to change token, fuses or record of `n`: it
is the sender's own or the sender was approved for it, it is new, or it is
a subname the sender's name controls; a batch touches names of one owner. One lemma per
group of operations (`TokenTouched`, `SubnameTouched`, `WrapperTouched`, `AroundTouched`) shows that
every name touched is such a name. None of the reasons applies to a bystander's emancipated
name or to a name in its grace period (`NobodyTouches`).

In the refinement a step of the abstract machine moves one name or lets any number
expire. `LifecycleStep` is reduced to this: a call of a contract changes the state of one name at
most (`OneStateMoves`, part of `SafeStep`); an emancipated name may be locked or
unwrapped, a locked one does not move, and both states are reached only under a locked
parent; time only expires (`TickLifecycle`).

The controller's invariant is `PendingCallsHold` with the reason nobody moves the token
while a resolver runs: the controller has it, no token of the controller
carries an approval (`NoApprovalOnPending`), and only accounts that send transactions
name operators (`OnlySendersDelegate`, proved with the registrar). A nested purchase
needs an available name, and a pending one is registered. `CommitmentsDoNotLast` has a
hypothesis on the parameters: the scripts deploy the controller with a maximum age of a day
(`04_deploy_eth_registrar_controller.ts:40`), the grace period is 90
(`BaseRegistrarImplementation.sol:17`). The contract does not compare them.

The market adds nothing to that invariant: its own, `MarketInv`, says that balances are
numbers, and with them every payment. What it takes is arithmetic and sums.
`PremiumFalls` follows from the two inequalities of an integer division (`Division`,
`QuotientBound`), which bound the amount, its value in dollars and the seconds in turn.
A quote covers what is due because each term does: `SumExists` gives the sum over a list
a value, by induction over the number of its elements, and `SumsCompare` compares two.

`DrillIsUndone` is inductive once the script's variables are known to be the record it
starts as (`DrillInv`): of the steps that reach the end of the drill only the one that
restores sets the oracle, and after it only owners do.

`NoFalseAlarms` proves `ChecksHold`. Its invariant, `ScriptInv`, has three parts. What the
script has read is what the chain says, statement by statement, unless an act of the others
falls in a window of `Disturbs` (`Expected`); `LabelUntouched`, `LabelRenewed` and `LabelSold` say
what others can do to the label at each of them. That is little: they may pay for the sale of
it to the registrant, but that uses up the commitment, so that the script's own sale throws and no
check is made; and they may renew it, which only the two readings of its expiry notice. The label of a run to come was never registered nor asked for, whoever
trades (`LabelsFresh`): a label is the millisecond its run began, so `VerificationAssumption` says
that nobody else makes a request for it. And the answer of the oracle is one the runs
begun so far can have left (`OracleOK`): an owner's or, after a cut, twice an earlier one, so
that it may double with every run. The theorem has two hypotheses, for the property is false
without them. A label costs at least 100 wei at every answer runs can leave (`Reached`,
`DearEnough`): below, the script's margin of two percent and its window of 49 to 51 % vanish in
the rounding. And the registration lasts longer than the clock runs: a process that sleeps for
28 days finds the name it bought expired. The instance satisfies both (its cheapest label costs 100, after
two doublings). The premium only falls while a script waits (`PremiumFallsWithTime`), so the price it
read is enough, and half a price is in the window by the inequalities of two divisions
(`HalfIsInWindow`).

The resolver's transaction is a fold over its calls, and `setDNSRecords` in it a fold
over the records it is given, so its proof is an induction over data. The library's induction
theorems take a predicate, which no prover here can instantiate. `WrapperProofs` does
without: that `<` is well founded on `Nat` gives every set of numbers a least element
(`Least`), that gives induction for a set (`Induction`), and that gives what a fold needs: its
recursion has a solution (`Recursion`), and what each element keeps the whole keeps
(`Chain`). `CallsKeep` and `ReadsKeep` apply this to the two folds. What is carried
through a transaction is `Consistent`, the state of the storage, and `Since`, that only
nodes the calls name have changed and no version has gone back. Within
`setDNSRecords` it is `Reading`: the set being read begins at a record already read, and all
records since have its name and type. The code takes type 0 for "no record read yet", so
a record of type 0 may end up in the set of the next one; `SetsAreNotMixed` says
so in its hypothesis, `NoZeroType`, and type 0 is reserved in DNS (RFC 6895). The other
three hold with it. A count for a version beyond `MaxVersion`, the bound of `clearRecords`,
does not exist in the model; the guard of `Perform` keeps versions below.

The pipeline's invariant, `RolloutInv`, is about two scripts of 38, and about what the others
cannot do to them. A statement of any other script is `Quiet` (`OtherScripts`, with one
lemma for each module of scripts): it touches no node or token of a name, gives the owner
account no role but on `Root`, and leaves the address of the registrar alone unless it is
the registrar's own script. Two scripts are between the extremes, because the two
rely on them: the setup of the registrar, which gives it the node `etn.`
(`SetupOfRegistrar`), and that of the public resolver, which leaves a record
(`PublicResolverScript`). That they have run first is `OrderOK`: neither is ever recorded as
done, so a run that selects a script behind them selects them too
(`Dependencies(s) \subseteq net.scripts` in `RolloutAssumption`) and has passed them
(`Passing`, `DependenciesFirst`).

`GrantIsTemporary` is not inductive: the role must have been given by the running script
(`Granted`), which can then take it away again, because the security controller that let it
through still does (`GrantOK`). A run of the script cannot fail between the two but for a
name taken meanwhile: every other name it found free is free (`FreeOrTaken`), the registrar is
live (`NodeOfTld`) and the owner account has the role (`ReservedOK`, `InfrastructureOK`). A node
that belongs to the wallet excuses a failure only once the wallet has taken one by itself
(`NodeTaken`): until then each was handed over by the script, which passes such a name over. And a
registrar that is deployed again starts without controllers, for roles are held on addresses up to
the present one (`RolesOK`). `HandedOverNamesResolve` needs what the script has read of the
name at each statement: while the owner account has the node, its token goes only after the
resolver is set, and the node only after the token; nobody else moves a token of
`Owner`'s, so what was read stays true (`InfrastructureOK`). `RolloutAssumption` says that no
reserved name is listed twice, which holds of `reserved_names.ts`, and that no label is the
name of one of the other nodes: those have a dot.

`FinishedIsWired` is about all 38 scripts, and what it says of the end holds because of what
is so at each statement on the way. `WiredInv` says it in three ways. What a script does in
every run is so once it has come past the statement, in this run or for good (`Did`): the
setup of `Root`, the TLDs, the roles of the legacy controller. What it does only for a
contract it has just deployed is so of every contract on record that is not on its way
there (`Beyond`): all the handovers, and most of the wiring. And a contract is deployed
once, with the arguments the others were deployed with (`RecordsOK`), so that what
was wired to it stays wired; of the `NameWrapper`, whose arguments change, that follows
from its script being done for good (`WrapperOK`). `Undisturbed` leaves out the mishaps
after which it is false (section 3): nothing lost in a gap, nobody interfering.

Each statement adds one part and must spare the others. `Leaves` says what a statement
touches: contracts, nodes, resolvers, pointers, roles, records. The `Keeping` lemmas say which
parts of `WiredInv` that keeps, so that a script's lemma has only its own part to
show. The two scripts that register names touch names and the role of the owner account
only (`Spares`, `Spared`), and what remains of them is that no reserved name is
available once its script is behind (`LaunchOK`) and that the name resolver keeps its node
(`LentOK`, `HandoverOK`). Starting a run and cutting one off add nothing, because a script
that starts again finds its contract on record and is past its wiring
(`Pausing`). `WiredInit`, `WiredStart`, `WiredInterrupt`, `WiredConfirm` and `RunWired` make it an
invariant, and `WiredAtTheEnd` reads the property off it: with every script behind, every `Did`
and every `Beyond` is so.

`WiringAssumption` is what the code needs of a network for this. Its tags must include
`use_root`, as those of every network in `rocketh.ts` with tags do, for without it nothing
gives `root.` to `Root`. It is not Ethereum's mainnet, where seven scripts return before their
wiring and leave it to the DAO. The price of the oracle, which the operator may export
(`ETN_USD_ORACLE_VALUE`) or leave to its default, is the same in every shell that is as it should be:
with another one a later run would deploy the oracle again, and the contracts already wired
would refer to the old one. This is an assumption about the operator, for no script checks it,
and the property is false without it: the controllers would be deployed again, and the old
ones keep their roles. And `resolver` is one of the reserved names and not one
of those that are handed over, as in `reserved_names.ts` and
`08_register_validator_name.ts`. The networks of the instance satisfy all of it.

`AddressesAreStable` is proved in `AddressProofs`, and not from `WiredInv`: it holds of networks
deployed to in part, and it goes on holding after most of the mishaps that break the wiring. A
deploy compares the arguments it is given with the recorded ones and returns the record when they
are the same, so a contract is replaced only if a script reads another address than it did the
first time. `SteadyInv` says that none does, in four parts. Every record has the address and the
arguments it was first given (`KeptOK`, with `Address` and `Given`). What a script is given was
deployed by a script it depends on, which has run before it (`DueOK`, from `DependenciesFirst`
and the closure in `RolloutAssumption`; `Before`, `AtHand`): a script that came too early would
be given nobody's address, and be given another one the next time. Two scripts escape this. The
one of the `DNSRegistrar` is given its own recorded address as the previous registrar, and
`UpdateMetadataService` deploys the metadata service again; both are exceptions of the property.
But the `NameWrapper` is given the metadata service, so its script must never run twice: it
returns true and is recorded as done in the run that deploys the wrapper (`OnceOK`). For that, no
statement of it may throw, and one calls the resolver of `etn.` as the owner: that resolver is the
`OwnedResolver`, and the owner has it, except between its deployment and its handover (`TldOK`). Hence
the two scripts in the last exception, and why those two gaps and no others matter.
Each statement either deploys nothing and leaves the top-level domain alone (`Plainly`) or
adds one record with its arguments (`Adds`); `Calming`, `Supplying` and `Unrequired` say when that
keeps the invariant, one lemma for each module of scripts shows that its statements do (`CalmRoot`,
`CalmRegistrar`, `CalmResolver`, `CalmShared`, `CalmSafe`), and the two scripts above have a
lemma of their own (`SteadyOwnedResolver`, `SteadyNameWrapper`). TLC has checked `SteadyInv` on a
small instance before it was proved.

`AddressAssumption` is what the code needs of every network for this, also of one that is deployed
to in part. `use_root` is one of its tags if `Root` or the registrar is deployed, as it is on every
network of `rocketh.ts`: without it the scripts of the two return without deploying them, and a
contract that is given one of their addresses later is given nobody's. It is not Ethereum's mainnet, as above. In all shells the price is the
same, as above, and so is whether the key that proposes to the Safe is exported
(`SAFE_PROPOSER_KEY`): without it `L2ReverseRegistrar` is deployed directly and not through the Safe,
to another address. Nothing in the scripts makes the operator export the same values twice, so
these two are assumptions about the operator. The runs `rollout` and `doc_rerun_completes`
evaluate it.

Only model-checked, not proved:

- out of the prover's reach: liveness under fairness (`Completes`, `RunEnds`,
  `BatchEnds`, `RerunCompletes` and the like) and ENABLED;
- `TimeIsPaidFor`: it compares what a step takes with the price of the time each name
  gained, and the two differ by the rounding of the price when a name is listed twice. It
  is true where prices divide evenly, as in the instance;
- `SafeToRerun`: within reach and not done. It needs what `WiredInv` and `SteadyInv` say
  together, on networks deployed to in part and with the seven exceptions it names.

## 5. Not modelled yet, and the plan

`PROJECT.json` names every part. In the order planned:

1. **Reverse registrars and resolvers**: who may set a name for an address, by
   itself, by an owner of a contract or by signature; the reverse records a
   registration sets.
2. **Universal resolver**: the search for a resolver up the name, and sessions that go on
   through its own callbacks on top of the batch.
3. **Registrar security controller, fallback registry, migration helper**: emergency
   powers end where they should; batches of transfers.
4. **Wrapper re-entrancy**: `Mint` and `TransferTo` split at the receiver's callback.
5. **Tasks**: `transfer_name`, `create_l2_safe` and `save` are short sequences of an
   operator's transactions. `seed`, `archive_scan`, `accounts` and the wiki script make
   test data or list files and stay out.
6. **DNSSEC**: the chain of proofs as an abstract verifier refined by the loop; the
   off-chain DNS resolver. Pure helpers (name encoding).
7. **Proofs**: `SafeToRerun` of the pipeline.

The exponential premium stays out: its fixed point with 18 decimals is beyond TLC.

## 6. Running

    tlc -workers 2 -config MCSubnames.cfg MCNameWrapper
    tlc -workers 2 -config MCRollout.cfg MCRollout
    tlapm WrapperProofs.tla
    tlapm ControllerProofs.tla
    tlapm SetTldsProofs.tla
    tlapm BatchProofs.tla
    tlapm DNSProofs.tla
    tlapm RolloutProofs.tla
    tlapm AddressProofs.tla

`PROJECT.json` gives the module and configuration of each run.
