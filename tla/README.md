# bone-fun in TLA+

A verification development for bone-fun, a proof-of-work game on the Internet
Computer. Users deploy *dog* canisters; each dog hashes on its own timers and
submits what it finds to the one *main* canister, which keeps the registry of
dogs and alliances, verifies finds, pays rewards through a ledger and keeps the
log of blocks. The web client connects wallets, lets users pay for and manage
their dogs, and shows what the canisters know. Paths below are relative to the
repository root: the Rust crates are under `src/bone_main`, `src/bone_dog`,
`src/bone_lib`, the web client and its wallet adapter under `bone-frontend`.

## 1. The system

### Components, their state and operations

| component | state | operations |
|---|---|---|
| `bone_main`, registry (`src/bone_main/src/main.rs`) | stable maps `MINERS_MAP` (dogs of a miner), `DOGS_MAP` (what main believes of a dog), `MINING_POOLS_MAP` (alliances), `MINERS_POOLS_MAP`; heap `POOL_COUNTER` | `create_dog`, `create_alliance`, `join_alliance`, `leave_alliance`, `dog_level_upgrade`, `update_dog_state` (called by dogs), the reconciliation inside `calc` |
| `bone_main`, ore round | heap `BASE_CONTEXT` (`ore`, `ore_difficulty`), `LOG_COUNTER`, `CALC_CONTEXT`, the pending set of `CallerGuard`; stable `ORE_RECORD` | `verify_ore`, `get_ore`, `calc`, `post_upgrade` |
| `bone_main`, ICP treasury | the canister's ICP balance on the ledger | `create_dog` (fee), `add_main_cycles`, `add_cycles`, `to_mint_transfer` |
| `bone_main`, queries | the lists of `CALC_CONTEXT` | `get_record_rev`, `get_record_index`, `top_user`, `top_alliance`, `get_homepage_calc`, `time_until_next_having_days` |
| `bone_dog` (`src/bone_dog/src/main.rs`) | heap `DOG_CONTEXT`, `TIMER_ID`, `COUNTER`; cycles balance | `dog_info`, `dog_level_upgrade`, `dog_mining_type_update`; timers `get_ore`, `timer_dog_mining`, `timer_verify_ore` |
| `bone_lib` | the guard's pending set | inter-canister stubs `idog`, `imain`, `itoken`; `CallerGuard`; types |
| adapter and client, wallet session (`artemis-web3-adapter/src/index.js`, `wallets/`, `utils/wallet/connect.ts`, `store/app.ts`, `layout/header.tsx`, `App.tsx`) | the adapter's user, provider and cached actors; `localStorage`; `appStore`; the flags of the wallet modal | connect, disconnect, restore on load, get an actor |
| adapter, batches (`libs/batchTransact.js`) | the steps, their state and position | `execute`, `retryExecute` |
| client, Dog Miner (`pages/DogMiner/DogMiner.tsx`) | the list of dogs and their cycles, spinners, progress bar, modals | create, top up, upgrade, leave: approve on a ledger, then call main |
| client, Dog Alliance (`pages/DogAlliance/DogAlliance.tsx`) | the list of alliances, the dogs offered, the dog chosen | create alliance, join |
| client, Wallet (`pages/Wallet/Wallet.tsx`, `utils/common.ts`) | a card per token, the send modal | sync, Max, send |
| client, Dashboard (`pages/Dashboard/Dashboard.tsx`) | the page of the log shown, the tables of the best | turn pages, change rows per page |
| client, Home (`pages/Home/Home.tsx`) | the figures | five chains of queries at the mount |
| client, notifications (`components/Snackbar*`) | the message, its bar, its timer | show, replace, hide |

`bone_dog::manage_stop_start_timer` and `dog_mining_state_update` accept calls
of `bone_main` only, and nothing in `bone_main` calls them.

### How they interact

A canister handles one message at a time, but a handler that awaits another
canister is suspended and others run in between; only the stretch between two
awaits is atomic. Requests from one canister to another arrive in the order
they were sent; replies may be processed in any order; any request may be
rejected. What is hard in the canisters follows from that: `bone_main` reads a
dog's entry, awaits the ledger and the dog, then writes; at the same time the dog
reports stops and starts of its own accord and the hourly `calc` reconciles the
entries with answers that may be old. The dog itself has several ticks of
`get_ore` in flight at once.

The client is one JavaScript thread: what is atomic is the code between two
awaits that really wait. Its hazards are answers that come out of order, copies
of state (of a balance, a list, a user) that outlive what they were copied from,
operations that overlap on one allowance, effects and timers that fire after a
page is gone, and handlers that give up halfway.

### What makes the components correct

* registry: the maps never dangle (`RegistryConsistent`); entry
  and membership of a dog agree (`AllianceListed`); both canisters agree on a
  dog unless something overlapped or failed (`AgreeUnlessDisturbed`); no level
  without its fee (`LevelsPaid`);
* dog: mode and alliance agree (`ModeCoherent`); an active dog has its timers
  (`ActiveHasTimers`); it stops without cycles and mines with them
  (`LowCyclesHalt`, `HighCyclesMine`); it mines on main's ore and sends no find
  twice (`OreFeed`);
* ore round: one verification at a time, a linked log that nothing overwrites
  (`ChainLinked`), at most one reward per ore (`PaidAtMostOnce`), the 24 hour cap
  (`DayCap`), statistics that catch up;
* treasury: what is there is what suspended handlers will send and failed ones
  left (`Balanced` of `Treasury`);
* wallet session: a page shows only the user a wallet granted last
  (`ShownUserWasGranted`), and `localStorage` names this user and that wallet, or
  else a wallet that is not installed (`StoredWalletGranted`);
* paid operations: an approval is used by the operation it was made for
  (`RefusedOnlyIfDisturbed`, `NothingMuchLeft`), a spinner stands for work
  (`SpinnerMeansWork`) and stops (`SpinnersStop`);
* lists, pages and figures: they tell what the canisters say, up to what a late
  answer or a failure excuses, and come (`ListsTrue`, `DashboardTrue`, `WalletTrue`,
  `TimeOfHeight`, `NeverUnderstated`, `PartsSettle`).

The hazards, each at its line, are in `PROJECT.json` under `hazards`.

## 2. Modules

| module | models |
|---|---|
| `StableMap` | the stable map: empty, and `insert` |
| `BoneTypes` | the enumerations |
| `BoneDog` | `DOG_CONTEXT` and `TIMER_ID` of a dog as far as its mode goes, one operator per handler |
| `BoneMain` | the registry maps, one operator per atomic segment of a handler |
| `Mining` | composes the two: suspended calls, request and report queues, fairness, properties |
| `OreRound` | `verify_ore`, `calc`'s difficulty and statistics, upgrades of `bone_main` |
| `OreChain` | the abstract specification of a round: a chain of blocks, each credited once |
| `OreFeed` | the ore and difficulty a dog fetches, its queue of finds, their verification |
| `Treasury` | the ICP that `bone_main` takes and sends on |
| `WalletSession` | the connected user in adapter, store, `localStorage` and header; the cache of actors |
| `BatchTransact` | groups, callbacks, execution and retry of a batch |
| `PaidCalls` | approvals and paid calls of both pages, with ledgers and charges |
| `MinerList`, `AllianceList` | the lists of the two pages and what refreshes them |
| `SendTokens`, `Amounts` | the page Wallet; the way of a balance through a floating point number |
| `LogPages`, `Standings` | the page Dashboard: the pages of the log, the tables of the best with the part of `calc` that makes them |
| `HomeFigures` | the page Home, with the reward schedule |
| `Notifications` | the message, its bar and its timer |
| `MCMining`, `MCOreRound`, `MCWalletSession`, `MCPaidCalls`, `MCHomeFigures` | instances of one module each for TLC |
| `MCParts` | instances of the modules whose states have nothing in common, one per behaviour |
| `MiningProofs`, `AgreementProofs`, `OreRoundProofs`, `WalletSessionProofs`, `HomeFiguresProofs`, `PaidCallsProofs`, `PartsProofs`, `PagesProofs` | theorems and proofs (section 5); those of `Parts` are in the last two |

In several modules a definition whose comment begins with "A wrong variant"
stands before the one it is a variant of: it is used by no specification, and
shows that a property notices the bug.

## 3. State and actions against the code

### Mining

`calls[s]` is a suspended handler of `bone_main`: its operation, what it awaits
(`ledger`, `install`, `dog`, or `replied` once the answer has arrived but the
handler has not resumed) and the locals that survive the await. `toDog[d]` is
the queue of requests to a dog, `toMain[d]` its `update_dog_state` requests,
`replies[d]` the acknowledgements it has yet to process. `collected` and
`disturbed` are history: fees taken for a dog, and dogs whose exchanges with
`bone_main` ever overlapped or failed.

Each handler is split exactly at its awaits. `join_alliance` is `JoinAlliance`
(checks of the caller, request to the ledger), `JoinAlliancePaid` (request to
the dog), `DogMiningTypeUpdate` (the dog's side), `JoinAllianceReply` (pool
lookup and the two maps). `leave_alliance`, `dog_level_upgrade`, `create_dog` and
`create_alliance` are split the same way; a failed transfer is `FeeRefused`. The
sequence of `dog_info` calls in `calc` is `Calc` and one `CalcReply` per dog,
with the dogs still to ask in `todo`. On the dog, `Tick` is the part of `get_ore`
before its await, `MainUpdateDogState` the handling by main,
`ReportAcknowledged` the part after.

Abstractions: cycles are one of three bands around the thresholds of
`utils.rs`; names, fees and token amounts are left out (what matters is that a
fee was taken); the outcome of a ledger call is decided when its handler
resumes. `calc` is modelled from the first recorded block on (before that it
traps at `main.rs:1086`). When `create_dog` traps after its fee was taken nothing
of the registry changes, which here is `FeeRefused`; what happens to the money is
in `Treasury`.

### OreRound

`ore`, `difficulty`, `pending`, `logCounter`, `record`, `oreCnt`, `blockReward`
and `minders` are the variables of the code; `rounds[s]` is a suspended
`verify_ore` with the locals it keeps, `calcs[c]` a suspended `calc` with the
sums it made before it asked the dogs. `paid` and `treasury` are history: what
the ledger has paid, for which ore.

| code | action |
|---|---|
| `verify_ore` up to its first transfer | `Verify` |
| a transfer to a beneficiary answers | `Paid`, `PaymentFailed` |
| the transfer to the treasury answers | `FeeSettled` |
| new ore, log, count (`main.rs:676-720`) | `Finish`, part of whichever action comes last |
| `calc` before and after its calls | `CalcStart`, `CalcEnd` |
| `create_dog`'s count of miners | `RegisterDog` |
| `post_upgrade` | `UpgradeMain` |
| `time()`, halving periods | `Clock`, `Halve` |

Abstractions, and why they lose nothing the properties see:

* an ore is a number, one more than the last, since a new one is a hash of the
  time and the old one; whether a find matches is the nondeterminism of `Verify`.
  A find that does not match, a light dog that loses its draw (`main.rs:566`) and
  a taken guard change nothing. Nor does the check that the dog is the miner's
  (`main.rs:573`), whose `return` leaves only the closure;
* a block keeps its age instead of its time; ages stop growing at `Day`, beyond
  which no code tells them apart. Time passes between any two steps;
* the active members of an alliance may be any set of registered dogs, whatever
  the registry says meanwhile (`Mining`); a beneficiary is named by its dog;
* transfers of an alliance may be made in any order, as those of the code, which
  iterates over a `HashMap`;
* `output` is `mining_output_amount` after the halvings so far;
* a sum of amounts is the number of units in it (`Units`), which a proof can
  handle where a fold needs induction;
* an upgrade waits until nothing is suspended, as the management canister does
  when it stops a canister first;
* `calc` on an empty log traps (`main.rs:1086`) and changes nothing;
* not kept: `ore_amount`, `current_avtive_minders`, `block_24h_cnt`. The rankings
  are in `Standings`.

`OreChain` knows of neither rounds, ledger nor clock: a beneficiary is credited
once for the ore in force, a block consumes it and puts the next in force, or it
is replaced when nobody was credited. `Chain` in `OreRound` maps the log to the
blocks and `paid[ore]` to those credited. That an ore for which somebody was paid
is never given up is the point: a failed transfer to a lone dog ends the round,
one to an alliance must not, and an upgrade must not come in between.

### OreFeed and Treasury

`OreFeed`: `tick[t]` is a `get_ore` in flight with the copy of the dog's ore it
took before its awaits, `Fetched` compares the answer with that copy and writes
the fields that differ into whatever the dog has by then. `VerifyOres` empties
the queue (`secondary_verification`), keeps the finds that match, and sends them;
`VerifyFailed` is a rejection, after which they are gone. Ores are numbered as in
`OreRound`; of a hash its ore and the length of the prefix they share are kept.

`Treasury`: `balance` is main's ICP on the ledger, `call[s]` a suspended
`create_dog` or `add_cycles` with the amount it keeps, `kept` is history. A step
is one call to the ledger with the resumption that sends the next: between the
two the handler touches nothing another one reads. The amounts are the code's in
units of the ledger's fee (10 000 e8s), and `Send(n)` is a transfer of `n` less
the fee, as the code computes each. Only production is modelled: on a local
network `add_main_cycles` returns at once (`main.rs:346`).

### Wallet session, batches, paid operations

`WalletSession`: `adapter`, `storage`, `store` and `modal` are the fields of the
code; `task[t]` is a connect, a forced disconnect or a restoring that is suspended
in a wallet, `creating` the actors being created, `session` whom each wallet
holds logged in (external, as are logins and logouts). A wallet is one of three
kinds: an extension, a wallet of the web, or one that is not installed.
`Reload` discards everything but `localStorage` and the wallets. `granted` is
history: the user a wallet of this page granted last, and that wallet.

`BatchTransact`: a batch is its shape (which steps end a group, have callbacks,
have a method); `cursor` is where `_processBatch`'s loops are, `wraps` how many
wrappers `_prepareTrxArry` has put around each callback (`execute` wraps again),
`fed` whose result stands in the arguments of a step.

`PaidCalls`: `op[s]` is an operation from the click to the last statement of its
handler; `ServeCall` is what `bone_main` charges, `Approve` what the ledger does
with an approval: it overwrites the allowance and costs a fee. Leaving the page
unmounts its state and lets its operations go on. One wallet and one dog of it
are followed: what the operations share is an allowance per token, a balance and
the state of the page. `clean` is history: no other operation or failure touched
what this one relies on.

### Pages

`MinerList`: `req_get_dogs` is one query, then one per dog; answers are applied in
the order they come. `AllianceList`: a refresh empties the list, then appends one
row per answer. `SendTokens`: the send modal works on copies of balance and fee;
`Transfer` is the ledger, which checks them against what is. `LogPages`: `log` is
the number of blocks, and `GetRecordRev` the indices `get_record_rev` computes.
`Standings`: `Calc` reads users and levels, the dogs answer one by one, `Publish`
reads alliances and blocks; `UserCell` and `AllianceCell` are the columns that the
page reads by position. `HomeFigures`: `chain[c]` says where each of the chains
of queries is. `Notifications`: two clocks, the bar of the component and the
timer of the library. `Amounts` has the arithmetic of a floating point number of
`Bits` bits, round half to even, and the shortest text that parses back to it.

Numbers keep their width where it matters: the divisor `2u64.pow(k)` of the
reward wraps to 0 at `Width` bits (`HomeFigures`), a Number has `Bits` bits
(`Amounts`).

## 4. Runs

| run | question | bounds |
|---|---|---|
| `calls` | joins, leaves, upgrades, creations of several owners among each other | 2 slots, 1 report; one of three budgets: 1 dog with 2 alliances, 2 joins and 1 leave; 1 dog with 4 upgrades; 2 dogs of 2 miners with 1 alliance and 2 joins |
| `modes` | late acknowledgements against `calc` and the owner; liveness of the mode | 1 dog, 2 ticks in flight, 1 `calc`, 1 join, 1 leave, 1 upgrade |
| `rounds` | rounds, failing transfers, retries, upgrades, the cap | 2 dogs of weights 2 and 1, 2 round slots, 3 ores, output 4, cap 2 |
| `statistics` | liveness: guard, statistics, difficulty | 2 dogs, 1 round, 2 `calc` at once, 2 ores |
| `session` | who is shown as connected | 2 users, 3 wallets (one of each kind), 2 operations in flight, 1 canister |
| `paid` | overlapping approvals, spinners, pages | 2 operations at once, 1 failure, four users with different funds and kinds of operations |
| `home` | figures of several queries, the halving | 2 blocks, 5 days of a cycle of 2, divisor of 2 bits, 2 transfers, 1 rejection |
| `parts` | the other pages, the message, the figures, batches, a dog's ores, main's ICP | below |
| `upgrade_order` | fails: an upgrade lowers the level | 2 overlapping upgrades |
| `halted` | fails: shown halted for good with enough cycles | 1 dog, 1 `calc` |
| `treasury` | fails: a block without the treasury's share | 2 dogs, 1 round |
| `actors` | fails: calls signed by a former user | as `session` |

`calls` and `modes`: one dog is enough for what concerns the exchanges of a dog,
because handlers of different dogs share no state but the maps, which the third
budget covers with two. Two suspended calls are the least that overlap; budgets
let each level and each alliance be reached. Users stop calling when their budget
is used up, so deadlock is not checked there, nor where a page is at rest.
Symmetry is used for safety runs only.

`rounds`: two slots are what it takes for a broken guard to show; two dogs of
unequal weight make shares that round down; output 4 at a rate of 25% halves to
2, 1 and 0, with and without a fee. The cap is 2 blocks in a day of 3 ticks, so
that it is reached and reopens; with three ores the third block is the one it
must refuse. `calc` has no slots there: of the variables of a round it touches
only the difficulty. Two runs of `calc` at once in `statistics`, where the timer
allows one an hour, cover calls of dogs that take longer. `MaxDifficulty` and
`MaxOres` are bounds of the model, the code has none.

`parts`: a behaviour opens one of ten parts and keeps to it (`open`), because the
parts share no state: the router mounts one page at a time, and message, figures,
batches, a dog's feed and main's ICP are independent of the pages. Its properties
are those of the modules, gathered by what they are about: `ListsTrue`
(`MinerList`, `AllianceList`), `WalletTrue` (`SendTokens`, `Amounts`),
`DashboardTrue` (`LogPages`, `Standings`), `BarTellsTime` (`Notifications`),
`SequencesTrue` (`BatchTransact`, `Treasury`), the action properties in `StepsTrue`
and what comes again and again in `PartsSettle`. The bounds are the arguments of
the instances in `MCParts`: two queries in flight, which is what it takes for an
answer to be late, 1 failure (batches and ICP 2), and

* miners: 2 users, 3 dogs, 3 questions, 1 change; alliances: 2, 1 dog, 3 refreshes;
* wallet: a token whose fee is not the default one, balances up to 2, 1 transfer
  and one more query;
* blocks: a window of 4 on a log of up to 5, 1 or 2 rows, 3 pages asked for, so
  that the window is full, its oldest record is reached and the log grows meanwhile;
* tops: 3 dogs of 2 users, lists of 1, so that somebody is left out;
* message: 2 texts, 3 messages, a bar of 5 ticks and a timer of 7;
* figures: numbers of 7 bits, 100 units to a token, balances up to 600: a
  Number's steps grow from less than one unit to six;
* batches: all groupings of 4 steps (with 3 a retried group cannot get out of order), with and without callbacks, one step
  without a method, 2 executions, 2 retries, 2 failures;
* feed: 2 ticks at once, 2 difficulties, 1 find, 2 changes of main;
* icp: 2 handlers at once of 3, top ups from the smallest amounts on, 2 failures.

The type invariants of the other modules, the strengthenings `QueueInv`,
`CreationInv`, `PaymentInv`, `RequestInv`, `ExchangeInv`, `LevelInv` and `GuardHeld`, and every conjunct of the inductive
invariants of section 5 were run on the same instances before they were proved;
now that they are theorems the configurations leave them out.

**Fairness.** Canisters: timers fire again and again (`WF` of `Tick`, `Calc`),
requests are answered or rejected, and replies are processed (`WF`): the Internet
Computer guarantees a response to every call. A report that is retried on every
tick is not rejected for ever (`SF` of `MainUpdateDogState`). Nothing is assumed
of users, of cycles, or of `dog_info` succeeding. `OreRound` assumes that time
passes, that the hourly `calc` runs and ends, and that the ledger answers each
transfer one way or the other (`WF` of `Clock`, `CalcStart`, `CalcEnd`, `Settle`);
not that anybody mines, or that a transfer succeeds. `StatisticsCatchUp` has a
premise, because `calc` overwrites what rounds and registrations add while it is
suspended: only once those cease is the next run of `calc` sure to get it right.
Client: a call is answered or rejected and a promise's continuation runs, timers
fire; users do what they like or nothing, wallets may never answer. Each module
collects this in an action (`Progress`, or the conjuncts of `Spec`), and `parts`
needs one `WF` of the disjunction, since a behaviour has one part and what is
under way in a part ends whichever is answered first.

**What fails.** `upgrade_order`: the level is read before two awaits
(`main.rs:224`) and written after them, so of two overlapping upgrades the later
reply may lower the level. `halted`: a failed `dog_info` counts as STOP
(`idog.rs:18`), `calc` marks the dog stopped, and since the dog is still ACTIVITY
it never reports, so main shows "Mining halted due to low Cycles balance" for
good. `treasury`: 3% of the rewards are promised to the treasury (`Home.tsx:71`);
the result of that transfer is dropped (`main.rs:674`), so a failed one is lost.
`actors`: the adapter caches actors by canister only (`index.js:113`), so after a
change of user calls go on under the former one's identity.

Met while modelling, part of the modules, and not runs of their own:

* Upgrade: the $DOGMI of the last level goes to the DAO's treasury
  (`main.rs:228`), where the client says that upgrade fees are destroyed. The list
  for phones offers GO to a Diamond dog, for which `opentopupmodal`
  (`DogMiner.tsx:233`) has no text of its own.
* Amounts: "Insufficient amount" (`DogMiner.tsx:477`) compares with the balance
  alone, so the whole balance is offered for Confirm and refused, as the approval
  costs a fee. An amount with more decimals than the token has makes `BigInt` throw
  after the spinner was raised (`DogMiner.tsx:276`, `Wallet.tsx:161`): it turns until
  the page is left (`dead`, `stuck`). "Max" of the page Wallet makes a balance below
  the fee a negative amount (`Wallet.tsx:118`), which the form accepts and the
  encoding of the call refuses (`BtnMax`, `TransferThrown`).
* Lists: an older answer that comes last replaces a newer one (`MinerList`), and two
  refreshes of the alliances that overlap leave rows twice (`AllianceList`); the
  properties say exactly when this is excused.
* Dashboard: the oldest record of the window is on no page (`main.rs:765`). "Block
  Mined" of an alliance counts its present members' blocks, whenever mined.
* Batches: a retry marks steps that have no method as completed
  (`batchTransact.js:132`); a second `execute` wraps the callbacks again.
* Session: `disconnect` of the adapter leaves `principalId` (`index.js:68`), and for a
  wallet that is not installed `connect` opens its site and returns `principalId`
  (`index.js:55-58`). Whoever disconnects and then chooses such a wallet is shown as
  connected again, without a provider, and stored under that wallet
  (`connect.ts:20-24`); so is the user of an overlapping connect. A reload then finds
  the wallet missing and restores nobody. `StoredWalletGranted` names this exception
  (`Missing`) and shows that there is no other.
* Figures: `divideAndConvertToNumber` (`common.ts:51`) says that it floors; making a
  Number of the text rounds to the nearest (`Amounts`).
* Rewards: at the 64th halving the divisor wraps to 0 and everything computed from
  the reward traps (`main.rs:1180`), the home page's counts of miners with it.
* Dog: ore and difficulty are compared separately, so that for a while a dog may
  mine on the ore of one answer at the difficulty of another (`OreFeed`).
* ICP: what a failed transfer or a failed creation leaves with main has no way out
  (`kept`), and what a failed `notify_top_up` leaves with the minting canister only
  if somebody notifies it again.

## 5. Proofs

All theorems hold for any values of the constants, from what the modules assume
of them by name (`MaxPoolsAssumption`, `SlotsAssumption`, `MaxReportsAssumption`,
`BudgetAssumption` of `Mining`; the assumptions of `OreRound`; `WalletsAssumption`,
`NoneAssumption`; `HomeAssumption`; `PaidAssumption`; `PartsAssumption`, which collects
those of the parts).

* `TypesHold`, `QueuesHold`: `TypeOK` is not inductive alone (a reply
  changes the call its slot names, which must be waiting), so it is proved
  together with `QueueInv`: each request in flight belongs to the call suspended
  in its slot, and no two to the same.
* `RegistryHolds`, `CreationsHold`: `RegistryConsistent` needs `CreationInv`
  (the dog a `create_dog` is about to register is installed, not registered, and
  nobody else's; calls about a dog are about a registered one).
* `AllianceHolds`, `ModeHolds`, `TimersHold`: two lemmas, `StepOfMain` and
  `StepOfDogs`, say which segments a step may apply to the maps and to a dog;
  each invariant is then proved once per segment.
* `LevelsPaidHolds`, `PaymentHolds`: a level is kept in four places (dog, entry,
  suspended call, request in flight); one lemma each says where a step may take
  it from, and `PaymentInv` (a call asks for a level whose predecessors are paid,
  and is paid itself once past the ledger) closes the circle.
* `AgreementHolds`: that main and a dog agree when nothing is under way says
  nothing of the time in between, so three parts are added. `RequestInv`: a request
  asks what the call in its slot asks. `ExchangeInv`, about each dog not yet
  disturbed: one exchange at a time (a call, a report or its acknowledgement, never
  two), what it was opened on still holds at the dog, and the two sides differ only
  by what one has yet to apply, so that the last step of the exchange closes the
  gap; the alliance of the entry is the only one that lists the dog. `LevelInv`: the
  same for its level. A step that would break one of these disturbs the dog.
* `RoundTypesHold`, `GuardHolds`, `ChainHolds`, `DayCapHolds`: none of these is
  inductive alone, so `RoundInv` is: `TypeOK`, `GuardHeld`, `ChainLinked`, `CapInv`
  (a suspended round has room under the cap, and stays that way because the
  window only loses blocks while nobody else can log one) and `CreditInv` (who
  was paid for the ore in force was paid by the round that is suspended, and is
  no longer on its list; an ore not yet made was paid to nobody). Lemmas reduce
  each action to one of three steps of a round (it goes on, finishes or gives
  up); each part of `RoundInv` is then shown once per kind of step.
* `PaidAtMostOnceHolds`, `CountsHold`: from `RoundInv` and the same three kinds.
* `ChainImplemented`: going on is `Credit` or a stutter, finishing is `Mine`, an
  upgrade is `Replace` (`CreditInv`: with no round suspended nobody has been paid),
  and everything else a stutter.
* `SessionTypeOK`, `ShownWasGranted`, `StoredWalletWasGranted`, `AccountIsUsers`,
  `RequestsOpenModal`: one inductive invariant for the session, which adds to the
  properties that the adapter knows the principal granted last, that a principal is
  never remembered without its wallet, and that what is being restored is what was
  stored when the page was loaded.
* `TimeIsOfHeight`, `SupplyNeverUnderstated`: the chains of the home page in the
  order of their states: what a chain has read so far relates to the log, which
  only grows, and to the blackhole, which nothing leaves.
* `PaidTypesHold`, `RefusalsExplained`, `LittleLeftApproved`: the invariant says what
  each undisturbed operation may rely on at each of its steps: before the approval
  its price and fee on the account, after it exactly its own approval and its price,
  after the charge the difference of the two. A step of another operation on the
  same token takes the word "undisturbed" away; one on another token changes
  nothing. That an approval covers its price is a lemma about the amounts, and that
  the level decides on a price only through the token is another.
* `SpinnersTrue`, `ButtonsDisabled`: inductive together with `OneOfAKind` (no two
  operations of one kind and one mount, but for creations): else the end of one
  would lower the spinner of the other.
* `RewardHoldsUntilShown`: the reward is the same on every day before the one
  `get_day` shows, for any cycle and any width (no state is involved: days of one
  period have one quotient).
* `RewardHalvesOnTime`: the chain that reads the reward has read a height and then
  the day, and both only grow, so that what it shows is the reward of a day between
  the two.
* `RewardBoundHolds`: what is paid for an ore is no more than its reward. `RewardInv`
  follows each suspended round: everybody was paid nothing or his share, and the
  shares of a round, each rounded down, come to no more than what they divide. A
  sum is a number of units here (`Units`), and that shares of a whole have fewer
  units than it is shown by induction over the set of those who share.

`PartsProofs` and `PagesProofs`: one invariant for each part of `Parts`, a lemma
`...Hold` that it is kept while the part is open, and theorems that join them.

* `BarAlwaysTellsTime`: the bar and the timer, started together, differ by what
  hovering held up.
* `SequencesAlwaysTrue`: a batch is in one of two conditions (`BatchInv`). `Clean(p)`:
  all before step p is done and nothing from it on, every group is whole or empty.
  `Stuck(g)`: a retry has cut steps out of group g, and since the wrappers count
  places in the whole group, the loops never get past it. `done` is reached from the
  first only. For the ICP, a sum over the suspended handlers, `Balanced` needs what
  each handler has taken, by what it awaits.
* `WalletAlwaysTrue`, `StepsAlwaysTrue`: a transfer whose figures were those of
  the ledger finds its amount and its fee there until it is answered (`TransferInv`),
  since of this user's money nothing else goes. For the figures: no two balances
  below 2^(Bits - 1) parse to one Number; above, rounding keeps the order, and the
  balances with one Number form an interval whose shortest text depends on it only. That the queue of a dog and what it has sent share no find needs only that
  finds are numbered.
* `ListsAlwaysTrue`: for the dogs, `LastAsked` (the request sent last is the
  connected user's, and its answer, or the list once that is shown, has the user's dogs
  as the registry has them) and `LastShown` (the dogs whose cycles are asked for are
  those of the list). For the alliances, as long as no two refreshes overlap, the one
  under way has yet to bring only rows that are not shown (`OneRefresh`); whatever
  overlaps, some refresh will have shown all that are missing (`AllComing`); a dog
  listed as alone is in no alliance until a join is done (`AloneIsFree`).
* `DashboardAlwaysTrue`: the pages of one log partition the window without its oldest
  record: the record k from the top is on page (k - 1) div r and on no other
  (`PageIs`, `PagesCover`). Queries have numbers of their own, and the last asks for the
  page and the rows shown (`NumbersTrue`). What has been seen while paging forward is
  an interval (`SeenTrue`); a page under way for the next one begins no lower than
  right below it, because the log only grows (`Fits`), or else the interval ends at
  the oldest record a page ever shows. For the tables, a dog's blocks are its records
  in the log (`BlocksCounted`), so that the columns of a row are those of the state it
  was read in, and ranking moves rows without changing them (`RankedIs`).
* `TypesAlwaysOK`: the type invariants, which these invariants imply.

The proofs use no induction theorem of the library, which need an operator as an
argument. Induction over numbers and over the subsets of a finite set is proved for
sets instead (`NatSetInduction`, `SubsetInduction` of `PartsProofs`: a set that holds 0
and each successor holds every number), and a function defined by recursion is met
through a table of which it is shown that it exists.

Trying to prove these found, and the models now say:

* a batch retried twice may run the steps of one group out of order, if the group
  has four steps or more: the first retry leaves two gaps. Instances of 3 steps did
  not show it; `InOrder` excuses it, and the instance has 4 now;
* which of the cases of `Following` applied was ambiguous where two hold;
* what the modules take for granted of `None`: it is no user, token, dog, number or
  set of dogs (`MinerListAssumption`, `SendAssumption`, `PagesAssumption`); a page has asked
  once when it is mounted (`MaxTurns`, `Requests` not empty);
* Numbers have a finest step, 2^-GridBits, so small that one unit still has all its
  bits (`AmountsAssumption`; in the code it is 2^-1074).

Every invariant and every action property that a run checks is a theorem. Only
model-checked are the liveness properties, which are beyond the prover:
`PartsSettle`, `LowCyclesHalt`, `HighCyclesMine`, `RoundEnds`, `StatisticsCatchUp`,
`DifficultyRecovers`, `SpinnersStop` and `FiguresCome`, each under the fairness of
section 4. The inductive invariants of the ten parts
hold on the instance of `parts`, too.

## 6. Plan

Done: `Mining`, `OreRound` with `OreChain`, `OreFeed`, `Treasury`, the pagination
and rankings, the client's session, batches, paid operations and pages.
Left: liveness as theorems, which would need another prover; a composition of the
session with the pages (a page that stays open while the user changes).

### Not modelled

* Canisters: the upgrade of a dog (neither `bone_main` nor a script performs one;
  `DOG_CONTEXT` and the timers would be lost), lookups that return one stored
  entry, `get_top10_miners` (the table of `Standings` by dog), the DIP20 and ICRC-1
  branches of `itoken`, candid encoding.
* Adapter: the branch of `batchTransact.js` that hands a group to Plug (99-110),
  `stoicidentity.js`, which nothing imports.
* Client: text, layout and formatting (`formatAmountByUnit`), state that is set
  and never rendered, the early returns for a missing user or name (those send
  nothing), and the one smallest unit that approvals add.
* Generated declarations, build and deployment scripts: no behaviour of their own.
