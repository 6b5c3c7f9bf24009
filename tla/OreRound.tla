------------------------------ MODULE OreRound ------------------------------
(***************************************************************************)
(* The ore round of the main canister: verify_ore with its guard, ledger   *)
(* calls, difficulty and log; the statistics of calc; upgrades of main.    *)
(*                                                                         *)
(* A verify_ore that passed its checks is a record in rounds while it      *)
(* awaits the ledger; a calc is a record in calcs while it asks the dogs.  *)
(* Ores are numbered in the order main makes them, and ages stand for the  *)
(* time since a block, so that time can pass for ever.  Which dogs of an   *)
(* alliance are active is the registry's matter (module Mining): here a    *)
(* round may find any set of registered dogs.                              *)
(***************************************************************************)
EXTENDS Naturals, Sequences, FiniteSets, StableMap

CONSTANTS
    Dogs,                   \* the dogs that may register
    RoundSlots,             \* bound: rounds suspended at once
    CalcSlots,              \* bound: runs of calc suspended at once
    Main,                   \* the principal of the main canister
    Weight,                 \* Weight[d]: dog_level.weight() of d
    MaxWeight,
    mining_output_amount,
    reward_rate,            \* in 10000ths
    MAST_OUT_CNT,
    FewPerDay, ManyPerDay, ManyPerHour,    \* 50, 90 and 10 in the code
    Quarter, FortyMinutes, Hour, Day,      \* in ticks of the clock
    MaxDifficulty,          \* bound: the difficulty stays there
    MaxOres                 \* bound: ores made in a behaviour

BASE_ORE_DIFFICULTY == 6
StartDifficulty == 7

ASSUME MainAssumption == Main \notin Dogs
ASSUME DogsAssumption == IsFiniteSet(Dogs)
ASSUME WeightAssumption ==
    MaxWeight \in Nat /\ Weight \in [Dogs -> 1 .. MaxWeight]
ASSUME AmountAssumption ==
    mining_output_amount \in Nat /\ reward_rate \in 0 .. 10000
ASSUME CapAssumption ==
    MAST_OUT_CNT \in Nat \ {0} /\ Day \in Nat \ {0}
ASSUME DifficultyAssumption ==
    MaxDifficulty \in Nat /\ MaxDifficulty >= StartDifficulty
ASSUME MaxOresAssumption == MaxOres \in Nat

VARIABLES
    ore,            \* BASE_CONTEXT.ore
    difficulty,     \* BASE_CONTEXT.ore_difficulty
    output,         \* mining_output_amount after the halvings so far
    pending,        \* the pending_requests of CallerGuard
    logCounter,     \* LOG_COUNTER
    record,         \* ORE_RECORD
    oreCnt,         \* oreCnt[d]: ore_cnt of d in DOGS_MAP
    blockReward,    \* CALC_CONTEXT.block_reward
    minders,        \* CALC_CONTEXT.total_number_of_minder
    registered,     \* the dogs of MINERS_MAP
    rounds,         \* rounds[s]: the suspended verify_ore in slot s
    calcs,          \* calcs[c]: the suspended calc in slot c
    paid,           \* history: paid[o][e], what the ledger paid e for ore o
    treasury        \* history: what the ledger paid the treasury

roundVars == <<ore, pending, logCounter, record, oreCnt, rounds>>
statVars == <<blockReward, minders>>
vars == <<roundVars, statVars, difficulty, output, registered, calcs, paid,
          treasury>>

(***************************************************************************)
(* The log and the amounts.                                                *)
(***************************************************************************)
LastKey == CHOOSE k \in DOMAIN record : \A j \in DOMAIN record : j <= k
LastAge == record[LastKey].age

\* verify_ore counts backwards and stops at the first block out of the window.
MinedToday ==
    Cardinality({k \in DOMAIN record :
                    \A j \in DOMAIN record : j >= k => record[j].age < Day})

\* calc counts the whole log.
MinedWithin(window) ==
    Cardinality({k \in DOMAIN record : record[k].age < window})

\* The sum of the values of f, none above max: as the number of units in it.
Units(f, max) ==
    Cardinality({u \in (DOMAIN f) \X (1 .. max) : u[2] <= f[u[1]]})

\* What calc adds up over the log.
LogSum == Units([k \in DOMAIN record |-> record[k].reward], mining_output_amount)

\* get_award_amount
Fee == (output * reward_rate) \div 10000
Reward == output - Fee

\* A wrong variant, to be refuted: every member is paid the whole reward.
ShareUndivided(e, dogs) == Reward

\* total_amount and v of an alliance's round.
TotalWeight(dogs) == Units([e \in dogs |-> Weight[e]], MaxWeight)
Share(e, dogs) == (Reward * Weight[e]) \div TotalWeight(dogs)

(***************************************************************************)
(* Rounds.                                                                 *)
(***************************************************************************)
\* alone: no mining_alliance; share: the amounts of the beneficiaries, each
\* named by its dog; todo: those still to be paid; fee: the treasury's part.
Round ==
    [dog: Dogs, ore: 0 .. MaxOres, reward: Nat, fee: Nat, alone: BOOLEAN,
     share: [Dogs -> Nat], todo: SUBSET Dogs]
NoRound == [dog |-> Main]

Calc == [sum: Nat, minders: Nat]
NoCalc == [sum |-> 0]

AloneRound(d) ==
    [dog |-> d, ore |-> ore, reward |-> Reward, fee |-> Fee, alone |-> TRUE,
     share |-> [e \in Dogs |-> IF e = d THEN Reward ELSE 0],
     todo |-> {e \in {d} : Reward > 0}]

\* dogs: the active members of the alliance when the round is verified.
AllianceRound(d, dogs) ==
    [dog |-> d, ore |-> ore, reward |-> Reward, fee |-> Fee, alone |-> FALSE,
     share |-> [e \in Dogs |-> IF e \in dogs THEN Share(e, dogs) ELSE 0],
     todo |-> dogs]

Outstanding(r) == r.todo # {} \/ r.fee > 0

\* A wrong variant, to be refuted: the guard is the caller's.
GuardKeyOfCaller(d) == d

\* CallerGuard::new(id()): the guard is the canister's, not the caller's.
GuardKey(d) == Main

\* A wrong variant, to be refuted: the guard is never dropped.
UnlockedNever(d) == pending

Unlocked(d) == pending \ {GuardKey(d)}

\* A wrong variant, to be refuted: the ore stays in force.
NewOreUnchanged == ore

\* A hash of the ore in force, the find, the time and the cycles: fresh.
NewOre == ore + 1

\* A wrong variant, to be refuted: the key is read before it is counted.
AddOreLogEarly(r) ==
    /\ logCounter' = logCounter + 1
    /\ record' = Insert(record, logCounter,
                        [dog |-> r.dog, old |-> r.ore, new |-> NewOre,
                         reward |-> r.reward, age |-> 0])

\* count_log and the insertion of add_ore_log.
AddOreLog(r) ==
    /\ logCounter' = logCounter + 1
    /\ record' = Insert(record, logCounter + 1,
                        [dog |-> r.dog, old |-> r.ore, new |-> NewOre,
                         reward |-> r.reward, age |-> 0])

\* verify_ore after its last transfer: a new ore, the log, the finder's
\* count; the guard is dropped on return.
Finish(s, r) ==
    /\ ore' = NewOre
    /\ blockReward' = blockReward + r.reward
    /\ AddOreLog(r)
    /\ oreCnt' = [oreCnt EXCEPT ![r.dog] = @ + 1]
    /\ pending' = Unlocked(r.dog)
    /\ rounds' = [rounds EXCEPT ![s] = NoRound]
    /\ UNCHANGED minders

\* verify_ore up to its next transfer, or to its end if none is left.
Proceed(s, r) ==
    \/ /\ Outstanding(r)
       /\ rounds' = [rounds EXCEPT ![s] = r]
       /\ pending' = pending \cup {GuardKey(r.dog)}
       /\ UNCHANGED <<ore, logCounter, record, oreCnt, statVars>>
    \/ /\ ~Outstanding(r)
       /\ Finish(s, r)

\* A wrong variant, to be refuted: one block over the cap.
CappedOffByOne == MinedToday > MAST_OUT_CNT

Capped == MinedToday >= MAST_OUT_CNT

\* The difficulty that verify_ore leaves behind.
VerifiedDifficulty ==
    IF record = EmptyMap THEN difficulty
    ELSE IF /\ MinedToday < FewPerDay
            /\ difficulty > BASE_ORE_DIFFICULTY
            /\ LastAge > Quarter
         THEN difficulty - 1
    ELSE IF /\ MinedToday >= ManyPerDay
            /\ LastAge < Quarter
            /\ difficulty < MaxDifficulty
         THEN difficulty + 1
    ELSE difficulty

\* verify_ore with a find that matches the ore in force, up to its first
\* transfer.  (Without a match, when a light dog loses the draw on the cycles,
\* and when the guard is taken, nothing changes.)
Verify(s, d) ==
    /\ rounds[s] = NoRound
    /\ d \in registered
    /\ GuardKey(d) \notin pending
    /\ ore < MaxOres
    /\ ~Capped
    /\ difficulty' = VerifiedDifficulty
    /\ \/ Proceed(s, AloneRound(d))
       \/ \E dogs \in SUBSET registered : Proceed(s, AllianceRound(d, dogs))
    /\ UNCHANGED <<output, registered, calcs, paid, treasury>>

\* A transfer to beneficiary e has succeeded.
Paid(s, e) ==
    /\ rounds[s] # NoRound
    /\ e \in rounds[s].todo
    /\ LET r == rounds[s]
       IN  /\ paid' = [paid EXCEPT ![r.ore][e] = @ + r.share[e]]
           /\ Proceed(s, [r EXCEPT !.todo = @ \ {e}])
    /\ UNCHANGED <<difficulty, output, registered, calcs, treasury>>

\* A transfer to beneficiary e has failed: a dog alone gives the round up, an
\* alliance goes on without the share.
PaymentFailed(s, e) ==
    /\ rounds[s] # NoRound
    /\ e \in rounds[s].todo
    /\ LET r == rounds[s]
       IN  \/ /\ r.alone
              /\ rounds' = [rounds EXCEPT ![s] = NoRound]
              /\ pending' = Unlocked(r.dog)
              /\ UNCHANGED <<ore, logCounter, record, oreCnt, statVars>>
           \/ /\ ~r.alone
              /\ Proceed(s, [r EXCEPT !.todo = @ \ {e}])
    /\ UNCHANGED <<difficulty, output, registered, calcs, paid, treasury>>

\* The transfer to the treasury has succeeded or failed; the code looks at
\* neither.
FeeSettled(s) ==
    /\ rounds[s] # NoRound
    /\ rounds[s].todo = {}
    /\ treasury' \in {treasury, treasury + rounds[s].fee}
    /\ Finish(s, rounds[s])
    /\ UNCHANGED <<difficulty, output, registered, calcs, paid>>

(***************************************************************************)
(* Statistics, registration, time and upgrades.                            *)
(***************************************************************************)
\* A wrong variant, to be refuted: calc stops one above the floor.
LoweredOffByOne(n) ==
    IF /\ MinedWithin(Day) < MAST_OUT_CNT
       /\ LastAge > FortyMinutes
       /\ n > BASE_ORE_DIFFICULTY + 1
    THEN n - 1 ELSE n

\* The two adjustments of calc, in their order.
Lowered(n) ==
    IF /\ MinedWithin(Day) < MAST_OUT_CNT
       /\ LastAge > FortyMinutes
       /\ n > BASE_ORE_DIFFICULTY
    THEN n - 1 ELSE n

Raised(n) ==
    IF MinedWithin(Hour) >= ManyPerHour /\ n < MaxDifficulty THEN n + 1 ELSE n

\* calc up to its first call of a dog.  On an empty log it traps.
CalcStart(c) ==
    /\ calcs[c] = NoCalc
    /\ record # EmptyMap
    /\ difficulty' = Raised(Lowered(difficulty))
    /\ calcs' = [calcs EXCEPT ![c] = [sum |-> LogSum,
                                      minders |-> Cardinality(registered)]]
    /\ UNCHANGED <<roundVars, statVars, output, registered, paid, treasury>>

\* A wrong variant, to be refuted: calc keeps the sum on display.
CalcTotalKept(c) == blockReward

\* block_reward as calc writes it.
CalcTotal(c) == calcs[c].sum

\* The last dog has answered: calc writes what it read at its start.
CalcEnd(c) ==
    /\ calcs[c] # NoCalc
    /\ blockReward' = CalcTotal(c)
    /\ minders' = calcs[c].minders
    /\ calcs' = [calcs EXCEPT ![c] = NoCalc]
    /\ UNCHANGED <<roundVars, difficulty, output, registered, paid, treasury>>

\* create_dog, as far as the statistics go.
RegisterDog(d) ==
    /\ d \notin registered
    /\ registered' = registered \cup {d}
    /\ minders' = minders + 1
    /\ UNCHANGED <<roundVars, blockReward, difficulty, output, calcs, paid,
                   treasury>>

\* Ages grow up to Day: no code tells older blocks apart.
Older(n) == IF n < Day THEN n + 1 ELSE n

Clock ==
    /\ record' = [k \in DOMAIN record |-> [record[k] EXCEPT !.age = Older(@)]]
    /\ UNCHANGED <<ore, pending, logCounter, oreCnt, rounds, statVars,
                   difficulty, output, registered, calcs, paid, treasury>>

\* A halving period ends: 2^k in get_award_amount doubles.
Halve ==
    /\ output > 0
    /\ output' = output \div 2
    /\ UNCHANGED <<roundVars, statVars, difficulty, registered, calcs, paid,
                   treasury>>

\* A wrong variant, to be refuted: the counter starts again.
RestoredCounterLost == 0

\* The log counter after an upgrade.
RestoredCounter == IF record = EmptyMap THEN 0 ELSE LastKey

\* post_upgrade: the heap is new, the stable maps are kept.  An upgrade waits
\* until the canister has stopped, that is, until nothing is suspended.
UpgradeMain ==
    /\ \A s \in RoundSlots : rounds[s] = NoRound
    /\ \A c \in CalcSlots : calcs[c] = NoCalc
    /\ ore < MaxOres
    /\ ore' = NewOre
    /\ difficulty' = StartDifficulty
    /\ pending' = {}
    /\ logCounter' = RestoredCounter
    /\ blockReward' = 0
    /\ minders' = 0
    /\ UNCHANGED <<record, oreCnt, rounds, output, registered, calcs, paid,
                   treasury>>

Init ==
    /\ ore = 0
    /\ difficulty = StartDifficulty
    /\ output = mining_output_amount
    /\ pending = {}
    /\ logCounter = 0
    /\ record = EmptyMap
    /\ oreCnt = [d \in Dogs |-> 0]
    /\ blockReward = 0
    /\ minders = 0
    /\ registered = {}
    /\ rounds = [s \in RoundSlots |-> NoRound]
    /\ calcs = [c \in CalcSlots |-> NoCalc]
    /\ paid = [o \in 0 .. MaxOres |-> [e \in Dogs |-> 0]]
    /\ treasury = 0

Settle(s) ==
    \/ \E e \in Dogs : Paid(s, e) \/ PaymentFailed(s, e)
    \/ FeeSettled(s)

Next ==
    \/ \E s \in RoundSlots : Settle(s) \/ \E d \in Dogs : Verify(s, d)
    \/ \E c \in CalcSlots : CalcStart(c) \/ CalcEnd(c)
    \/ \E d \in Dogs : RegisterDog(d)
    \/ Clock
    \/ Halve
    \/ UpgradeMain

Spec == Init /\ [][Next]_vars

\* Time passes, the hourly timer fires, and every call gets a response.
Fairness ==
    /\ WF_vars(Clock)
    /\ \A s \in RoundSlots : WF_vars(Settle(s))
    /\ \A c \in CalcSlots : WF_vars(CalcStart(c)) /\ WF_vars(CalcEnd(c))

FairSpec == Spec /\ Fairness

(***************************************************************************)
(* Properties.                                                             *)
(***************************************************************************)
Suspended == {s \in RoundSlots : rounds[s] # NoRound}

LogRecord ==
    [dog: Dogs, old: 0 .. MaxOres, new: 0 .. MaxOres, reward: Nat, age: 0 .. Day]

\* The part of TypeOK about the variables that a round changes.
RoundTypeOK ==
    /\ ore \in 0 .. MaxOres
    /\ pending \in SUBSET {Main}
    /\ logCounter \in Nat
    /\ record \in [DOMAIN record -> LogRecord]
    /\ DOMAIN record \in SUBSET Nat
    /\ oreCnt \in [Dogs -> Nat]
    /\ blockReward \in Nat
    /\ minders \in Nat
    /\ rounds \in [RoundSlots -> Round \cup {NoRound}]

\* Type correctness; the difficulty stays at or above BASE_ORE_DIFFICULTY.
TypeOK ==
    /\ RoundTypeOK
    /\ difficulty \in BASE_ORE_DIFFICULTY .. MaxDifficulty
    /\ output \in 0 .. mining_output_amount
    /\ registered \in SUBSET Dogs
    /\ calcs \in [CalcSlots -> Calc \cup {NoCalc}]
    /\ paid \in [0 .. MaxOres -> [Dogs -> Nat]]
    /\ treasury \in Nat

\* CallerGuard: it is taken exactly while a round is suspended, no two rounds
\* are suspended at once, and the ore a suspended round copied before its
\* awaits (context.ore) is still the ore in force when it resumes.
GuardHeld ==
    /\ pending = IF Suspended = {} THEN {} ELSE {Main}
    /\ \A s, t \in Suspended : s = t
    /\ \A s \in Suspended : rounds[s].ore = ore

\* The log is dense from key 1, upgrades or not, and linked: every block
\* consumed the ore its predecessor made, or one that an upgrade made later.
ChainLinked ==
    /\ DOMAIN record = 1 .. logCounter
    /\ \A k \in DOMAIN record :
            /\ record[k].old < record[k].new
            /\ record[k].new <= ore
            /\ \A j \in DOMAIN record : j < k => record[j].new <= record[k].old

PaidFor(o) == Units(paid[o], mining_output_amount)

\* An ore is paid for at most once over, whatever transfers fail and are
\* tried again in a later round: what the ledger paid for it is bounded by
\* the reward of the one block, or of the one suspended round, that uses it.
RewardBound ==
    \A o \in 0 .. MaxOres : PaidFor(o) > 0 =>
        \/ \E k \in DOMAIN record :
                record[k].old = o /\ PaidFor(o) <= record[k].reward
        \/ \E s \in Suspended :
                rounds[s].ore = o /\ PaidFor(o) <= rounds[s].reward

\* Whatever fails and is tried again, nobody is paid twice for the same ore.
PaidAtMostOnce ==
    [][\A o \in 0 .. MaxOres : \A e \in Dogs :
            paid'[o][e] # paid[o][e] => paid[o][e] = 0]_vars

\* MAST_OUT_CNT: no 24 hours see more blocks, though a round checks the cap
\* before its transfers and logs its block after them.
DayCap == MinedWithin(Day) <= MAST_OUT_CNT

\* ore_cnt of a dog, kept in DOGS_MAP, is the number of its blocks in the log:
\* neither rounds nor upgrades lose a record.
CountsMatchLog ==
    \A d \in Dogs :
        oreCnt[d] = Cardinality({k \in DOMAIN record : record[k].dog = d})

\* The refinement mapping to OreChain: the log as the blocks.
MinedBlocks ==
    [k \in 1 .. logCounter |-> [dog |-> record[k].dog, old |-> record[k].old,
                                new |-> record[k].new]]

Chain == INSTANCE OreChain WITH
    blocks <- MinedBlocks,
    tip <- ore,
    credited <- {e \in Dogs : paid[ore][e] > 0}

\* The rounds implement the chain: one dog per block, nobody credited twice
\* for an ore, nothing credited for an ore that is given up.
ImplementsChain == Chain!Spec

\* verify_ore always lets the guard go.
RoundEnds == pending # {} ~> pending = {}

\* Once no ore changes and no dog registers any more, the statistics settle on
\* the log and the registry, in spite of a calc that wrote what it read long
\* before, and of an upgrade that zeroed them.
StatisticsCatchUp ==
    (<>[][UNCHANGED <<ore, registered>>]_vars /\ <>(record # EmptyMap))
        => <>[](blockReward = LogSum /\ minders = Cardinality(registered))

Quiet == record # EmptyMap /\ LastAge > FortyMinutes

\* Forty minutes without a block make calc lower the difficulty to the base,
\* unless a block comes first: a burst that raised it cannot stop mining.
DifficultyRecovers ==
    Quiet ~> (difficulty = BASE_ORE_DIFFICULTY \/ ~Quiet)

\* Home.tsx: a share of every reward goes to the treasury.  Fails: the result
\* of the transfer is not looked at.
TreasuryGetsShare ==
    [][\A s \in Suspended :
        rounds'[s] = NoRound /\ logCounter' > logCounter
            => treasury' = treasury + rounds[s].fee]_vars
=============================================================================
