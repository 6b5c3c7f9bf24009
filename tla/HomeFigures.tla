---------------------------- MODULE HomeFigures -----------------------------
(***************************************************************************)
(* The page Home (Home.tsx): figures of the log, of the BONE ledger and of *)
(* the reward schedule, each shown when its chain of queries has been      *)
(* answered, while blocks are mined, tokens move and days pass.            *)
(* A block is its height, a time the day it was mined on.                  *)
(***************************************************************************)
EXTENDS Integers, Sequences, FiniteSets

CONSTANTS
    Cycle,          \* cycle_time_template, in days
    Output,         \* mining_output_amount
    Width,          \* the bits of the divisor: 64 in the code
    MaxLog,         \* bound: blocks
    MaxDay,         \* bound: days since create_time
    Supply,         \* tokens of BONE in smallest units: constant, fees are left out
    MaxMoves,       \* bound: transfers on the ledger
    MaxFailures,    \* bound: queries that are rejected
    None,           \* a figure not shown
    Empty,          \* the list get_record_index returns for no record
    Trap            \* a canister that panics

ASSUME HomeAssumption ==
    /\ Cycle \in Nat \ {0} /\ Output \in Nat /\ Width \in Nat \ {0}
    /\ {MaxLog, MaxDay, Supply, MaxMoves, MaxFailures} \subseteq Nat
    /\ None \notin Nat /\ Empty # None /\ Trap \notin Nat
    /\ {None, Empty} \cap [high : 1 .. MaxLog, utc : 0 .. MaxDay] = {}

VARIABLES
    log,            \* ORE_RECORD: the day each block was mined on
    day,            \* days since create_time
    held,           \* the ledger: what the blackhole aaaaa-aa, bone_main and all others hold
    chain,          \* where each chain of queries of the mount is
    height,         \* currentblockheight.end_idx
    BlockTime,      \* the record get_record_index returned, None or the empty list
    supply,         \* Circulating_BONE_Supply: shown as Total Supply
    burned,         \* aaa_aaaa, a local of the chain of supply
    aa_Price,       \* shown as Circulating BONE Supply
    startinfo,      \* block_reward, and with it the counts of miners of the last patrol
    startPrice,     \* whether the price list has BONE's price
    having_days,
    circ,           \* history: what circulated when the last balance was read
    moves, failures

ledger == <<log, day, held>>
shown == <<height, BlockTime, supply, aa_Price, startinfo, startPrice, having_days>>
vars == <<ledger, chain, shown, burned, circ, moves, failures>>

(***************************************************************************)
(* The schedule of rewards.                                                *)
(***************************************************************************)
\* A wrong variant, to be refuted: the days of the running cycle that are over.
GetDayPast(d) == d % Cycle

\* get_day: the days until the reward halves.
GetDay(d) == Cycle - (d % Cycle)

\* 2u64.pow
Pow2[k \in Nat] == IF k = 0 THEN 1 ELSE 2 * Pow2[k - 1]

\* get_current_block_reward.  2^k overflows to 0 at k = Width: the division panics.
CurrentBlockReward(d) ==
    LET k == d \div Cycle
    IN  IF k > Width THEN 0
        ELSE IF k = Width THEN Trap
        ELSE Output \div Pow2[k]

(***************************************************************************)
(* The page.                                                               *)
(***************************************************************************)
Chains == {"decimals", "supply", "calc", "record", "days", "price"}

Init ==
    /\ log \in UNION {[1 .. n -> {0}] : n \in 0 .. MaxLog} /\ day = 0
    /\ held = [blackhole |-> 0, main |-> Supply, others |-> 0]
    /\ chain = [c \in Chains |-> IF c \in {"supply", "calc"} THEN "waiting" ELSE "asked"]
    /\ height = None /\ BlockTime = None /\ supply = None /\ burned = None /\ aa_Price = None
    /\ startinfo = None /\ startPrice = None /\ having_days = None /\ circ = None
    /\ moves = 0 /\ failures = 0

\* reqicrc1_decimals, and the two chains that wait for it.
ReqDecimals ==
    /\ chain["decimals"] = "asked"
    /\ chain' = [chain EXCEPT !["decimals"] = "done", !["supply"] = "asked", !["calc"] = "asked"]
    /\ UNCHANGED <<ledger, shown, burned, circ, moves, failures>>

\* reqicrc1_total_supply: three queries one after the other.
ReqTotalSupply ==
    /\ chain["supply"] = "asked" /\ chain' = [chain EXCEPT !["supply"] = "first"]
    /\ supply' = Supply
    /\ UNCHANGED <<ledger, height, BlockTime, burned, aa_Price, startinfo, startPrice, having_days, circ, moves,
                   failures>>

\* A wrong variant, to be refuted: bone_main's balance first.
MainFirst == <<"main", "blackhole">>

\* The balances that do not circulate, in the order they are asked for.
Accounts == <<"blackhole", "main">>

ReqFirstBalance ==
    /\ chain["supply"] = "first" /\ chain' = [chain EXCEPT !["supply"] = "second"]
    /\ burned' = held[Accounts[1]]
    /\ UNCHANGED <<ledger, shown, circ, moves, failures>>

ReqSecondBalance ==
    /\ chain["supply"] = "second" /\ chain' = [chain EXCEPT !["supply"] = "done"]
    /\ aa_Price' = supply - burned - held[Accounts[2]]
    /\ circ' = held.others
    /\ UNCHANGED <<ledger, height, BlockTime, supply, burned, startinfo, startPrice, having_days, moves, failures>>

\* A wrong variant, to be refuted: the figures wait for a block to be shown.
CalcAfterBlock ==
    /\ chain["calc"] = "asked" /\ BlockTime \notin {None, Empty}
    /\ chain' = [chain EXCEPT !["calc"] = IF CurrentBlockReward(day) = Trap THEN "rejected" ELSE "done"]
    /\ startinfo' = IF CurrentBlockReward(day) = Trap THEN startinfo ELSE CurrentBlockReward(day)
    /\ UNCHANGED <<ledger, height, BlockTime, supply, burned, aa_Price, startPrice, having_days, circ, moves,
                   failures>>

\* reqget_homepage_calc: nothing of it is shown if the reward cannot be computed.
ReqHomepageCalc ==
    /\ chain["calc"] = "asked"
    /\ chain' = [chain EXCEPT !["calc"] = IF CurrentBlockReward(day) = Trap THEN "rejected" ELSE "done"]
    /\ startinfo' = IF CurrentBlockReward(day) = Trap THEN startinfo ELSE CurrentBlockReward(day)
    /\ UNCHANGED <<ledger, height, BlockTime, supply, burned, aa_Price, startPrice, having_days, circ, moves,
                   failures>>

\* req_get_record_idx: 0 for an empty log.
ReqRecordIdx ==
    /\ chain["record"] = "asked" /\ chain' = [chain EXCEPT !["record"] = "index"]
    /\ height' = Len(log)
    /\ UNCHANGED <<ledger, BlockTime, supply, burned, aa_Price, startinfo, startPrice, having_days, circ, moves,
                   failures>>

Record(h) == [high |-> h, utc |-> log[h]]

\* A wrong variant, to be refuted: counted from the newest block, as by the unused
\* req_get_record_index of the Dashboard.
RecordRev ==
    /\ chain["record"] = "index" /\ chain' = [chain EXCEPT !["record"] = "done"]
    /\ BlockTime' = IF height < Len(log) THEN Record(Len(log) - height) ELSE Empty
    /\ UNCHANGED <<ledger, height, supply, burned, aa_Price, startinfo, startPrice, having_days, circ, moves,
                   failures>>

\* req_get_record_index: the one record at the height read before.
ReqRecordIndex ==
    /\ chain["record"] = "index" /\ chain' = [chain EXCEPT !["record"] = "done"]
    /\ BlockTime' = IF height \in 1 .. Len(log) THEN Record(height) ELSE Empty
    /\ UNCHANGED <<ledger, height, supply, burned, aa_Price, startinfo, startPrice, having_days, circ, moves,
                   failures>>

ReqHavingDays ==
    /\ chain["days"] = "asked" /\ chain' = [chain EXCEPT !["days"] = "done"]
    /\ having_days' = GetDay(day)
    /\ UNCHANGED <<ledger, height, BlockTime, supply, burned, aa_Price, startinfo, startPrice, circ, moves, failures>>

\* req_getICPPrice: the list of prices may be empty.
ReqICPPrice ==
    /\ chain["price"] = "asked" /\ chain' = [chain EXCEPT !["price"] = "done"]
    /\ startPrice' \in BOOLEAN
    /\ UNCHANGED <<ledger, height, BlockTime, supply, burned, aa_Price, startinfo, having_days, circ,
                   moves, failures>>

\* Nobody catches a rejected query: its chain ends.
Rejected(c) ==
    /\ chain[c] \notin {"waiting", "done", "rejected"}
    /\ failures < MaxFailures /\ failures' = failures + 1
    /\ chain' = [chain EXCEPT ![c] = "rejected"]
    /\ UNCHANGED <<ledger, shown, burned, circ, moves>>

\* What the page renders.  A figure that has not come is blank, 0 or asterisks: None.
BoneInfo == [TotalSupply |-> supply]

StatsLeft ==
    [BonePrice |-> IF startPrice = FALSE THEN None ELSE startPrice,
     TotalNumberOfMiners |-> startinfo, CurrentBlockHeight |-> height,
     CurrentBlockReward |-> startinfo]

StatsRight ==
    [CurrentActiveMiners |-> startinfo, CirculatingBoneSupply |-> aa_Price,
     BlockTime |-> IF BlockTime = Empty THEN None ELSE BlockTime,
     TimeUntilNextHalving |-> having_days]

(***************************************************************************)
(* The canisters and the ledger.                                           *)
(***************************************************************************)
AddOreLog ==
    /\ Len(log) < MaxLog /\ log' = Append(log, day)
    /\ UNCHANGED <<day, held, chain, shown, burned, circ, moves, failures>>

DayPasses ==
    /\ day < MaxDay /\ day' = day + 1
    /\ UNCHANGED <<log, held, chain, shown, burned, circ, moves, failures>>

\* Rewards leave bone_main, upgrades and alliances are paid to the blackhole, and
\* anybody may pay to bone_main.  Nothing leaves the blackhole.
Transfer(from, to) ==
    /\ moves < MaxMoves /\ moves' = moves + 1
    /\ held[from] > 0
    /\ held' = [held EXCEPT ![from] = @ - 1, ![to] = @ + 1]
    /\ UNCHANGED <<log, day, chain, shown, burned, circ, failures>>

Requests ==
    \/ ReqDecimals \/ ReqTotalSupply \/ ReqFirstBalance \/ ReqSecondBalance \/ ReqHomepageCalc
    \/ ReqRecordIdx \/ ReqRecordIndex \/ ReqHavingDays \/ ReqICPPrice

Next ==
    \/ Requests
    \/ \E c \in Chains : Rejected(c)
    \/ AddOreLog \/ DayPasses
    \/ Transfer("main", "others") \/ Transfer("others", "blackhole") \/ Transfer("others", "main")

\* Queries are answered or rejected.
Spec ==
    /\ Init /\ [][Next]_vars
    /\ WF_vars(ReqDecimals) /\ WF_vars(ReqTotalSupply \/ ReqFirstBalance \/ ReqSecondBalance)
    /\ WF_vars(ReqHomepageCalc) /\ WF_vars(ReqRecordIdx \/ ReqRecordIndex) /\ WF_vars(ReqHavingDays)
    /\ WF_vars(ReqICPPrice)

(***************************************************************************)
(* Properties.                                                             *)
(***************************************************************************)
\* Type invariant.
TypeOK ==
    /\ log \in Seq(0 .. MaxDay) /\ day \in 0 .. MaxDay
    /\ held \in [{"blackhole", "main", "others"} -> 0 .. Supply]
    /\ held.blackhole + held.main + held.others = Supply
    /\ chain \in [Chains -> {"waiting", "asked", "first", "second", "index", "done", "rejected"}]
    /\ height \in Nat \cup {None}
    /\ BlockTime \in {None, Empty} \cup [high : 1 .. MaxLog, utc : 0 .. MaxDay]
    /\ supply \in {None, Supply} /\ aa_Price \in (0 .. Supply) \cup {None}
    /\ startinfo \in (0 .. Output) \cup {None} /\ startPrice \in BOOLEAN \cup {None}
    /\ having_days \in (1 .. Cycle) \cup {None}

\* Block Time is the time of the block at Current Block Height, though the log
\* grows between the two queries, and once its query is answered it is missing only
\* if there was no block (Home.tsx:121-130).
TimeOfHeight ==
    /\ StatsRight.BlockTime # None =>
         /\ StatsRight.BlockTime.high = StatsLeft.CurrentBlockHeight
         /\ StatsRight.BlockTime.utc = log[StatsLeft.CurrentBlockHeight]
    /\ chain["record"] = "done" /\ StatsRight.BlockTime = None => StatsLeft.CurrentBlockHeight = 0

\* Circulating BONE Supply, made of balances of two instants, is at least what
\* circulated when it was complete, and at most Total Supply (Home.tsx:97-113): the
\* blackhole is read first and only grows.
NeverUnderstated ==
    StatsRight.CirculatingBoneSupply # None =>
        StatsRight.CirculatingBoneSupply \in circ .. BoneInfo.TotalSupply

\* Before the day shown as Time Until Next Halving the reward is that of the day of
\* the query (get_day against get_current_block_reward).
RewardHolds ==
    \A n \in 0 .. GetDay(day) - 1 : CurrentBlockReward(day + n) = CurrentBlockReward(day)

\* It halves on that day and no earlier, as long as rewards can be computed.
HalvesOnTime ==
    LET r(d) == CurrentBlockReward(d)
    IN  /\ RewardHolds
        /\ r(day) # Trap /\ r(day + GetDay(day)) # Trap
             => r(day + GetDay(day)) = r(day) \div 2

\* Every figure comes, unless a query was rejected; the price only if the list has
\* it, the time only if there is a block, reward and miners only if the division of
\* the reward did not panic (main.rs:984).
FiguresCome ==
    <>(\/ failures > 0
       \/ /\ BoneInfo.TotalSupply # None
          /\ \A l \in DOMAIN StatsLeft :
               \/ StatsLeft[l] # None
               \/ l = "BonePrice" /\ startPrice = FALSE
               \/ l \in {"TotalNumberOfMiners", "CurrentBlockReward"} /\ day \div Cycle >= Width
          /\ \A l \in DOMAIN StatsRight :
               \/ StatsRight[l] # None
               \/ l = "BlockTime" /\ height = 0
               \/ l = "CurrentActiveMiners" /\ day \div Cycle >= Width)
=============================================================================
