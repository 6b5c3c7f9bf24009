------------------------------- MODULE Parts --------------------------------
(***************************************************************************)
(* The parts whose states have nothing in common: the pages, of which the  *)
(* router mounts one at a time (Routing.tsx), the message of the app, the  *)
(* wallet's figures, the batches of the adapter, a dog's feed of ores, and *)
(* the ICP of main.  A behaviour opens one of them and keeps to it; its    *)
(* state lies in c1, c2, ... and its bounds are the constants here.        *)
(***************************************************************************)
EXTENDS Naturals, FiniteSets

CONSTANTS
    None,
    Principals, Dogs, Owner,                            \* users and their dogs
    \* the list of dogs
    Requests, MaxAsks, MaxChanges, PageFailures,
    \* the list of alliances
    Alliances, MyDogs, MaxRefreshes,
    \* the wallet
    Tokens, TokenFee, DefaultFees, FineAmounts, MaxBalance, Asked, MaxQueries, MaxSends,
    \* Block Info
    PageLimit, RowsOptions, FirstRows, MaxBlocks, MaxTurns, Decimals, DefaultDecimals,
    \* Top User, Top Alliance
    RankedAlliances, Top, MaxLog, MaxUpgrades, MaxMoves, MaxCalcs, MaxMounts,
    \* the message
    Contents, BarTicks, HideTicks, MaxPosts,
    \* the figures
    Bits, Unit, GridBits, Fee, MaxUnits,
    \* the batches
    N, Shapes, MaxPrepares, MaxRetries, MaxFailures,
    \* the feed
    Ticks, Verifies, Difficulties, MaxFinds, MaxShifts, FeedFailures,
    \* the treasury
    Slots, TopUps, MaxCalls

VARIABLES
    open,       \* what the behaviour is about
    c1, c2, c3, c4, c5, c6, c7, c8, c9, c10, c11, c12, c13, c14, c15, c16, c17, c18, c19,
    c20, c21

state == <<open, c1, c2, c3, c4, c5, c6, c7, c8, c9, c10, c11, c12, c13, c14, c15, c16, c17,
           c18, c19, c20, c21>>

\* DogMiner
Miners == INSTANCE MinerList WITH
    Users <- Principals, MaxFailures <- PageFailures,
    userId <- c1, registry <- c2, islodinginfo <- c3, dog_infos <- c4, dogcycles <- c5,
    timer <- c6, req <- c7, lastAsked <- c8, lastShown <- c9, lastCycled <- c10, asks <- c11,
    changes <- c12, failures <- c13

\* DogAlliance
Circles == INSTANCE AllianceList WITH
    Ids <- Alliances, Dogs <- MyDogs, Refreshes <- Requests, MaxFailures <- PageFailures,
    alliances <- c1, member <- c2, islodinginfo <- c3, all_alliances <- c4, refresh <- c5,
    dog_infos <- c6, dogsAsked <- c7, opentjoin <- c8, curjoininfo <- c9,
    curselectIteminfo <- c10, active <- c11, joining <- c12, creating <- c13, overlap <- c14,
    refreshes <- c15, failures <- c16

\* Wallet
Wallet == INSTANCE SendTokens WITH
    Users <- Principals, Queries <- Asked, Fee <- TokenFee, MaxFailures <- PageFailures,
    userId <- c1, funds <- c2, wells <- c3, feeKnown <- c4, mount <- c5, query <- c6,
    modal <- c7, curselectwall <- c8, curfee <- c9, curBalance <- c10, amount <- c11,
    toamount <- c12, fine <- c13, isshow <- c14, sending <- c15, answer <- c16, stuck <- c17,
    crashed <- c18, queries <- c19, sends <- c20, failures <- c21

\* Dashboard, Block Info
Blocks == INSTANCE LogPages WITH
    Queries <- Requests, MaxLog <- MaxBlocks, MaxFailures <- PageFailures,
    log <- c1, mount <- c2, maxindex <- c3, bonedecimals <- c4, page <- c5, rowsPerPage <- c6,
    blockinfo <- c7, query <- c8, turns <- c9, failures <- c10, of <- c11, latest <- c12,
    overtaken <- c13, seen <- c14

\* Dashboard, Top User and Top Alliance
Tops == INSTANCE Standings WITH
    Alliances <- RankedAlliances, OwnerOf <- Owner,
    level <- c1, ore_cnt <- c2, alliance <- c3, state <- c4, mode <- c5, log <- c6, calc <- c7,
    owner_top <- c8, alliance_top <- c9, topuser <- c10, topalliance <- c11, query <- c12,
    upgrades <- c13, moves <- c14, calcs <- c15, mounts <- c16

\* The message of the app.
Message == INSTANCE Notifications WITH
    messageOpen <- c1, content <- c2, progress <- c3, left <- c4, hovered <- c5, posts <- c6,
    kept <- c7

\* Balances as the wallet shows them.
Figures == INSTANCE Amounts WITH units <- c1

\* The batches of the adapter.
Batches == INSTANCE BatchTransact WITH
    shape <- c1, batch <- c2, cursor <- c3, wraps <- c4, fed <- c5, runs <- c6,
    doubtful <- c7, retries <- c8, failures <- c9

\* A dog with its ticks of get_ore and its finds, main changing under it.
Feed == INSTANCE OreFeed WITH
    MaxMoves <- MaxShifts, MaxFailures <- FeedFailures,
    content <- c1, context <- c2, ores <- c3, tick <- c4, verify <- c5, finds <- c6,
    sent <- c7, moves <- c8, failures <- c9

\* Users' calls in bone_main that cost ICP.
Icp == INSTANCE Treasury WITH
    balance <- c1, call <- c2, kept <- c3, calls <- c4, failures <- c5

ASSUME PartsAssumption ==
    /\ Miners!MinerListAssumption /\ Circles!AllianceListAssumption /\ Wallet!SendAssumption
    /\ Blocks!PagesAssumption /\ Tops!StandingsAssumption /\ Message!NotificationsAssumption
    /\ Figures!AmountsAssumption /\ Batches!ShapesAssumption /\ Feed!FeedAssumption
    /\ Icp!TreasuryAssumption

\* What a part leaves unused.
From17 == c17 = None /\ c18 = None /\ c19 = None /\ c20 = None /\ c21 = None
From15 == c15 = None /\ c16 = None /\ From17
From14 == c14 = None /\ From15
From10 == c10 = None /\ c11 = None /\ c12 = None /\ c13 = None /\ From14
From8 == c8 = None /\ c9 = None /\ From10
From6 == c6 = None /\ c7 = None /\ From8
From2 == c2 = None /\ c3 = None /\ c4 = None /\ c5 = None /\ From6

Init ==
    \/ open = "miners" /\ Miners!Init /\ From14
    \/ open = "alliances" /\ Circles!Init /\ From17
    \/ open = "wallet" /\ Wallet!Init
    \/ open = "blocks" /\ Blocks!Init /\ From15
    \/ open = "tops" /\ Tops!Init /\ From17
    \/ open = "message" /\ Message!Init /\ From8
    \/ open = "figures" /\ Figures!Init /\ From2
    \/ open = "batches" /\ Batches!Init /\ From10
    \/ open = "feed" /\ Feed!Init /\ From10
    \/ open = "icp" /\ Icp!Init /\ From6

after17 == <<open, c17, c18, c19, c20, c21>>
after15 == <<c15, c16, after17>>
after14 == <<c14, after15>>
after10 == <<c10, c11, c12, c13, after14>>
after8 == <<c8, c9, after10>>
after6 == <<c6, c7, after8>>
after2 == <<c2, c3, c4, c5, after6>>

Next ==
    \/ open = "miners" /\ Miners!Next /\ UNCHANGED after14
    \/ open = "alliances" /\ Circles!Next /\ UNCHANGED after17
    \/ open = "wallet" /\ Wallet!Next /\ UNCHANGED open
    \/ open = "blocks" /\ Blocks!Next /\ UNCHANGED after15
    \/ open = "tops" /\ Tops!Next /\ UNCHANGED after17
    \/ open = "message" /\ Message!Next /\ UNCHANGED after8
    \/ open = "figures" /\ Figures!Next /\ UNCHANGED after2
    \/ open = "batches" /\ Batches!Next /\ UNCHANGED after10
    \/ open = "feed" /\ Feed!Next /\ UNCHANGED after10
    \/ open = "icp" /\ Icp!Next /\ UNCHANGED after6

\* What runs by itself: calls are answered, timers fire.
Progress ==
    \/ open = "miners" /\ Miners!Progress /\ UNCHANGED after14
    \/ open = "alliances" /\ Circles!Progress /\ UNCHANGED after17
    \/ open = "wallet" /\ Wallet!Progress /\ UNCHANGED open
    \/ open = "blocks" /\ Blocks!Progress /\ UNCHANGED after15
    \/ open = "tops" /\ Tops!Progress /\ UNCHANGED after17
    \/ open = "message" /\ Message!Progress /\ UNCHANGED after8
    \/ open = "batches" /\ Batches!Progress /\ UNCHANGED after10
    \/ open = "feed" /\ Feed!Progress /\ UNCHANGED after10
    \/ open = "icp" /\ Icp!Progress /\ UNCHANGED after6

Spec == Init /\ [][Next]_state /\ WF_state(Progress)

(***************************************************************************)
(* The properties of the modules, under their names there, one conjunct or *)
(* case for each part.                                                     *)
(***************************************************************************)
\* The type invariants.
TypeOK ==
    CASE open = "miners" -> Miners!TypeOK
      [] open = "alliances" -> Circles!TypeOK
      [] open = "wallet" -> Wallet!TypeOK
      [] open = "blocks" -> Blocks!TypeOK
      [] open = "tops" -> Tops!TypeOK
      [] open = "message" -> Message!TypeOK
      [] open = "figures" -> Figures!TypeOK
      [] open = "batches" -> Batches!TypeOK
      [] open = "feed" -> Feed!TypeOK
      [] open = "icp" -> Icp!TypeOK

\* The two lists tell what the registry says.  The miners: the list is the user's
\* (DogMiner.tsx:486), up to date (164, 373, 422) and with its cycles (188), unless an
\* older answer came last.  The alliances: no row twice and none missing, whatever the
\* order of the answers (DogAlliance.tsx:158), and the dog chosen is free (514).
ListsTrue ==
    /\ open = "miners" =>
         Miners!MineUnlessOvertaken /\ Miners!RowsUpToDate /\ Miners!RowsHaveCycles
    /\ open = "alliances" =>
         Circles!NoRowTwice /\ Circles!AllShown /\ Circles!HighlightedIsFree

\* The wallet page: what the form lets through is refused only on stale figures
\* (Wallet.tsx:256); figures are exact up to half of what a Number holds (common.ts:51),
\* and Max takes all of them (Wallet.tsx:115).
WalletTrue ==
    /\ open = "wallet" => Wallet!RefusedOnlyIfStale
    /\ open = "figures" => Figures!ExactBelowHalf /\ Figures!MaxTakesAll

\* The dashboard tells the log.  Its pages cover the window (main.rs:737), the rows are
\* those of the page asked for (Dashboard.tsx:176), which exists (191), and paging skips
\* no block.  In the tables each cell is what its column says as of the time it was read
\* (main.rs:1127), and the best are on the lists.
DashboardTrue ==
    /\ open = "blocks" =>
         /\ Blocks!PagesCoverWindow /\ Blocks!RowsOfPage
         /\ Blocks!PageInRange /\ Blocks!NoneSkipped
    /\ open = "tops" => Tops!UserCellsTrue /\ Tops!AllianceCellsTrue /\ Tops!TopIsBest

\* The message: its bar tells the time left (Snackbar.tsx:38).
BarTellsTime == open = "message" => Message!BarTellsTime

\* Sequences of calls of which one may fail.  The batches: done means that all has run,
\* and a retry repeats nothing (batchTransact.js:77).  The ICP of main: what is there is
\* what suspended handlers will send on and what failed ones left (main.rs:117-146,
\* 340-360), and what is taken is enough to be sent (118).
SequencesTrue ==
    /\ open = "batches" => Batches!DoneMeansAllRan /\ Batches!RetryRunsOnce
    /\ open = "icp" => Icp!Balanced /\ Icp!WorthSending

\* What a step may never do: run a batch out of order or with arguments that were not
\* fed to it (batchTransact.js:57, 115), ask for more than the balance covers by Max
\* (Wallet.tsx:115), show fewer tokens after a deposit (common.ts:51), send a find
\* again (bone_dog main.rs:276).
StepTrue ==
    /\ open = "batches" => Batches!InOrder /\ Batches!FedFirst
    /\ open = "wallet" => Wallet!MaxLeavesFee
    /\ open = "figures" => Figures!NeverFewerShown
    /\ open = "feed" => Feed!SentOnce

\* No step of any part does otherwise.
StepsTrue == [][StepTrue]_state

\* What is loaded arrives, what runs comes to rest: skeletons go, pages and tables
\* come, messages go, batches end, dogs mine on main's ore (Settled in each module).
Settled ==
    CASE open = "miners" -> Miners!Settled
      [] open = "alliances" -> Circles!Settled
      [] open = "wallet" -> Wallet!Settled
      [] open = "blocks" -> Blocks!Settled
      [] open = "tops" -> Tops!Settled
      [] open = "message" -> Message!Settled
      [] open = "figures" -> TRUE
      [] open = "batches" -> Batches!Settled
      [] open = "feed" -> Feed!Settled
      [] open = "icp" -> Icp!Settled
PartsSettle == []<>Settled
=============================================================================
