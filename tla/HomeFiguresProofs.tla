------------------------- MODULE HomeFiguresProofs --------------------------
(***************************************************************************)
(* Proofs about HomeFigures, for any schedule, supply and bounds: figures  *)
(* made of several queries hold together although log and ledger move      *)
(* between them.                                                           *)
(***************************************************************************)
EXTENDS HomeFigures, WellFoundedInduction, TLAPS

(***************************************************************************)
(* The ledger: its supply is constant, and nothing leaves the blackhole.   *)
(***************************************************************************)
Holders == {"blackhole", "main", "others"}

HeldInv ==
    /\ held \in [Holders -> 0 .. Supply]
    /\ held.blackhole + held.main + held.others = Supply

\* Where the chain of supply stands, and what it has read by then.
SupplyInv ==
    /\ chain["supply"] \in {"first", "second"} => supply = Supply
    /\ chain["supply"] = "second" => burned \in 0 .. held.blackhole
    /\ aa_Price # None => /\ supply = Supply /\ circ \in Nat /\ aa_Price \in Nat
                          /\ circ <= aa_Price /\ aa_Price <= Supply
    /\ supply \in {None, Supply}

(***************************************************************************)
(* The log: it only grows.                                                 *)
(***************************************************************************)
LogInv == log \in Seq(0 .. MaxDay) /\ day \in 0 .. MaxDay /\ Len(log) <= MaxLog

Records == [high : 1 .. MaxLog, utc : 0 .. MaxDay]

RecordInv ==
    /\ chain["record"] = "asked" => BlockTime = None
    /\ chain["record"] \in {"index", "done"} => height \in 0 .. Len(log)
    /\ chain["record"] = "index" => BlockTime = None
    /\ BlockTime \in Records =>
         height \in 1 .. Len(log) /\ BlockTime = [high |-> height, utc |-> log[height]]
    /\ BlockTime \in {None, Empty} \cup Records
    /\ chain["record"] = "done" /\ BlockTime \in {None, Empty} => height = 0

ChainType == chain \in [Chains -> {"waiting", "asked", "first", "second", "index", "done", "rejected"}]

\* The inductive invariant.
FigureInv == ChainType /\ HeldInv /\ SupplyInv /\ LogInv /\ RecordInv

LEMMA FigureInit == Init => FigureInv
<1> SUFFICES ASSUME Init PROVE FigureInv
  OBVIOUS
<1> USE HomeAssumption
<1>1. ChainType
  BY DEF Init, ChainType, Chains
<1>2. HeldInv
  BY DEF Init, HeldInv, Holders
<1>3. SupplyInv
  BY DEF Init, SupplyInv, Chains
<1>4. LogInv
  <2>1. PICK n \in 0 .. MaxLog : log \in [1 .. n -> {0}]
    BY DEF Init
  <2>2. n \in Nat /\ n <= MaxLog /\ 0 \in 0 .. MaxDay
    BY <2>1
  <2>3. log \in [1 .. n -> 0 .. MaxDay]
    BY <2>1, <2>2
  <2>4. log \in Seq(0 .. MaxDay) /\ Len(log) = n
    BY <2>2, <2>3
  <2> QED BY <2>2, <2>4 DEF Init, LogInv
<1>5. RecordInv
  BY DEF Init, RecordInv, Records, Chains
<1> QED BY <1>1, <1>2, <1>3, <1>4, <1>5 DEF FigureInv

(***************************************************************************)
(* The queries of the page.                                                *)
(***************************************************************************)
\* Log and ledger rest while the page shows an answer.
LEMMA LedgerUntouched == FigureInv /\ UNCHANGED ledger => HeldInv' /\ LogInv'
BY DEF FigureInv, HeldInv, LogInv, ledger

\* A query of another chain.
LEMMA OtherChain ==
    ASSUME FigureInv, UNCHANGED <<ledger, height, BlockTime, supply, burned, aa_Price, circ>>,
           chain' \in [Chains -> {"waiting", "asked", "first", "second", "index", "done", "rejected"}],
           chain'["record"] \in {chain["record"], "rejected"},
           chain'["supply"] \in {chain["supply"], "asked", "rejected"}
    PROVE  FigureInv'
<1>1. HeldInv' /\ LogInv'
  BY LedgerUntouched DEF ledger
<1>2. SupplyInv'
  BY DEF FigureInv, SupplyInv, ledger
<1>3. RecordInv'
  BY DEF FigureInv, RecordInv, ledger
<1> QED BY <1>1, <1>2, <1>3 DEF FigureInv, ChainType

LEMMA PageStep == FigureInv /\ (Requests \/ \E c \in Chains : Rejected(c)) => FigureInv'
<1> SUFFICES ASSUME FigureInv, Requests \/ \E c \in Chains : Rejected(c) PROVE FigureInv'
  OBVIOUS
<1> USE HomeAssumption DEF Chains
<1>1. ASSUME ReqDecimals PROVE FigureInv'
  BY <1>1, OtherChain DEF ReqDecimals, FigureInv, ChainType, shown
<1>2. ASSUME ReqHomepageCalc PROVE FigureInv'
  BY <1>2, OtherChain DEF ReqHomepageCalc, FigureInv, ChainType
<1>3. ASSUME ReqHavingDays PROVE FigureInv'
  BY <1>3, OtherChain DEF ReqHavingDays, FigureInv, ChainType
<1>4. ASSUME ReqICPPrice PROVE FigureInv'
  BY <1>4, OtherChain DEF ReqICPPrice, FigureInv, ChainType
<1>5. ASSUME NEW c \in Chains, Rejected(c) PROVE FigureInv'
  BY <1>5, OtherChain DEF Rejected, FigureInv, ChainType, shown
<1>6. ASSUME ReqTotalSupply PROVE FigureInv'
  <2>1. SupplyInv'
    BY <1>6 DEF ReqTotalSupply, FigureInv, SupplyInv, ChainType
  <2>2. RecordInv' /\ ChainType'
    BY <1>6 DEF ReqTotalSupply, FigureInv, RecordInv, ChainType, ledger
  <2> QED BY <1>6, <2>1, <2>2, LedgerUntouched DEF ReqTotalSupply, FigureInv
<1>7. ASSUME ReqFirstBalance PROVE FigureInv'
  <2>1. burned' = held.blackhole /\ held' = held /\ held.blackhole \in Nat
    BY <1>7 DEF ReqFirstBalance, Accounts, ledger, FigureInv, HeldInv, Holders
  <2>2. SupplyInv'
    BY <1>7, <2>1 DEF ReqFirstBalance, FigureInv, SupplyInv, ChainType, shown
  <2>3. RecordInv' /\ ChainType'
    BY <1>7 DEF ReqFirstBalance, FigureInv, RecordInv, ChainType, ledger, shown
  <2> QED BY <1>7, <2>2, <2>3, LedgerUntouched DEF ReqFirstBalance, FigureInv
<1>8. ASSUME ReqSecondBalance PROVE FigureInv'
  <2>1. /\ aa_Price' = supply - burned - held.main /\ circ' = held.others
        /\ chain' = [chain EXCEPT !["supply"] = "done"]
        /\ UNCHANGED <<held, supply, burned>>
    BY <1>8 DEF ReqSecondBalance, Accounts, ledger
  <2>2. supply = Supply /\ burned \in 0 .. held.blackhole
    BY <1>8 DEF ReqSecondBalance, FigureInv, SupplyInv
  <2>3. /\ held.blackhole \in Nat /\ held.main \in Nat /\ held.others \in Nat
        /\ held.blackhole + held.main + held.others = Supply
    BY DEF FigureInv, HeldInv, Holders
  <2>4. aa_Price' \in Nat /\ circ' \in Nat /\ circ' <= aa_Price' /\ aa_Price' <= Supply
    BY <2>1, <2>2, <2>3
  <2>5. SupplyInv'
    BY <2>1, <2>2, <2>4 DEF FigureInv, SupplyInv, ChainType
  <2>6. RecordInv' /\ ChainType'
    BY <1>8 DEF ReqSecondBalance, FigureInv, RecordInv, ChainType, ledger
  <2> QED BY <1>8, <2>5, <2>6, LedgerUntouched DEF ReqSecondBalance, FigureInv
<1>9. ASSUME ReqRecordIdx PROVE FigureInv'
  <2>1. Len(log) \in Nat
    BY DEF FigureInv, LogInv
  <2>2. /\ chain["record"] = "asked" /\ chain' = [chain EXCEPT !["record"] = "index"]
        /\ height' = Len(log) /\ log' = log /\ BlockTime' = BlockTime
        /\ UNCHANGED <<held, supply, burned, aa_Price, circ>>
    BY <1>9 DEF ReqRecordIdx, ledger
  <2>3. None \notin Records
    BY DEF Records
  <2>4. RecordInv'
    BY <2>1, <2>2, <2>3 DEF FigureInv, RecordInv, ChainType
  <2>5. SupplyInv' /\ ChainType'
    BY <2>2 DEF FigureInv, SupplyInv, ChainType
  <2> QED BY <1>9, <2>4, <2>5, LedgerUntouched DEF ReqRecordIdx, FigureInv
<1>10. ASSUME ReqRecordIndex PROVE FigureInv'
  <2>1. /\ chain["record"] = "index" /\ chain' = [chain EXCEPT !["record"] = "done"]
        /\ BlockTime' = IF height \in 1 .. Len(log) THEN Record(height) ELSE Empty
        /\ UNCHANGED <<log, height, held, supply, burned, aa_Price, circ>>
    BY <1>10 DEF ReqRecordIndex, ledger
  <2>2. height \in 0 .. Len(log) /\ Len(log) \in Nat /\ Len(log) <= MaxLog
    BY <2>1 DEF FigureInv, RecordInv, LogInv
  <2>3. CASE height = 0
    <3>1. BlockTime' = Empty /\ Empty \notin Records
      BY <2>1, <2>2, <2>3 DEF Records
    <3>2. RecordInv'
      BY <2>1, <2>2, <2>3, <3>1 DEF FigureInv, RecordInv, ChainType
    <3>3. SupplyInv' /\ ChainType'
      BY <2>1 DEF FigureInv, SupplyInv, ChainType
    <3> QED BY <1>10, <3>2, <3>3, LedgerUntouched DEF ReqRecordIndex, FigureInv
  <2>4. CASE height \in 1 .. Len(log)
    <3>1. BlockTime' = [high |-> height, utc |-> log[height]] /\ log[height] \in 0 .. MaxDay
      BY <2>1, <2>2, <2>4 DEF Record, FigureInv, LogInv
    <3>2. BlockTime' \in Records
      BY <2>2, <2>4, <3>1 DEF Records
    <3>3. BlockTime' \notin {None, Empty}
      BY <3>2 DEF Records
    <3>4. RecordInv'
      BY <2>1, <2>2, <2>4, <3>1, <3>2, <3>3 DEF FigureInv, RecordInv, ChainType
    <3>5. SupplyInv' /\ ChainType'
      BY <2>1 DEF FigureInv, SupplyInv, ChainType
    <3> QED BY <1>10, <3>4, <3>5, LedgerUntouched DEF ReqRecordIndex, FigureInv
  <2> QED BY <2>2, <2>3, <2>4
<1> QED BY <1>1, <1>2, <1>3, <1>4, <1>5, <1>6, <1>7, <1>8, <1>9, <1>10 DEF Requests

(***************************************************************************)
(* The log grows, days pass, tokens move.                                  *)
(***************************************************************************)
LEMMA OutsideStep ==
    ASSUME FigureInv,
           \/ AddOreLog \/ DayPasses
           \/ Transfer("main", "others") \/ Transfer("others", "blackhole") \/ Transfer("others", "main")
    PROVE  FigureInv'
<1> USE HomeAssumption
<1>1. ASSUME AddOreLog PROVE FigureInv'
  <2>1. /\ log' = Append(log, day) /\ Len(log) < MaxLog
        /\ UNCHANGED <<day, held, chain, height, BlockTime, supply, aa_Price, burned, circ>>
    BY <1>1 DEF AddOreLog, shown
  <2>2. log \in Seq(0 .. MaxDay) /\ day \in 0 .. MaxDay /\ Len(log) \in Nat
    BY DEF FigureInv, LogInv
  <2>3. /\ log' \in Seq(0 .. MaxDay) /\ Len(log') = Len(log) + 1
        /\ \A i \in 1 .. Len(log) : log'[i] = log[i]
    BY <2>1, <2>2
  <2>4. LogInv'
    BY <2>1, <2>2, <2>3 DEF LogInv
  <2>5. RecordInv'
    BY <2>1, <2>2, <2>3 DEF FigureInv, RecordInv
  <2>6. HeldInv' /\ SupplyInv' /\ ChainType'
    BY <2>1 DEF FigureInv, HeldInv, SupplyInv, ChainType
  <2> QED BY <2>4, <2>5, <2>6 DEF FigureInv
<1>2. ASSUME DayPasses PROVE FigureInv'
  <2>1. LogInv'
    BY <1>2 DEF DayPasses, FigureInv, LogInv
  <2>2. HeldInv' /\ SupplyInv' /\ ChainType' /\ RecordInv'
    BY <1>2 DEF DayPasses, FigureInv, HeldInv, SupplyInv, ChainType, RecordInv, shown
  <2> QED BY <2>1, <2>2 DEF FigureInv
<1>3. ASSUME NEW from \in {"main", "others"}, NEW to \in Holders, from # to, Transfer(from, to)
      PROVE  FigureInv'
  <2>1. /\ held[from] > 0 /\ held' = [held EXCEPT ![from] = @ - 1, ![to] = @ + 1]
        /\ UNCHANGED <<log, day, chain, height, BlockTime, supply, aa_Price, burned, circ>>
    BY <1>3 DEF Transfer, shown
  <2>2. /\ held \in [Holders -> 0 .. Supply]
        /\ held.blackhole + held.main + held.others = Supply
    BY DEF FigureInv, HeldInv
  <2>3. HeldInv' /\ held'.blackhole >= held.blackhole
    BY <1>3, <2>1, <2>2 DEF HeldInv, Holders
  <2>4. held.blackhole \in Nat /\ held'.blackhole \in Nat
    BY <2>2, <2>3 DEF HeldInv, Holders
  <2>5. SupplyInv'
    BY <2>1, <2>3, <2>4 DEF FigureInv, SupplyInv
  <2>6. LogInv' /\ ChainType' /\ RecordInv'
    BY <2>1 DEF FigureInv, LogInv, ChainType, RecordInv
  <2> QED BY <2>3, <2>5, <2>6 DEF FigureInv
<1> QED BY <1>1, <1>2, <1>3 DEF Holders

LEMMA FigureStep == FigureInv /\ [Next]_vars => FigureInv'
<1>1. FigureInv /\ UNCHANGED vars => FigureInv'
  BY DEF vars, ledger, shown, FigureInv, ChainType, HeldInv, SupplyInv, LogInv, RecordInv
<1> QED BY <1>1, PageStep, OutsideStep DEF Next

LEMMA FigureInvariant == Spec => []FigureInv
BY FigureInit, FigureStep, PTL DEF Spec

\* Block Time is the time of the block at Current Block Height, however the log
\* grows between the two queries (Home.tsx:121-130).
THEOREM TimeIsOfHeight == Spec => []TimeOfHeight
<1>1. FigureInv => TimeOfHeight
  <2> SUFFICES ASSUME FigureInv PROVE TimeOfHeight
    OBVIOUS
  <2> USE HomeAssumption
  <2>1. None \notin Records /\ Empty \notin Records /\ Empty # None
    BY DEF Records
  <2>2. ASSUME StatsRight.BlockTime # None
        PROVE  /\ StatsRight.BlockTime.high = StatsLeft.CurrentBlockHeight
               /\ StatsRight.BlockTime.utc = log[StatsLeft.CurrentBlockHeight]
    <3>1. BlockTime \in Records /\ StatsRight.BlockTime = BlockTime
      BY <2>1, <2>2 DEF StatsRight, FigureInv, RecordInv
    <3> QED BY <3>1 DEF StatsLeft, FigureInv, RecordInv
  <2>3. ASSUME chain["record"] = "done", StatsRight.BlockTime = None
        PROVE  StatsLeft.CurrentBlockHeight = 0
    BY <2>1, <2>3 DEF StatsRight, StatsLeft, FigureInv, RecordInv
  <2> QED BY <2>2, <2>3 DEF TimeOfHeight
<1> QED BY <1>1, FigureInvariant, PTL

\* What is shown to circulate lies between what did when the last balance was read
\* and the supply (Home.tsx:97-113).
THEOREM SupplyNeverUnderstated == Spec => []NeverUnderstated
<1>1. FigureInv => NeverUnderstated
  <2> SUFFICES ASSUME FigureInv, aa_Price # None PROVE aa_Price \in circ .. supply
    BY DEF NeverUnderstated, StatsRight, BoneInfo
  <2> QED BY HomeAssumption DEF FigureInv, SupplyInv
<1> QED BY <1>1, FigureInvariant, PTL

(***************************************************************************)
(* The schedule.                                                           *)
(***************************************************************************)
LEMMA DivisionUnique ==
    ASSUME NEW d \in Nat, NEW c \in Nat \ {0}, NEW q \in Nat, NEW r \in 0 .. c - 1, d = q * c + r
    PROVE  d \div c = q
OBVIOUS

LEMMA DivisionExists ==
    ASSUME NEW d \in Nat, NEW c \in Nat \ {0}
    PROVE  /\ d \div c \in Nat /\ d % c \in 0 .. c - 1
           /\ d = (d \div c) * c + (d % c)
OBVIOUS

\* No day before the one shown as that of the next halving has another reward
\* (utils.rs:92 against main.rs:973).
THEOREM RewardHoldsUntilShown == Spec => []RewardHolds
<1>1. FigureInv => RewardHolds
  <2> SUFFICES ASSUME FigureInv, NEW n \in 0 .. GetDay(day) - 1
               PROVE  CurrentBlockReward(day + n) = CurrentBlockReward(day)
    BY DEF RewardHolds
  <2> DEFINE q == day \div Cycle
             r == day % Cycle
  <2>1. day \in Nat /\ Cycle \in Nat \ {0}
    BY HomeAssumption DEF FigureInv, LogInv
  <2>2. q \in Nat /\ r \in 0 .. Cycle - 1 /\ day = q * Cycle + r
    BY <2>1, DivisionExists
  <2>3. n \in 0 .. Cycle - r - 1
    BY DEF GetDay
  <2> HIDE DEF q, r
  <2>4. q * Cycle \in Nat
    BY <2>1, <2>2
  <2>5. r + n \in 0 .. Cycle - 1 /\ day + n = q * Cycle + (r + n) /\ day + n \in Nat
    BY <2>1, <2>2, <2>3, <2>4
  <2>6. (day + n) \div Cycle = q
    BY <2>1, <2>2, <2>5, DivisionUnique
  <2> QED BY <2>6 DEF CurrentBlockReward, q
<1> QED BY <1>1, FigureInvariant, PTL

(***************************************************************************)
(* Powers of two: the recursive function has its defining equation.        *)
(***************************************************************************)
\* Induction over a set of numbers.
LEMMA SetInduction ==
    ASSUME NEW T \in SUBSET Nat, 0 \in T, \A n \in T : n + 1 \in T
    PROVE  \A n \in Nat : n \in T
<1> SUFFICES ASSUME NEW m \in Nat, m \notin T PROVE FALSE
  OBVIOUS
<1> DEFINE Rest == Nat \ T
<1>1. Rest \subseteq Nat /\ Rest # {}
  OBVIOUS
<1> HIDE DEF Rest
<1>2. PICK x \in Rest : \A y \in Rest : ~(<<y, x>> \in OpToRel(<, Nat))
  BY <1>1, NatLessThanWellFounded, WFMin
<1>3. x \in Nat \ {0} /\ x - 1 \in Nat
  BY <1>1 DEF Rest
<1>4. x - 1 \notin Rest
  <2>1. x - 1 < x
    BY <1>3
  <2>2. <<x - 1, x>> \in OpToRel(<, Nat)
    BY <1>3, <2>1 DEF OpToRel
  <2> QED BY <1>2, <2>2
<1>5. (x - 1) + 1 \in T /\ (x - 1) + 1 = x
  BY <1>3, <1>4 DEF Rest
<1> QED BY <1>5 DEF Rest

\* The powers up to 2^n, as a table of their own.
Powers(g, n) ==
    /\ g \in [0 .. n -> Nat \ {0}]
    /\ g[0] = 1
    /\ \A k \in 1 .. n : g[k] = 2 * g[k - 1]

LEMMA PowersExist == \A n \in Nat : \E g : Powers(g, n)
<1> DEFINE T == {n \in Nat : \E g : Powers(g, n)}
<1>1. 0 \in T
  <2>1. Powers([k \in 0 .. 0 |-> 1], 0)
    BY DEF Powers
  <2> QED BY <2>1
<1>2. ASSUME NEW n \in T PROVE n + 1 \in T
  <2>1. PICK g : Powers(g, n)
    OBVIOUS
  <2> DEFINE h == [k \in 0 .. (n + 1) |-> IF k = n + 1 THEN 2 * g[n] ELSE g[k]]
  <2>2. g[n] \in Nat \ {0}
    BY <2>1 DEF Powers
  <2>3. Powers(h, n + 1)
    <3>1. h \in [0 .. (n + 1) -> Nat \ {0}]
      BY <2>1, <2>2 DEF Powers
    <3>2. h[0] = 1
      BY <2>1 DEF Powers
    <3>3. ASSUME NEW k \in 1 .. (n + 1) PROVE h[k] = 2 * h[k - 1]
      <4>1. CASE k = n + 1
        BY <4>1
      <4>2. CASE k \in 1 .. n
        BY <2>1, <4>2 DEF Powers
      <4> QED BY <4>1, <4>2
    <3> QED BY <3>1, <3>2, <3>3 DEF Powers
  <2> QED BY <2>3
<1> HIDE DEF T
<1>3. \A n \in Nat : n \in T
  <2>1. T \in SUBSET Nat
    BY DEF T
  <2> QED BY <1>1, <1>2, <2>1, SetInduction
<1> QED BY <1>3 DEF T

LEMMA PowersAgree ==
    ASSUME NEW m \in Nat, NEW n \in Nat, NEW g, NEW h, Powers(g, m), Powers(h, n)
    PROVE  \A k \in 0 .. m : k \in 0 .. n => g[k] = h[k]
<1> DEFINE T == {k \in Nat : k \in 0 .. m /\ k \in 0 .. n => g[k] = h[k]}
<1>1. 0 \in T
  BY DEF Powers
<1>2. ASSUME NEW k \in T PROVE k + 1 \in T
  <2> SUFFICES ASSUME k + 1 \in 0 .. m, k + 1 \in 0 .. n PROVE g[k + 1] = h[k + 1]
    OBVIOUS
  <2>1. g[k] = h[k]
    OBVIOUS
  <2>2. g[k + 1] = 2 * g[(k + 1) - 1] /\ h[k + 1] = 2 * h[(k + 1) - 1] /\ (k + 1) - 1 = k
    BY DEF Powers
  <2> QED BY <2>1, <2>2
<1> HIDE DEF T
<1>3. \A k \in Nat : k \in T
  <2>1. T \in SUBSET Nat
    BY DEF T
  <2> QED BY <1>1, <1>2, <2>1, SetInduction
<1> QED BY <1>3 DEF T

LEMMA PowerTable ==
    \E p : /\ p \in [Nat -> Nat \ {0}]
           /\ p = [k \in Nat |-> IF k = 0 THEN 1 ELSE 2 * p[k - 1]]
<1> DEFINE table(n) == CHOOSE g : Powers(g, n)
           p == [k \in Nat |-> table(k)[k]]
<1>1. ASSUME NEW n \in Nat PROVE Powers(table(n), n)
  BY PowersExist
<1> HIDE DEF table
<1>2. p \in [Nat -> Nat \ {0}]
  <2>1. ASSUME NEW n \in Nat PROVE table(n)[n] \in Nat \ {0}
    BY <1>1 DEF Powers
  <2> QED BY <2>1
<1>3. p[0] = 1
  <2>1. Powers(table(0), 0)
    BY <1>1
  <2> QED BY <2>1 DEF Powers
<1>4. ASSUME NEW k \in Nat \ {0} PROVE p[k] = 2 * p[k - 1]
  <2>1. k - 1 \in Nat /\ Powers(table(k), k) /\ Powers(table(k - 1), k - 1)
    BY <1>1
  <2>2. table(k)[k] = 2 * table(k)[k - 1]
    BY <2>1 DEF Powers
  <2>3. table(k)[k - 1] = table(k - 1)[k - 1]
    BY <2>1, PowersAgree
  <2> QED BY <2>1, <2>2, <2>3
<1>5. \A k \in Nat : p[k] = IF k = 0 THEN 1 ELSE 2 * p[k - 1]
  BY <1>3, <1>4
<1>6. DOMAIN p = Nat
  OBVIOUS
<1> HIDE DEF p
<1>7. p = [k \in Nat |-> IF k = 0 THEN 1 ELSE 2 * p[k - 1]]
  BY <1>2, <1>5
<1> QED BY <1>2, <1>7

LEMMA Pow2Is ==
    /\ Pow2[0] = 1
    /\ \A k \in Nat : Pow2[k] \in Nat \ {0} /\ Pow2[k + 1] = 2 * Pow2[k]
<1> DEFINE T == {k \in Nat : Pow2[k] \in Nat \ {0}}
<1>1. Pow2 = [k \in Nat |-> IF k = 0 THEN 1 ELSE 2 * Pow2[k - 1]]
  <2>1. \E p : p = [k \in Nat |-> IF k = 0 THEN 1 ELSE 2 * p[k - 1]]
    BY PowerTable
  <2> QED BY <2>1 DEF Pow2
<1>2. Pow2[0] = 1
  BY <1>1
<1>3. ASSUME NEW k \in Nat PROVE Pow2[k + 1] = 2 * Pow2[k]
  <2>1. k + 1 \in Nat /\ k + 1 # 0 /\ (k + 1) - 1 = k
    OBVIOUS
  <2> QED BY <1>1, <2>1
<1>4. 0 \in T /\ \A k \in T : k + 1 \in T
  BY <1>2, <1>3
<1> HIDE DEF T
<1>5. \A k \in Nat : k \in T
  <2>1. T \in SUBSET Nat
    BY DEF T
  <2> QED BY <1>4, <2>1, SetInduction
<1> QED BY <1>2, <1>3, <1>5 DEF T

\* Dividing by a and then by 2 is dividing by 2 * a.
LEMMA DivideTwice ==
    ASSUME NEW n \in Nat, NEW a \in Nat \ {0}
    PROVE  (n \div a) \div 2 = n \div (2 * a)
<1>1. PICK q \in Nat, r \in 0 .. a - 1 : q = n \div a /\ n = q * a + r
  <2>1. n \div a \in Nat /\ n % a \in 0 .. a - 1 /\ n = (n \div a) * a + (n % a)
    BY DivisionExists
  <2> QED BY <2>1
<1>2. PICK p \in Nat, s \in 0 .. 1 : p = q \div 2 /\ q = p * 2 + s
  OBVIOUS
<1>3. /\ 2 * a \in Nat \ {0}
      /\ s * a + r \in 0 .. (2 * a) - 1
      /\ n = p * (2 * a) + (s * a + r)
  <2>1. s * a \in {0, a}
    BY <1>2
  <2>2. s * a + r \in 0 .. (2 * a) - 1
    BY <1>1, <2>1
  <2>3. q * a = p * (2 * a) + s * a
    BY <1>2
  <2> QED BY <1>1, <2>1, <2>2, <2>3
<1>4. n \div (2 * a) = p
  BY <1>3, DivisionUnique
<1> QED BY <1>1, <1>2, <1>4

\* The reward halves on the day shown as that of the next halving, and not before, as
\* long as the power fits its width (utils.rs:92 against main.rs:973).
THEOREM RewardHalvesOnTime == Spec => []HalvesOnTime
<1>1. ASSUME FigureInv
      PROVE  CurrentBlockReward(day) # Trap /\ CurrentBlockReward(day + GetDay(day)) # Trap
             => CurrentBlockReward(day + GetDay(day)) = CurrentBlockReward(day) \div 2
  <2> DEFINE k == day \div Cycle
             r == day % Cycle
             e == day + GetDay(day)
  <2>1. day \in Nat /\ Cycle \in Nat \ {0} /\ Width \in Nat /\ Output \in Nat
    BY <1>1, HomeAssumption DEF FigureInv, LogInv
  <2>2. k \in Nat /\ r \in 0 .. Cycle - 1 /\ day = k * Cycle + r
    BY <2>1, DivisionExists
  <2>3. GetDay(day) = Cycle - r
    BY DEF GetDay
  <2> HIDE DEF k, r
  <2>4. k * Cycle \in Nat /\ (k + 1) * Cycle = k * Cycle + Cycle
    BY <2>1, <2>2
  <2>5. e \in Nat /\ e = (k + 1) * Cycle + 0 /\ 0 \in 0 .. Cycle - 1
    BY <2>1, <2>2, <2>3, <2>4
  <2> HIDE DEF e
  <2>6. e \div Cycle = k + 1
    BY <2>1, <2>2, <2>5, DivisionUnique
  <2>7. /\ CurrentBlockReward(day) = IF k > Width THEN 0
                                     ELSE IF k = Width THEN Trap ELSE Output \div Pow2[k]
        /\ CurrentBlockReward(e) = IF k + 1 > Width THEN 0
                                   ELSE IF k + 1 = Width THEN Trap ELSE Output \div Pow2[k + 1]
    BY <2>6 DEF CurrentBlockReward, k
  <2>8. CASE k > Width
    BY <2>1, <2>2, <2>7, <2>8 DEF e
  <2>9. CASE k <= Width
    <3> SUFFICES ASSUME CurrentBlockReward(day) # Trap, CurrentBlockReward(e) # Trap
                 PROVE  CurrentBlockReward(e) = CurrentBlockReward(day) \div 2
      BY DEF e
    <3>1. k + 1 < Width
      BY <2>1, <2>2, <2>7, <2>9
    <3>2. /\ CurrentBlockReward(day) = Output \div Pow2[k]
          /\ CurrentBlockReward(e) = Output \div Pow2[k + 1]
      BY <2>1, <2>2, <2>7, <3>1
    <3>3. Pow2[k + 1] = 2 * Pow2[k] /\ Pow2[k] \in Nat \ {0}
      BY <2>2, Pow2Is
    <3> QED BY <2>1, <3>2, <3>3, DivideTwice
  <2> QED BY <2>1, <2>2, <2>8, <2>9
<1>2. RewardHolds /\ (CurrentBlockReward(day) # Trap /\ CurrentBlockReward(day + GetDay(day)) # Trap
             => CurrentBlockReward(day + GetDay(day)) = CurrentBlockReward(day) \div 2)
      => HalvesOnTime
  BY DEF HalvesOnTime
<1> QED BY <1>1, <1>2, RewardHoldsUntilShown, FigureInvariant, PTL
=============================================================================
