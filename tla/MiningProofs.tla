---------------------------- MODULE MiningProofs ---------------------------
(***************************************************************************)
(* Proofs of the invariants of Mining, for any sets of dogs, miners and    *)
(* slots and any bounds.                                                   *)
(***************************************************************************)
EXTENDS Mining, SequenceTheorems, TLAPS

USE DEF AllSlots

-----------------------------------------------------------------------------
(* Segments of the main canister preserve the types of its maps.           *)

LEMMA SameMainType == MainTypeOK /\ UNCHANGED mainVars => MainTypeOK'
BY DEF MainTypeOK, mainVars, PartialMap

LEMMA SameDogType == DogTypeOK /\ UNCHANGED <<installed, dog>> => DogTypeOK'
BY DEF DogTypeOK

LEMMA RegisterDogType ==
    ASSUME MainTypeOK, NEW d \in Dogs, NEW m \in Miners, RegisterDog(d, m)
    PROVE  MainTypeOK'
BY DEF RegisterDog, MainTypeOK, PartialMap, Insert, DogEntry, MiningState, MiningType,
       DogLevel, CopperDog, DiamondDog

LEMMA AddAllianceType ==
    ASSUME MainTypeOK, NEW m \in Miners, poolCounter < MaxPools, AddAlliance(m)
    PROVE  MainTypeOK'
BY MaxPoolsAssumption DEF AddAlliance, MainTypeOK, PartialMap, Insert, PoolInfo, PoolIds

LEMMA JoinPoolType ==
    ASSUME MainTypeOK, NEW d \in Dogs, NEW p, JoinPool(d, p)
    PROVE  MainTypeOK'
BY DEF JoinPool, SetMembers, SetAlliance, MainTypeOK, PartialMap, DogEntry, PoolInfo,
       MiningType

LEMMA LeavePoolType ==
    ASSUME MainTypeOK, NEW d \in Dogs, NEW p, LeavePool(d, p)
    PROVE  MainTypeOK'
<1>1. CASE p \in DOMAIN pools
  <2>1. PartialMap(pools', PoolIds, PoolInfo)
    BY <1>1 DEF LeavePool, SetMembers, MainTypeOK, PartialMap, PoolInfo
  <2>2. PartialMap(dogsMap', Dogs, DogEntry)
    BY <1>1 DEF LeavePool, SetAlliance, MainTypeOK, PartialMap, DogEntry, MiningType
  <2> QED
    BY <2>1, <2>2 DEF LeavePool, MainTypeOK
<1>2. CASE p \notin DOMAIN pools
  BY <1>2 DEF LeavePool, MainTypeOK, PartialMap
<1> QED
  BY <1>1, <1>2

LEMMA MarkStoppedType == ASSUME MainTypeOK, NEW d, MarkStopped(d) PROVE MainTypeOK'
BY DEF MarkStopped, MainTypeOK, PartialMap, DogEntry, PoolInfo, MiningType, MiningState

LEMMA MarkActiveType == ASSUME MainTypeOK, NEW d, MarkActive(d) PROVE MainTypeOK'
BY DEF MarkActive, MainTypeOK, PartialMap, DogEntry, MiningState

LEMMA SetLevelType ==
    ASSUME MainTypeOK, NEW d, NEW level \in DogLevel, SetLevel(d, level)
    PROVE  MainTypeOK'
BY DEF SetLevel, MainTypeOK, PartialMap, DogEntry

-----------------------------------------------------------------------------
(* Calls and requests.                                                     *)

\* A user's call may be put into an idle slot.
LEMMA BeginType ==
    ASSUME NetTypeOK, NEW s \in Slots, NEW c \in Call, c.op \in UserOps, Begin(s, c)
    PROVE  /\ calls' \in [AllSlots -> Call \cup {Idle}]
           /\ left' \in [UserOps -> Nat]
BY DEF Begin, NetTypeOK

LEMMA EndType ==
    ASSUME NetTypeOK, NEW s \in AllSlots, End(s)
    PROVE  calls' \in [AllSlots -> Call \cup {Idle}]
BY DEF End, NetTypeOK

LEMMA SuspendedType ==
    ASSUME NetTypeOK, NEW s \in AllSlots, calls[s] # Idle
    PROVE  calls[s] \in Call
BY DEF NetTypeOK

LEMMA SendType ==
    ASSUME NetTypeOK, NEW d \in Dogs, NEW r \in Request, Send(d, r)
    PROVE  toDog' \in [Dogs -> Seq(Request)]
<1>1. Append(toDog[d], r) \in Seq(Request)
  BY DEF NetTypeOK
<1> QED
  BY <1>1 DEF Send, NetTypeOK

LEMMA RequestType ==
    ASSUME NEW s \in AllSlots, NEW type \in MiningType, NEW p \in PoolIds \cup {None},
           NEW l \in SilverDog .. DiamondDog
    PROVE  /\ TypeUpdateRequest(s, type, p) \in Request
           /\ LevelRequest(s, l) \in Request
           /\ InfoRequest(s) \in Request
BY DEF TypeUpdateRequest, LevelRequest, InfoRequest, Request, RequestRecord, RequestOK,
       MiningType, PoolIds, None, SilverDog, DiamondDog

\* The head of a queue is a request of the call suspended in its slot; taking
\* it out leaves a queue.
LEMMA HeadOfQueue ==
    ASSUME NetTypeOK, QueueInv, NEW d \in Dogs, toDog[d] # << >>
    PROVE  LET r == Head(toDog[d]) IN
           /\ r \in Request
           /\ r = toDog[d][1]
           /\ 1 \in 1 .. Len(toDog[d])
           /\ calls[r.slot] \in Call
           /\ calls[r.slot] # Idle
           /\ calls[r.slot].at = "dog"
           /\ calls[r.slot].dog = d
           /\ r.slot \in AllSlots
           /\ Tail(toDog[d]) \in Seq(Request)
<1>1. toDog[d] \in Seq(Request)
  BY DEF NetTypeOK
<1>2. /\ Head(toDog[d]) \in Request
      /\ Tail(toDog[d]) \in Seq(Request)
      /\ Head(toDog[d]) = toDog[d][1]
      /\ 1 \in 1 .. Len(toDog[d])
  BY <1>1
<1>3. Head(toDog[d]).slot \in AllSlots
  BY <1>2 DEF Request, RequestRecord
<1> QED
  BY <1>2, <1>3 DEF QueueInv, NetTypeOK

LEMMA ReplyType ==
    ASSUME NetTypeOK, QueueInv, NEW d \in Dogs, toDog[d] # << >>,
           NEW a \in {"ok", "err"} \cup MiningState, Reply(d, a)
    PROVE  /\ calls' \in [AllSlots -> Call \cup {Idle}]
           /\ toDog' \in [Dogs -> Seq(Request)]
<1> DEFINE r == Head(toDog[d])
           c == [calls[r.slot] EXCEPT !.at = "replied", !.reply = a]
<1>1. c \in Call
  <2>1. calls[r.slot] \in Call /\ calls[r.slot].at = "dog"
    BY HeadOfQueue
  <2>2. c \in CallRecord
    BY <2>1 DEF Call, CallRecord
  <2>3. CallOK(c)
    BY <2>1 DEF Call, CallRecord, CallOK
  <2> QED
    BY <2>2, <2>3 DEF Call
<1>2. calls' = [calls EXCEPT ![r.slot] = c]
  BY HeadOfQueue DEF Reply, NetTypeOK
<1>3. calls' \in [AllSlots -> Call \cup {Idle}]
  <2>1. r.slot \in AllSlots
    BY HeadOfQueue
  <2> QED
    BY <1>1, <1>2, <2>1 DEF NetTypeOK
<1>4. toDog' \in [Dogs -> Seq(Request)]
  <2>1. Tail(toDog[d]) \in Seq(Request)
    BY HeadOfQueue
  <2> QED
    BY <2>1 DEF Reply, NetTypeOK
<1> QED
  BY <1>3, <1>4

-----------------------------------------------------------------------------
(* Type correctness.                                                       *)

LEMMA InitTypeOK == Init => TypeOK
<1> SUFFICES ASSUME Init PROVE TypeOK
    OBVIOUS
<1>1. MainTypeOK
  BY MaxPoolsAssumption DEF Init, MainInit, MainTypeOK, PartialMap, EmptyMap
<1>2. DogTypeOK
  BY DEF Init, DogTypeOK, NewDog, DogContext, CyclesBand, MiningState, MiningType, DogLevel,
         CopperDog, DiamondDog
<1>3. NetTypeOK
  BY BudgetAssumption DEF Init, NetTypeOK
<1>4. HistoryTypeOK
  BY DEF Init, HistoryTypeOK
<1> QED
  BY <1>1, <1>2, <1>3, <1>4 DEF TypeOK

\* A step of a user's call.
LEMMA UserStepTypeOK ==
    ASSUME TypeOK, QueueInv, NEW s \in Slots, UserCall(s) \/ Resume(s)
    PROVE  TypeOK'
<1> USE DEF TypeOK
<1>0. calls[s] = Idle \/ calls[s] \in Call
  BY DEF NetTypeOK
<1>1. CASE FeeRefused(s)
  <2>1. calls' \in [AllSlots -> Call \cup {Idle}]
    BY <1>1, EndType DEF FeeRefused
  <2> QED
    BY <1>1, <2>1, SameMainType, SameDogType DEF FeeRefused, NetTypeOK, HistoryTypeOK
<1>2. ASSUME NEW m \in Miners, CreateDog(s, m) PROVE TypeOK'
  <2> DEFINE c == [NewCall("create_dog") EXCEPT !.miner = m]
  <2>1. c \in Call /\ c.op \in UserOps
    BY DEF NewCall, Call, CallRecord, CallOK, UserOps, None
  <2>2. /\ calls' \in [AllSlots -> Call \cup {Idle}]
        /\ left' \in [UserOps -> Nat]
    BY <1>2, <2>1, BeginType DEF CreateDog
  <2> QED
    BY <1>2, <2>2, SameMainType, SameDogType DEF CreateDog, NetTypeOK, HistoryTypeOK
<1>3. CASE InstallDog(s)
  <2>1. PICK d \in Dogs \ installed :
            /\ installed' = installed \cup {d}
            /\ dog' = [dog EXCEPT ![d] = NewDog]
            /\ calls' = [calls EXCEPT ![s].at = "install", ![s].dog = d]
    BY <1>3 DEF InstallDog
  <2>2. DogTypeOK'
    BY <2>1 DEF DogTypeOK, NewDog, DogContext, CyclesBand, MiningState, MiningType, DogLevel,
                CopperDog, DiamondDog
  <2> DEFINE c == [calls[s] EXCEPT !.at = "install", !.dog = d]
  <2>3. c \in Call
    BY <1>0, <1>3 DEF InstallDog, Suspended, Call, CallRecord, CallOK
  <2>4. calls' \in [AllSlots -> Call \cup {Idle}]
    BY <2>1, <2>3 DEF NetTypeOK
  <2> QED
    BY <1>3, <2>2, <2>4, SameMainType DEF InstallDog, NetTypeOK, HistoryTypeOK
<1>4. CASE CreateDogReply(s)
  <2>1. calls[s].dog \in Dogs /\ calls[s].miner \in Miners
    BY <1>0, <1>4 DEF CreateDogReply, Suspended, Call, CallRecord, CallOK
  <2>2. MainTypeOK'
    BY <1>4, <2>1, RegisterDogType DEF CreateDogReply
  <2>3. calls' \in [AllSlots -> Call \cup {Idle}]
    BY <1>4, EndType DEF CreateDogReply
  <2> QED
    BY <1>4, <2>2, <2>3, SameDogType DEF CreateDogReply, NetTypeOK, HistoryTypeOK
<1>5. ASSUME NEW m \in Miners, CreateAlliance(s, m) PROVE TypeOK'
  <2> DEFINE c == [NewCall("create_alliance") EXCEPT !.miner = m]
  <2>1. c \in Call /\ c.op \in UserOps
    BY DEF NewCall, Call, CallRecord, CallOK, UserOps, None
  <2>2. /\ calls' \in [AllSlots -> Call \cup {Idle}]
        /\ left' \in [UserOps -> Nat]
    BY <1>5, <2>1, BeginType DEF CreateAlliance
  <2> QED
    BY <1>5, <2>2, SameMainType, SameDogType DEF CreateAlliance, NetTypeOK, HistoryTypeOK
<1>6. CASE CreateAlliancePaid(s)
  <2>1. calls[s].miner \in Miners
    BY <1>0, <1>6 DEF CreateAlliancePaid, Suspended, Call, CallRecord, CallOK
  <2>2. MainTypeOK'
    BY <1>6, <2>1, AddAllianceType DEF CreateAlliancePaid
  <2>3. calls' \in [AllSlots -> Call \cup {Idle}]
    BY <1>6, EndType DEF CreateAlliancePaid
  <2> QED
    BY <1>6, <2>2, <2>3, SameDogType DEF CreateAlliancePaid, NetTypeOK, HistoryTypeOK
<1>7. ASSUME NEW d \in Dogs, NEW p \in PoolIds, JoinAlliance(s, d, p) PROVE TypeOK'
  <2> DEFINE c == [NewCall("join_alliance") EXCEPT !.dog = d, !.arg = p]
  <2>1. c \in Call /\ c.op \in UserOps
    <3>1. c \in CallRecord /\ c.op \in UserOps
      <4>1. p \in Nat
        BY MaxPoolsAssumption DEF PoolIds
      <4> QED
        BY <4>1 DEF NewCall, CallRecord, UserOps, None
    <3>2. CallOK(c)
      BY DEF NewCall, CallOK
    <3> QED
      BY <3>1, <3>2 DEF Call
  <2>2. /\ calls' \in [AllSlots -> Call \cup {Idle}]
        /\ left' \in [UserOps -> Nat]
    BY <1>7, <2>1, BeginType DEF JoinAlliance
  <2> QED
    BY <1>7, <2>2, SameMainType, SameDogType DEF JoinAlliance, NetTypeOK, HistoryTypeOK
<1>8. CASE JoinAlliancePaid(s)
  <2>1. calls[s].dog \in Dogs /\ calls[s].arg \in PoolIds
    BY <1>0, <1>8 DEF JoinAlliancePaid, Suspended, Call, CallRecord, CallOK
  <2>2. TypeUpdateRequest(s, "POOL", calls[s].arg) \in Request
    BY <2>1, RequestType DEF MiningType, SilverDog, DiamondDog
  <2>3. toDog' \in [Dogs -> Seq(Request)]
    BY <1>8, <2>1, <2>2, SendType DEF JoinAlliancePaid
  <2> DEFINE c == [calls[s] EXCEPT !.at = "dog"]
  <2>4. c \in Call
    BY <1>0, <1>8 DEF JoinAlliancePaid, Suspended, Call, CallRecord, CallOK
  <2>5. calls' \in [AllSlots -> Call \cup {Idle}]
    BY <1>8, <2>4 DEF JoinAlliancePaid, NetTypeOK
  <2>6. disturbed' \subseteq Dogs
    BY <1>8, <2>1 DEF JoinAlliancePaid, DisturbIfBusy, HistoryTypeOK
  <2> QED
    BY <1>8, <2>3, <2>5, <2>6, SameMainType, SameDogType
    DEF JoinAlliancePaid, NetTypeOK, HistoryTypeOK
<1>9. CASE JoinAllianceReply(s)
  <2>1. calls[s].dog \in Dogs
    BY <1>0, <1>9 DEF JoinAllianceReply, Suspended, Call, CallRecord, CallOK
  <2>2. MainTypeOK'
    BY <1>9, <2>1, JoinPoolType, SameMainType DEF JoinAllianceReply
  <2>3. calls' \in [AllSlots -> Call \cup {Idle}]
    BY <1>9, EndType DEF JoinAllianceReply
  <2>4. disturbed' \subseteq Dogs
    BY <1>9, <2>1 DEF JoinAllianceReply, HistoryTypeOK
  <2> QED
    BY <1>9, <2>2, <2>3, <2>4, SameDogType DEF JoinAllianceReply, NetTypeOK, HistoryTypeOK
<1>10. ASSUME NEW d \in Dogs, NEW p \in PoolIds, LeaveAlliance(s, d, p) PROVE TypeOK'
  <2> DEFINE c == [NewCall("leave_alliance") EXCEPT !.at = "dog", !.dog = d, !.arg = p]
  <2>1. c \in Call /\ c.op \in UserOps
    <3>1. c \in CallRecord /\ c.op \in UserOps
      <4>1. p \in Nat
        BY MaxPoolsAssumption DEF PoolIds
      <4> QED
        BY <4>1 DEF NewCall, CallRecord, UserOps, None
    <3>2. CallOK(c)
      BY DEF NewCall, CallOK
    <3> QED
      BY <3>1, <3>2 DEF Call
  <2>2. /\ calls' \in [AllSlots -> Call \cup {Idle}]
        /\ left' \in [UserOps -> Nat]
    BY <1>10, <2>1, BeginType DEF LeaveAlliance
  <2>3. TypeUpdateRequest(s, "ALONE", None) \in Request
    BY RequestType DEF MiningType, SilverDog, DiamondDog
  <2>4. toDog' \in [Dogs -> Seq(Request)]
    BY <1>10, <2>3, SendType DEF LeaveAlliance
  <2>5. disturbed' \subseteq Dogs
    BY <1>10 DEF LeaveAlliance, DisturbIfBusy, HistoryTypeOK
  <2> QED
    BY <1>10, <2>2, <2>4, <2>5, SameMainType, SameDogType
    DEF LeaveAlliance, NetTypeOK, HistoryTypeOK
<1>11. CASE LeaveAllianceReply(s)
  <2>1. calls[s].dog \in Dogs
    BY <1>0, <1>11 DEF LeaveAllianceReply, Suspended, Call, CallRecord, CallOK
  <2>2. MainTypeOK'
    BY <1>11, <2>1, LeavePoolType, SameMainType DEF LeaveAllianceReply
  <2>3. calls' \in [AllSlots -> Call \cup {Idle}]
    BY <1>11, EndType DEF LeaveAllianceReply
  <2> QED
    BY <1>11, <2>2, <2>3, SameDogType DEF LeaveAllianceReply, NetTypeOK, HistoryTypeOK
<1>12. ASSUME NEW d \in Dogs, UpgradeDog(s, d) PROVE TypeOK'
  <2> DEFINE c == [NewCall("dog_level_upgrade") EXCEPT
                        !.dog = d, !.arg = dogsMap[d].level + 1]
  <2>1. dogsMap[d].level + 1 \in SilverDog .. DiamondDog
    BY <1>12 DEF UpgradeDog, MainTypeOK, PartialMap, DogEntry, DogLevel, CopperDog, SilverDog,
                 DiamondDog
  <2>2. c \in Call /\ c.op \in UserOps
    <3>1. c \in CallRecord /\ c.op \in UserOps
      <4>1. dogsMap[d].level + 1 \in Nat
        BY <2>1 DEF SilverDog, DiamondDog
      <4> QED
        BY <4>1 DEF NewCall, CallRecord, UserOps, None
    <3>2. CallOK(c)
      BY <2>1 DEF NewCall, CallOK
    <3> QED
      BY <3>1, <3>2 DEF Call
  <2>3. /\ calls' \in [AllSlots -> Call \cup {Idle}]
        /\ left' \in [UserOps -> Nat]
    BY <1>12, <2>2, BeginType DEF UpgradeDog
  <2> QED
    BY <1>12, <2>3, SameMainType, SameDogType DEF UpgradeDog, NetTypeOK, HistoryTypeOK
<1>13. CASE UpgradePaid(s)
  <2>1. calls[s].dog \in Dogs /\ calls[s].arg \in SilverDog .. DiamondDog
    BY <1>0, <1>13 DEF UpgradePaid, Suspended, Call, CallRecord, CallOK
  <2>2. LevelRequest(s, calls[s].arg) \in Request
    BY <2>1, RequestType DEF MiningType
  <2>3. toDog' \in [Dogs -> Seq(Request)]
    BY <1>13, <2>1, <2>2, SendType DEF UpgradePaid
  <2> DEFINE c == [calls[s] EXCEPT !.at = "dog"]
  <2>4. c \in Call
    BY <1>0, <1>13 DEF UpgradePaid, Suspended, Call, CallRecord, CallOK
  <2>5. calls' \in [AllSlots -> Call \cup {Idle}]
    BY <1>13, <2>4 DEF UpgradePaid, NetTypeOK
  <2>6. [level |-> calls[s].arg, to |-> AcceptUser(calls[s].arg)] \in Fee
    BY <2>1 DEF Fee, AcceptUser
  <2>7. collected' \in [Dogs -> SUBSET Fee]
    BY <1>13, <2>1, <2>6 DEF UpgradePaid, HistoryTypeOK
  <2> QED
    BY <1>13, <2>3, <2>5, <2>7, SameMainType, SameDogType
    DEF UpgradePaid, NetTypeOK, HistoryTypeOK
<1>14. CASE UpgradeReply(s)
  <2>1. calls[s].arg \in DogLevel
    BY <1>0, <1>14 DEF UpgradeReply, Suspended, Call, CallRecord, CallOK, DogLevel, CopperDog,
                       SilverDog, DiamondDog
  <2>2. MainTypeOK'
    BY <1>14, <2>1, SetLevelType, SameMainType DEF UpgradeReply
  <2>3. calls' \in [AllSlots -> Call \cup {Idle}]
    BY <1>14, EndType DEF UpgradeReply
  <2> QED
    BY <1>14, <2>2, <2>3, SameDogType DEF UpgradeReply, NetTypeOK, HistoryTypeOK
<1> QED
  BY <1>1, <1>2, <1>3, <1>4, <1>5, <1>6, <1>7, <1>8, <1>9, <1>10, <1>11, <1>12, <1>13, <1>14
  DEF UserCall, Resume

\* A step of calc.
LEMMA AskNextType ==
    ASSUME NetTypeOK, NEW s \in AllSlots, NEW todo \in SUBSET Dogs, AskNext(s, todo)
    PROVE  /\ calls' \in [AllSlots -> Call \cup {Idle}]
           /\ toDog' \in [Dogs -> Seq(Request)]
<1>1. PICK d \in todo :
            /\ calls' = [calls EXCEPT ![s] = [NewCall("calc") EXCEPT
                            !.at = "dog", !.dog = d, !.todo = todo \ {d}]]
            /\ Send(d, InfoRequest(s))
  BY DEF AskNext
<1> DEFINE c == [NewCall("calc") EXCEPT !.at = "dog", !.dog = d, !.todo = todo \ {d}]
<1>2. c \in Call
  <2>1. c \in CallRecord
    BY DEF NewCall, CallRecord, None
  <2>2. CallOK(c)
    BY DEF NewCall, CallOK, UserOps
  <2> QED
    BY <2>1, <2>2 DEF Call
<1>3. InfoRequest(s) \in Request
  BY DEF InfoRequest, Request, RequestRecord, RequestOK, MiningType, None
<1> QED
  BY <1>1, <1>2, <1>3, SendType DEF NetTypeOK

LEMMA CalcStepTypeOK ==
    ASSUME TypeOK, QueueInv, NEW s \in CalcSlots, Calc(s) \/ CalcReply(s)
    PROVE  TypeOK'
<1> USE DEF TypeOK
<1>1. CASE Calc(s)
  <2>1. ActiveDogs \subseteq Dogs
    BY DEF ActiveDogs, MainTypeOK, PartialMap
  <2>2. /\ calls' \in [AllSlots -> Call \cup {Idle}]
        /\ toDog' \in [Dogs -> Seq(Request)]
    BY <1>1, <2>1, AskNextType DEF Calc
  <2>3. disturbed' \subseteq Dogs
    BY <1>1, <2>1 DEF Calc, DisturbIfBusy, HistoryTypeOK
  <2> QED
    BY <1>1, <2>2, <2>3, SameMainType, SameDogType DEF Calc, NetTypeOK, HistoryTypeOK
<1>2. CASE CalcReply(s)
  <2>1. calls[s] \in Call /\ calls[s].op = "calc"
    BY <1>2 DEF CalcReply, Suspended, NetTypeOK
  <2>2. calls[s].dog \in Dogs /\ calls[s].todo \in SUBSET Dogs
    BY <2>1 DEF Call, CallRecord, CallOK
  <2>3. MainTypeOK'
    BY <1>2, MarkStoppedType, SameMainType DEF CalcReply
  <2>4. /\ calls' \in [AllSlots -> Call \cup {Idle}]
        /\ toDog' \in [Dogs -> Seq(Request)]
    <3>1. CASE calls[s].todo = {}
      BY <1>2, <3>1, EndType DEF CalcReply, NetTypeOK
    <3>2. CASE calls[s].todo # {}
      BY <1>2, <2>2, <3>2, AskNextType DEF CalcReply
    <3> QED
      BY <3>1, <3>2
  <2>5. disturbed' \subseteq Dogs
    BY <1>2, <2>2 DEF CalcReply, HistoryTypeOK
  <2> QED
    BY <1>2, <2>3, <2>4, <2>5, SameDogType DEF CalcReply, NetTypeOK, HistoryTypeOK
<1> QED
  BY <1>1, <1>2

\* A step of a dog or of the network between it and the main canister.
LEMMA DogContextType ==
    ASSUME NEW c \in DogContext
    PROVE  /\ StartTimer(c) \in DogContext
           /\ StopTimer(c) \in DogContext
           /\ \A l \in DogLevel : LevelUpgrade(c, l) \in DogContext
           /\ \A t \in MiningType, a \in PoolIds \cup {None} :
                    TypeUpdate(c, t, a) \in DogContext
           /\ \A b \in CyclesBand : [c EXCEPT !.cycles = b] \in DogContext
BY DEF DogContext, StartTimer, StopTimer, LevelUpgrade, TypeUpdate, MiningState, MiningType

LEMMA DogStepTypeOK ==
    ASSUME TypeOK, QueueInv, NEW d \in Dogs, DogStep(d)
    PROVE  TypeOK'
<1> USE DEF TypeOK
<1>0. dog[d] \in DogContext
  BY DEF DogTypeOK
<1>1. CASE DogMiningTypeUpdate(d)
  <2> DEFINE r == Head(toDog[d])
  <2>1. r \in Request /\ r.op = "dog_mining_type_update"
    BY <1>1, HeadOfQueue DEF DogMiningTypeUpdate
  <2>2. r.type \in MiningType /\ r.arg \in PoolIds \cup {None}
    BY <2>1 DEF Request, RequestRecord, RequestOK
  <2>3. DogTypeOK'
    BY <1>0, <1>1, <2>2, DogContextType DEF DogMiningTypeUpdate, DogTypeOK
  <2>4. /\ calls' \in [AllSlots -> Call \cup {Idle}]
        /\ toDog' \in [Dogs -> Seq(Request)]
    BY <1>1, ReplyType DEF DogMiningTypeUpdate
  <2> QED
    BY <1>1, <2>3, <2>4, SameMainType DEF DogMiningTypeUpdate, NetTypeOK, HistoryTypeOK
<1>2. CASE DogLevelUpgrade(d)
  <2> DEFINE r == Head(toDog[d])
  <2>1. r \in Request /\ r.op = "dog_level_upgrade"
    BY <1>2, HeadOfQueue DEF DogLevelUpgrade
  <2>2. r.arg \in DogLevel
    BY <2>1 DEF Request, RequestRecord, RequestOK, DogLevel, CopperDog, SilverDog, DiamondDog
  <2>3. DogTypeOK'
    BY <1>0, <1>2, <2>2, DogContextType DEF DogLevelUpgrade, DogTypeOK
  <2>4. /\ calls' \in [AllSlots -> Call \cup {Idle}]
        /\ toDog' \in [Dogs -> Seq(Request)]
    BY <1>2, ReplyType DEF DogLevelUpgrade
  <2> QED
    BY <1>2, <2>3, <2>4, SameMainType DEF DogLevelUpgrade, NetTypeOK, HistoryTypeOK
<1>3. CASE DogInfo(d)
  <2>1. dog[d].state \in MiningState
    BY <1>0 DEF DogContext
  <2>2. /\ calls' \in [AllSlots -> Call \cup {Idle}]
        /\ toDog' \in [Dogs -> Seq(Request)]
    BY <1>3, <2>1, ReplyType DEF DogInfo
  <2> QED
    BY <1>3, <2>2, SameMainType, SameDogType DEF DogInfo, NetTypeOK, HistoryTypeOK
<1>4. CASE RejectRequest(d)
  <2>1. /\ calls' \in [AllSlots -> Call \cup {Idle}]
        /\ toDog' \in [Dogs -> Seq(Request)]
    BY <1>4, ReplyType DEF RejectRequest
  <2> QED
    BY <1>4, <2>1, SameMainType, SameDogType DEF RejectRequest, NetTypeOK, HistoryTypeOK
<1>5. CASE Tick(d)
  <2>1. toMain' \in [Dogs -> Seq(MiningState)]
    BY <1>5 DEF Tick, NetTypeOK
  <2>2. disturbed' \subseteq Dogs
    BY <1>5 DEF Tick, DisturbIfBusy, HistoryTypeOK
  <2> QED
    BY <1>5, <2>1, <2>2, SameMainType, SameDogType DEF Tick, NetTypeOK, HistoryTypeOK
<1>6. CASE MainUpdateDogState(d)
  <2>1. Head(toMain[d]) \in MiningState /\ Tail(toMain[d]) \in Seq(MiningState)
    BY <1>6 DEF MainUpdateDogState, NetTypeOK
  <2>2. MainTypeOK'
    BY <1>6, MarkStoppedType, MarkActiveType DEF MainUpdateDogState, UpdateDogState
  <2>3. replies' \in [Dogs -> [MiningState -> Nat]]
    BY <1>6, <2>1 DEF MainUpdateDogState, NetTypeOK
  <2>4. toMain' \in [Dogs -> Seq(MiningState)]
    BY <1>6, <2>1 DEF MainUpdateDogState, NetTypeOK
  <2> QED
    BY <1>6, <2>2, <2>3, <2>4, SameDogType DEF MainUpdateDogState, NetTypeOK, HistoryTypeOK
<1>7. CASE RejectReport(d)
  <2>1. Tail(toMain[d]) \in Seq(MiningState)
    BY <1>7 DEF RejectReport, NetTypeOK
  <2>2. toMain' \in [Dogs -> Seq(MiningState)]
    BY <1>7, <2>1 DEF RejectReport, NetTypeOK
  <2> QED
    BY <1>7, <2>2, SameMainType, SameDogType DEF RejectReport, NetTypeOK, HistoryTypeOK
<1>8. ASSUME NEW st \in MiningState, ReportAcknowledged(d, st) PROVE TypeOK'
  <2>1. DogTypeOK'
    BY <1>0, <1>8, DogContextType DEF ReportAcknowledged, ApplyReport, DogTypeOK
  <2>2. replies' \in [Dogs -> [MiningState -> Nat]]
    BY <1>8 DEF ReportAcknowledged, NetTypeOK
  <2> QED
    BY <1>8, <2>1, <2>2, SameMainType DEF ReportAcknowledged, NetTypeOK, HistoryTypeOK
<1>9. ASSUME NEW band \in CyclesBand, CyclesChange(d, band) PROVE TypeOK'
  <2>1. DogTypeOK'
    BY <1>0, <1>9, DogContextType DEF CyclesChange, DogTypeOK
  <2> QED
    BY <1>9, <2>1, SameMainType DEF CyclesChange, netVars, NetTypeOK, HistoryTypeOK
<1> QED
  BY <1>1, <1>2, <1>3, <1>4, <1>5, <1>6, <1>7, <1>8, <1>9 DEF DogStep, DogHandles

-----------------------------------------------------------------------------
(* Requests in flight.                                                     *)

NotAwaiting(s) == calls[s] = Idle \/ calls[s].at # "dog"

LEMMA SameQueue == QueueInv /\ UNCHANGED <<calls, toDog>> => QueueInv'
BY DEF QueueInv

\* A call that awaits no dog may change without touching the queues.
LEMMA QueueOther ==
    ASSUME NetTypeOK, QueueInv, NEW s \in AllSlots, NotAwaiting(s), NEW c,
           calls' = [calls EXCEPT ![s] = c], toDog' = toDog
    PROVE  QueueInv'
BY DEF QueueInv, NotAwaiting, NetTypeOK

\* A call that awaits no dog may send a request and wait for its answer.
LEMMA QueueSend ==
    ASSUME NetTypeOK, QueueInv, NEW s \in AllSlots, NotAwaiting(s), NEW c, NEW d \in Dogs,
           c # Idle, c.at = "dog", c.dog = d, NEW r \in Request, r.slot = s,
           calls' = [calls EXCEPT ![s] = c], Send(d, r)
    PROVE  QueueInv'
<1>1. calls'[s] = c /\ \A t \in AllSlots \ {s} : calls'[t] = calls[t]
  BY DEF NetTypeOK
<1>2. \A e \in Dogs : \A i \in 1 .. Len(toDog[e]) :
        toDog[e][i].slot # s /\ toDog[e][i].slot \in AllSlots
  <2>1. \A e \in Dogs : \A i \in 1 .. Len(toDog[e]) : toDog[e][i] \in Request
    BY DEF NetTypeOK
  <2> QED
    BY <2>1 DEF QueueInv, NotAwaiting, Request, RequestRecord
<1>3. ASSUME NEW e \in Dogs, e # d PROVE toDog'[e] = toDog[e]
  BY <1>3 DEF Send, NetTypeOK
<1>4. /\ toDog'[d] = Append(toDog[d], r)
      /\ toDog[d] \in Seq(Request)
  BY DEF Send, NetTypeOK
<1>5. /\ Len(toDog'[d]) = Len(toDog[d]) + 1
      /\ \A i \in 1 .. Len(toDog[d]) : toDog'[d][i] = toDog[d][i]
      /\ toDog'[d][Len(toDog[d]) + 1] = r
      /\ Len(toDog[d]) \in Nat
  BY <1>4
<1>6. ASSUME NEW e \in Dogs, NEW i \in 1 .. Len(toDog'[e])
      PROVE  LET t == toDog'[e][i].slot IN
             calls'[t] # Idle /\ calls'[t].at = "dog" /\ calls'[t].dog = e
  <2>1. CASE e = d /\ i = Len(toDog[d]) + 1
    BY <1>1, <1>5, <2>1
  <2>2. CASE e # d \/ i # Len(toDog[d]) + 1
    <3>1. i \in 1 .. Len(toDog[e]) /\ toDog'[e][i] = toDog[e][i]
      BY <1>3, <1>5, <1>6, <2>2
    <3> QED
      BY <1>1, <1>2, <3>1 DEF QueueInv
  <2> QED
    BY <2>1, <2>2
<1>7. ASSUME NEW e \in Dogs, NEW i \in 1 .. Len(toDog'[e]), NEW j \in 1 .. Len(toDog'[e]),
             toDog'[e][i].slot = toDog'[e][j].slot
      PROVE  i = j
  <2>1. CASE e # d
    BY <1>3, <1>7, <2>1 DEF QueueInv
  <2>2. CASE e = d
    <3>1. \A k \in 1 .. Len(toDog'[d]) :
            \/ k \in 1 .. Len(toDog[d]) /\ toDog'[d][k].slot # s
            \/ k = Len(toDog[d]) + 1 /\ toDog'[d][k].slot = s
      BY <1>2, <1>5
    <3>2. i \in 1 .. Len(toDog[d]) /\ j \in 1 .. Len(toDog[d]) => i = j
      BY <1>5, <1>7, <2>2 DEF QueueInv
    <3> QED
      BY <1>7, <2>2, <3>1, <3>2
  <2> QED
    BY <2>1, <2>2
<1> QED
  BY <1>6, <1>7 DEF QueueInv

\* Answering the first request of a queue.
LEMMA QueueReply ==
    ASSUME NetTypeOK, QueueInv, NEW d \in Dogs, toDog[d] # << >>, NEW a, Reply(d, a)
    PROVE  QueueInv'
<1> DEFINE s == Head(toDog[d]).slot
<1>1. /\ s \in AllSlots
      /\ s = toDog[d][1].slot
      /\ 1 \in 1 .. Len(toDog[d])
      /\ calls[s].dog = d
  BY HeadOfQueue
<1>2. \A t \in AllSlots \ {s} : calls'[t] = calls[t]
  BY DEF Reply, NetTypeOK
<1>3. \A e \in Dogs \ {d} : toDog'[e] = toDog[e]
  BY DEF Reply, NetTypeOK
<1>4. /\ toDog'[d] = Tail(toDog[d])
      /\ toDog[d] \in Seq(Request)
  BY DEF Reply, NetTypeOK
<1>5. /\ Len(toDog'[d]) = Len(toDog[d]) - 1
      /\ Len(toDog[d]) \in Nat
      /\ \A i \in 1 .. Len(toDog'[d]) :
            i + 1 \in 1 .. Len(toDog[d]) /\ toDog'[d][i] = toDog[d][i + 1]
  BY <1>4
<1>6. \A e \in Dogs : \A i \in 1 .. Len(toDog[e]) : toDog[e][i].slot \in AllSlots
  <2>1. \A e \in Dogs : \A i \in 1 .. Len(toDog[e]) : toDog[e][i] \in Request
    BY DEF NetTypeOK
  <2> QED
    BY <2>1 DEF Request, RequestRecord
<1>7. ASSUME NEW e \in Dogs, NEW i \in 1 .. Len(toDog'[e])
      PROVE  LET t == toDog'[e][i].slot IN
             calls'[t] # Idle /\ calls'[t].at = "dog" /\ calls'[t].dog = e
  <2>1. CASE e = d
    <3>1. i + 1 \in 1 .. Len(toDog[d]) /\ toDog'[d][i] = toDog[d][i + 1] /\ i + 1 # 1
      BY <1>5, <1>7, <2>1
    <3>2. toDog[d][i + 1].slot # s
      BY <1>1, <3>1 DEF QueueInv
    <3> QED
      BY <1>2, <1>6, <2>1, <3>1, <3>2 DEF QueueInv
  <2>2. CASE e # d
    <3>1. toDog'[e] = toDog[e] /\ i \in 1 .. Len(toDog[e])
      BY <1>3, <1>7, <2>2
    <3>2. toDog[e][i].slot # s
      BY <1>1, <2>2, <3>1 DEF QueueInv
    <3> QED
      BY <1>2, <1>6, <3>1, <3>2 DEF QueueInv
  <2> QED
    BY <2>1, <2>2
<1>8. ASSUME NEW e \in Dogs, NEW i \in 1 .. Len(toDog'[e]), NEW j \in 1 .. Len(toDog'[e]),
             toDog'[e][i].slot = toDog'[e][j].slot
      PROVE  i = j
  <2>1. CASE e # d
    BY <1>3, <1>8, <2>1 DEF QueueInv
  <2>2. CASE e = d
    <3>1. /\ i + 1 \in 1 .. Len(toDog[d]) /\ toDog'[d][i] = toDog[d][i + 1]
          /\ j + 1 \in 1 .. Len(toDog[d]) /\ toDog'[d][j] = toDog[d][j + 1]
      BY <1>5, <1>8, <2>2
    <3>2. i + 1 = j + 1
      BY <1>8, <2>2, <3>1 DEF QueueInv
    <3> QED
      BY <3>2
  <2> QED
    BY <2>1, <2>2
<1> QED
  BY <1>7, <1>8 DEF QueueInv

LEMMA NextQueueInv == TypeOK /\ QueueInv /\ [Next]_vars => QueueInv'
<1> SUFFICES ASSUME TypeOK, QueueInv, [Next]_vars PROVE QueueInv'
    OBVIOUS
<1>0. NetTypeOK /\ MainTypeOK
  BY DEF TypeOK
<1>1. ASSUME NEW s \in Slots, UserCall(s) PROVE QueueInv'
  <2>1. ASSUME NEW m \in Miners, CreateDog(s, m) \/ CreateAlliance(s, m) PROVE QueueInv'
    BY <1>0, <2>1, QueueOther DEF CreateDog, CreateAlliance, Begin, NotAwaiting
  <2>2. ASSUME NEW d \in Dogs, UpgradeDog(s, d) PROVE QueueInv'
    BY <1>0, <2>2, QueueOther DEF UpgradeDog, Begin, NotAwaiting
  <2>3. ASSUME NEW d \in Dogs, NEW p \in PoolIds, JoinAlliance(s, d, p) PROVE QueueInv'
    BY <1>0, <2>3, QueueOther DEF JoinAlliance, Begin, NotAwaiting
  <2>4. ASSUME NEW d \in Dogs, NEW p \in PoolIds, LeaveAlliance(s, d, p) PROVE QueueInv'
    <3> DEFINE c == [NewCall("leave_alliance") EXCEPT !.at = "dog", !.dog = d, !.arg = p]
               r == TypeUpdateRequest(s, "ALONE", None)
    <3>1. calls' = [calls EXCEPT ![s] = c] /\ NotAwaiting(s) /\ Send(d, r)
      BY <2>4 DEF LeaveAlliance, Begin, NotAwaiting
    <3>2. c # Idle /\ c.at = "dog" /\ c.dog = d
      BY DEF NewCall, Idle
    <3>3. r \in Request /\ r.slot = s
      BY RequestType DEF TypeUpdateRequest, MiningType, SilverDog, DiamondDog
    <3> QED
      BY <1>0, <3>1, <3>2, <3>3, QueueSend
  <2> QED
    BY <1>1, <2>1, <2>2, <2>3, <2>4 DEF UserCall
<1>2. ASSUME NEW s \in Slots, Resume(s) PROVE QueueInv'
  <2> DEFINE c == [calls[s] EXCEPT !.at = "dog"]
  <2>1. CASE FeeRefused(s) \/ CreateDogReply(s) \/ CreateAlliancePaid(s) \/ JoinAllianceReply(s)
             \/ LeaveAllianceReply(s) \/ UpgradeReply(s)
    BY <1>0, <2>1, QueueOther DEF FeeRefused, CreateDogReply, CreateAlliancePaid,
       JoinAllianceReply, LeaveAllianceReply, UpgradeReply, Suspended, End, NotAwaiting
  <2>2. CASE InstallDog(s)
    <3>1. PICK d \in Dogs : calls' = [calls EXCEPT ![s].at = "install", ![s].dog = d]
      BY <2>2 DEF InstallDog
    <3>2. calls' = [calls EXCEPT ![s] = [calls[s] EXCEPT !.at = "install", !.dog = d]]
      BY <1>0, <3>1 DEF NetTypeOK
    <3> QED
      BY <1>0, <2>2, <3>2, QueueOther DEF InstallDog, Suspended, NotAwaiting
  <2>3. CASE JoinAlliancePaid(s)
    <3> DEFINE r == TypeUpdateRequest(s, "POOL", calls[s].arg)
    <3>1. /\ NotAwaiting(s)
          /\ calls[s] \in Call /\ calls[s].op = "join_alliance"
          /\ calls' = [calls EXCEPT ![s] = c]
          /\ Send(calls[s].dog, r)
      BY <1>0, <2>3 DEF JoinAlliancePaid, Suspended, NotAwaiting, NetTypeOK
    <3>2. calls[s].dog \in Dogs /\ calls[s].arg \in PoolIds
      BY <3>1 DEF Call, CallRecord, CallOK
    <3>3. c # Idle /\ c.at = "dog" /\ c.dog = calls[s].dog
      BY <3>1 DEF Call, CallRecord, Idle
    <3>4. r \in Request /\ r.slot = s
      BY <3>2, RequestType DEF TypeUpdateRequest, MiningType, SilverDog, DiamondDog
    <3> QED
      BY <1>0, <3>1, <3>2, <3>3, <3>4, QueueSend
  <2>4. CASE UpgradePaid(s)
    <3> DEFINE r == LevelRequest(s, calls[s].arg)
    <3>1. /\ NotAwaiting(s)
          /\ calls[s] \in Call /\ calls[s].op = "dog_level_upgrade"
          /\ calls' = [calls EXCEPT ![s] = c]
          /\ Send(calls[s].dog, r)
      BY <1>0, <2>4 DEF UpgradePaid, Suspended, NotAwaiting, NetTypeOK
    <3>2. calls[s].dog \in Dogs /\ calls[s].arg \in SilverDog .. DiamondDog
      BY <3>1 DEF Call, CallRecord, CallOK
    <3>3. c # Idle /\ c.at = "dog" /\ c.dog = calls[s].dog
      BY <3>1 DEF Call, CallRecord, Idle
    <3>4. r \in Request /\ r.slot = s
      BY <3>2, RequestType DEF LevelRequest, MiningType
    <3> QED
      BY <1>0, <3>1, <3>2, <3>3, <3>4, QueueSend
  <2> QED
    BY <1>2, <2>1, <2>2, <2>3, <2>4 DEF Resume
<1>3. ASSUME NEW s \in CalcSlots, Calc(s) \/ CalcReply(s) PROVE QueueInv'
  <2>1. ASSUME NEW todo \in SUBSET Dogs, NotAwaiting(s), AskNext(s, todo) PROVE QueueInv'
    <3>1. PICK d \in todo :
            /\ calls' = [calls EXCEPT ![s] = [NewCall("calc") EXCEPT
                            !.at = "dog", !.dog = d, !.todo = todo \ {d}]]
            /\ Send(d, InfoRequest(s))
      BY <2>1 DEF AskNext
    <3> DEFINE c == [NewCall("calc") EXCEPT !.at = "dog", !.dog = d, !.todo = todo \ {d}]
    <3>2. c # Idle /\ c.at = "dog" /\ c.dog = d
      BY DEF NewCall, Idle
    <3>3. InfoRequest(s) \in Request /\ InfoRequest(s).slot = s
      BY DEF InfoRequest, Request, RequestRecord, RequestOK, MiningType, None
    <3> HIDE DEF c
    <3> QED
      BY <1>0, <2>1, <3>1, <3>2, <3>3, QueueSend DEF c
  <2>2. CASE Calc(s)
    BY <1>0, <2>1, <2>2 DEF Calc, NotAwaiting, ActiveDogs, MainTypeOK, PartialMap
  <2>3. CASE CalcReply(s)
    <3>1. calls[s] \in Call /\ NotAwaiting(s)
      BY <1>0, <2>3 DEF CalcReply, Suspended, NetTypeOK, NotAwaiting
    <3>2. CASE calls[s].todo = {}
      BY <1>0, <2>3, <3>1, <3>2, QueueOther DEF CalcReply, End
    <3>3. CASE calls[s].todo # {}
      BY <2>1, <2>3, <3>1, <3>3 DEF CalcReply, Call, CallRecord
    <3> QED
      BY <3>2, <3>3
  <2> QED
    BY <1>3, <2>2, <2>3
<1>4. ASSUME NEW d \in Dogs, DogStep(d) PROVE QueueInv'
  <2>1. CASE DogHandles(d) \/ RejectRequest(d)
    BY <1>0, <2>1, QueueReply DEF DogHandles, DogMiningTypeUpdate, DogLevelUpgrade, DogInfo,
       RejectRequest
  <2>2. CASE Tick(d) \/ MainUpdateDogState(d) \/ RejectReport(d)
    BY <2>2, SameQueue DEF Tick, MainUpdateDogState, RejectReport
  <2>3. ASSUME NEW st \in MiningState, ReportAcknowledged(d, st) PROVE QueueInv'
    BY <2>3, SameQueue DEF ReportAcknowledged
  <2>4. ASSUME NEW band \in CyclesBand, CyclesChange(d, band) PROVE QueueInv'
    BY <2>4, SameQueue DEF CyclesChange, netVars
  <2> QED
    BY <1>4, <2>1, <2>2, <2>3, <2>4 DEF DogStep
<1>5. ASSUME UNCHANGED vars PROVE QueueInv'
  BY <1>5, SameQueue DEF vars, netVars
<1> QED
  BY <1>1, <1>2, <1>3, <1>4, <1>5 DEF Next

LEMMA NextTypeOK == TypeOK /\ QueueInv /\ [Next]_vars => TypeOK'
<1> SUFFICES ASSUME TypeOK, QueueInv, [Next]_vars PROVE TypeOK'
    OBVIOUS
<1>1. ASSUME UNCHANGED vars PROVE TypeOK'
  BY <1>1, SameMainType, SameDogType
  DEF vars, netVars, TypeOK, NetTypeOK, HistoryTypeOK
<1> QED
  BY <1>1, UserStepTypeOK, CalcStepTypeOK, DogStepTypeOK DEF Next

LEMMA InitQueueInv == Init => QueueInv
<1> SUFFICES ASSUME Init PROVE QueueInv
    OBVIOUS
<1>1. \A d \in Dogs : toDog[d] = << >>
  BY DEF Init
<1>2. 1 .. Len(<< >>) = {}
  OBVIOUS
<1> QED
  BY <1>1, <1>2 DEF QueueInv

\* Mining keeps its variables in their types, and a reply always finds the
\* call that waits for it, for every interleaving of calls and replies.
THEOREM TypeCorrect == Spec => [](TypeOK /\ QueueInv)
<1>1. Init => TypeOK /\ QueueInv
  BY InitTypeOK, InitQueueInv
<1>2. TypeOK /\ QueueInv /\ [Next]_vars => (TypeOK /\ QueueInv)'
  BY NextTypeOK, NextQueueInv
<1> QED
  BY <1>1, <1>2, PTL DEF Spec

-----------------------------------------------------------------------------
(* The registry.                                                           *)

AboutDog == {"join_alliance", "leave_alliance", "dog_level_upgrade", "calc"}

\* The segments that neither register a dog nor create an alliance.
LEMMA RegistrySegment ==
    ASSUME MainTypeOK, RegistryConsistent, installed' = installed, NEW d, NEW p, NEW level,
           \/ JoinPool(d, p) /\ d \in DOMAIN dogsMap
           \/ LeavePool(d, p)
           \/ MarkStopped(d)
           \/ MarkActive(d)
           \/ SetLevel(d, level)
           \/ UNCHANGED mainVars
    PROVE  RegistryConsistent' /\ DOMAIN dogsMap' = DOMAIN dogsMap
<1>1. /\ UNCHANGED <<minersMap, minersPools, poolCounter>>
      /\ DOMAIN dogsMap' = DOMAIN dogsMap
      /\ \A e \in DOMAIN dogsMap : dogsMap'[e].owner = dogsMap[e].owner
  <2>1. CASE JoinPool(d, p) \/ LeavePool(d, p)
    BY <2>1 DEF JoinPool, LeavePool, SetMembers, SetAlliance, MainTypeOK, PartialMap, DogEntry
  <2>2. CASE MarkStopped(d) \/ MarkActive(d) \/ SetLevel(d, level)
    BY <2>2 DEF MarkStopped, MarkActive, SetLevel, MainTypeOK, PartialMap, DogEntry
  <2>3. CASE UNCHANGED mainVars
    BY <2>3 DEF mainVars
  <2> QED
    BY <2>1, <2>2, <2>3
<1>2. /\ DOMAIN pools' = DOMAIN pools
      /\ \A q \in DOMAIN pools : /\ pools'[q].owner = pools[q].owner
                                /\ pools'[q].dogs \subseteq DOMAIN dogsMap
  <2>1. CASE JoinPool(d, p) /\ d \in DOMAIN dogsMap
    BY <2>1 DEF JoinPool, SetMembers, SetAlliance, MainTypeOK, PartialMap, PoolInfo,
                RegistryConsistent
  <2>2. CASE LeavePool(d, p)
    BY <2>2 DEF LeavePool, SetMembers, SetAlliance, MainTypeOK, PartialMap, PoolInfo,
                RegistryConsistent
  <2>3. CASE MarkStopped(d)
    BY <2>3 DEF MarkStopped, MainTypeOK, PartialMap, PoolInfo, RegistryConsistent
  <2>4. CASE MarkActive(d) \/ SetLevel(d, level)
    BY <2>4 DEF MarkActive, SetLevel, RegistryConsistent
  <2>5. CASE UNCHANGED mainVars
    BY <2>5 DEF mainVars, RegistryConsistent
  <2> QED
    BY <2>1, <2>2, <2>3, <2>4, <2>5
<1> QED
  BY <1>1, <1>2 DEF RegistryConsistent

LEMMA RegistryRegister ==
    ASSUME MainTypeOK, RegistryConsistent, installed' = installed, NEW d \in installed,
           d \notin DOMAIN dogsMap, NEW m \in Miners, RegisterDog(d, m)
    PROVE  RegistryConsistent' /\ DOMAIN dogsMap' = DOMAIN dogsMap \cup {d}
BY DEF RegisterDog, Insert, MainTypeOK, PartialMap, PoolInfo, DogEntry, RegistryConsistent

LEMMA RegistryAlliance ==
    ASSUME MainTypeOK, RegistryConsistent, installed' = installed,
           NEW m \in Miners, AddAlliance(m)
    PROVE  RegistryConsistent' /\ DOMAIN dogsMap' = DOMAIN dogsMap
<1>1. DOMAIN pools' = DOMAIN pools \cup {poolCounter + 1}
  BY DEF AddAlliance, Insert
<1>2. DOMAIN pools' = 1 .. poolCounter'
  <2>1. poolCounter \in Nat
    BY MaxPoolsAssumption DEF MainTypeOK
  <2>2. \A n \in Nat : (1 .. n) \cup {n + 1} = 1 .. (n + 1)
    OBVIOUS
  <2> QED
    BY <1>1, <2>1, <2>2 DEF AddAlliance, RegistryConsistent
<1> QED
  BY <1>1, <1>2
  DEF AddAlliance, Insert, MainTypeOK, PartialMap, PoolInfo, RegistryConsistent

\* A change of one call that registers nothing.
LEMMA CreationOther ==
    ASSUME NetTypeOK, CreationInv, installed' = installed, DOMAIN dogsMap' = DOMAIN dogsMap,
           NEW s \in AllSlots, NEW c, calls' = [calls EXCEPT ![s] = c],
           c = Idle \/ /\ ~(c.op = "create_dog" /\ c.at = "install")
                       /\ c.op \in AboutDog => c.dog \in DOMAIN dogsMap
                       /\ c.todo \subseteq DOMAIN dogsMap
    PROVE  CreationInv'
<1>1. calls'[s] = c /\ \A t \in AllSlots \ {s} : calls'[t] = calls[t]
  BY DEF NetTypeOK
<1> QED
  BY <1>1 DEF CreationInv, Suspended, AboutDog

LEMMA CreationSame ==
    CreationInv /\ UNCHANGED <<installed, calls>> /\ DOMAIN dogsMap' = DOMAIN dogsMap
        => CreationInv'
BY DEF CreationInv, Suspended

LEMMA NextRegistry ==
    TypeOK /\ QueueInv /\ RegistryConsistent /\ CreationInv /\ [Next]_vars
        => RegistryConsistent' /\ CreationInv'
<1> SUFFICES ASSUME TypeOK, QueueInv, RegistryConsistent, CreationInv, [Next]_vars
             PROVE  RegistryConsistent' /\ CreationInv'
    OBVIOUS
<1>0. NetTypeOK /\ MainTypeOK
  BY DEF TypeOK
<1>1. \A s \in AllSlots : calls[s] # Idle =>
        /\ calls[s] \in Call
        /\ calls[s].op \in AboutDog => calls[s].dog \in DOMAIN dogsMap
        /\ calls[s].todo \subseteq DOMAIN dogsMap
  BY <1>0 DEF NetTypeOK, CreationInv, AboutDog
<1>2. Owned \subseteq DOMAIN dogsMap
  BY DEF Owned, RegistryConsistent
<1>3. ASSUME NEW s \in Slots, UserCall(s) PROVE RegistryConsistent' /\ CreationInv'
  <2>1. ASSUME NEW c, Begin(s, c), ~(c.op = "create_dog" /\ c.at = "install"),
               c.op \in AboutDog => c.dog \in DOMAIN dogsMap, c.todo = {},
               UNCHANGED <<mainVars, installed>>
        PROVE  RegistryConsistent' /\ CreationInv'
    BY <1>0, <2>1, RegistrySegment, CreationOther DEF Begin
  <2>2. ASSUME NEW m \in Miners, CreateDog(s, m) PROVE RegistryConsistent' /\ CreationInv'
    BY <2>1, <2>2 DEF CreateDog, NewCall, AboutDog
  <2>3. ASSUME NEW m \in Miners, CreateAlliance(s, m)
        PROVE  RegistryConsistent' /\ CreationInv'
    BY <2>1, <2>3 DEF CreateAlliance, NewCall, AboutDog
  <2>4. ASSUME NEW d \in Dogs, UpgradeDog(s, d) PROVE RegistryConsistent' /\ CreationInv'
    BY <2>1, <2>4 DEF UpgradeDog, NewCall
  <2>5. ASSUME NEW d \in Dogs, NEW p \in PoolIds, JoinAlliance(s, d, p)
        PROVE  RegistryConsistent' /\ CreationInv'
    BY <1>2, <2>1, <2>5 DEF JoinAlliance, NewCall
  <2>6. ASSUME NEW d \in Dogs, NEW p \in PoolIds, LeaveAlliance(s, d, p)
        PROVE  RegistryConsistent' /\ CreationInv'
    BY <1>2, <2>1, <2>6 DEF LeaveAlliance, NewCall
  <2> QED
    BY <1>3, <2>2, <2>3, <2>4, <2>5, <2>6 DEF UserCall
<1>4. ASSUME NEW s \in Slots, Resume(s) PROVE RegistryConsistent' /\ CreationInv'
  <2>1. CASE FeeRefused(s)
    BY <1>0, <2>1, RegistrySegment, CreationOther DEF FeeRefused, End
  <2>2. CASE InstallDog(s)
    <3>1. PICK d \in Dogs \ installed :
            /\ installed' = installed \cup {d}
            /\ calls' = [calls EXCEPT ![s].at = "install", ![s].dog = d]
      BY <2>2 DEF InstallDog
    <3>2. /\ UNCHANGED mainVars
          /\ calls[s] # Idle /\ calls[s] \in Call
          /\ calls[s].op = "create_dog"
      BY <1>1, <2>2 DEF InstallDog, Suspended
    <3>3. RegistryConsistent'
      BY <3>1, <3>2 DEF RegistryConsistent, mainVars
    <3>4. /\ calls'[s].op = "create_dog" /\ calls'[s].dog = d
          /\ \A t \in AllSlots \ {s} : calls'[t] = calls[t]
      BY <1>0, <3>1, <3>2 DEF NetTypeOK, Call, CallRecord
    <3>5. d \notin DOMAIN dogsMap
      BY DEF RegistryConsistent
    <3>6. CreationInv'
      <4>1. /\ calls'[s].todo = calls[s].todo
            /\ calls'[s].dog \in installed' \ DOMAIN dogsMap'
            /\ DOMAIN dogsMap' = DOMAIN dogsMap
        BY <1>0, <3>1, <3>2, <3>4, <3>5 DEF NetTypeOK, Call, CallRecord, mainVars
      <4>2. \A t \in AllSlots \ {s} : Suspended(t, "create_dog", "install") =>
                calls[t].dog # d
        BY DEF CreationInv
      <4>3. \A t \in AllSlots : calls'[t] # Idle /\ calls'[t].op = "create_dog"
                                /\ calls'[t].at = "install" =>
                calls'[t].dog \in installed' \ DOMAIN dogsMap'
        <5>1. \A t \in AllSlots \ {s} : calls[t] # Idle /\ calls[t].op = "create_dog"
                                       /\ calls[t].at = "install" =>
                calls[t].dog \in installed' \ DOMAIN dogsMap'
          BY <3>1, <4>1 DEF CreationInv, Suspended
        <5> QED
          BY <3>4, <4>1, <5>1
      <4>4. \A t, u \in AllSlots :
                /\ calls'[t] # Idle /\ calls'[t].op = "create_dog" /\ calls'[t].at = "install"
                /\ calls'[u] # Idle /\ calls'[u].op = "create_dog" /\ calls'[u].at = "install"
                /\ calls'[t].dog = calls'[u].dog
                => t = u
        BY <3>4, <4>2 DEF CreationInv, Suspended
      <4>5. \A t \in AllSlots : calls'[t] # Idle =>
                /\ calls'[t].op \in AboutDog => calls'[t].dog \in DOMAIN dogsMap'
                /\ calls'[t].todo \subseteq DOMAIN dogsMap'
        BY <1>1, <3>2, <3>4, <4>1 DEF AboutDog
      <4> QED
        BY <4>3, <4>4, <4>5 DEF CreationInv, Suspended, AboutDog
    <3> QED
      BY <3>3, <3>6
  <2>3. CASE CreateDogReply(s)
    <3> DEFINE d == calls[s].dog
    <3>1. /\ d \in installed /\ d \notin DOMAIN dogsMap
          /\ calls[s].miner \in Miners
          /\ Suspended(s, "create_dog", "install")
      BY <1>1, <2>3 DEF CreateDogReply, CreationInv, Suspended, Call, CallRecord, CallOK
    <3>2. RegistryConsistent' /\ DOMAIN dogsMap' = DOMAIN dogsMap \cup {d}
      BY <1>0, <2>3, <3>1, RegistryRegister DEF CreateDogReply
    <3>3. calls'[s] = Idle /\ \A t \in AllSlots \ {s} : calls'[t] = calls[t]
      BY <1>0, <2>3 DEF CreateDogReply, End, NetTypeOK
    <3>4. installed' = installed
      BY <2>3 DEF CreateDogReply
    <3>5. CreationInv'
      BY <3>1, <3>2, <3>3, <3>4 DEF CreationInv, Suspended
    <3> QED
      BY <3>2, <3>5
  <2>4. CASE CreateAlliancePaid(s)
    <3>1. calls[s].miner \in Miners
      BY <1>1, <2>4 DEF CreateAlliancePaid, Suspended, Call, CallRecord, CallOK
    <3> QED
      BY <1>0, <2>4, <3>1, RegistryAlliance, CreationOther DEF CreateAlliancePaid, End
  <2>5. CASE JoinAlliancePaid(s) \/ UpgradePaid(s)
    <3> DEFINE c == [calls[s] EXCEPT !.at = "dog"]
    <3>1. /\ calls[s] \in Call
          /\ calls[s].op \in AboutDog
          /\ calls[s].dog \in DOMAIN dogsMap
          /\ calls[s].todo \subseteq DOMAIN dogsMap
      BY <1>1, <2>5 DEF JoinAlliancePaid, UpgradePaid, Suspended, AboutDog
    <3>2. c.op \in AboutDog /\ c.dog \in DOMAIN dogsMap /\ c.todo \subseteq DOMAIN dogsMap
      BY <3>1 DEF Call, CallRecord
    <3>3. calls' = [calls EXCEPT ![s] = c] /\ UNCHANGED <<mainVars, installed>>
      BY <1>0, <2>5 DEF JoinAlliancePaid, UpgradePaid, NetTypeOK
    <3> QED
      BY <1>0, <3>2, <3>3, RegistrySegment, CreationOther DEF AboutDog
  <2>6. CASE JoinAllianceReply(s) \/ LeaveAllianceReply(s) \/ UpgradeReply(s)
    <3>1. calls[s].dog \in DOMAIN dogsMap
      BY <1>1, <2>6 DEF JoinAllianceReply, LeaveAllianceReply, UpgradeReply, Suspended, AboutDog
    <3>2. /\ \/ JoinPool(calls[s].dog, calls[s].arg)
             \/ LeavePool(calls[s].dog, calls[s].arg)
             \/ SetLevel(calls[s].dog, calls[s].arg)
             \/ UNCHANGED mainVars
          /\ calls' = [calls EXCEPT ![s] = Idle]
          /\ installed' = installed
      BY <2>6 DEF JoinAllianceReply, LeaveAllianceReply, UpgradeReply, End
    <3> QED
      BY <1>0, <3>1, <3>2, RegistrySegment, CreationOther
  <2> QED
    BY <1>4, <2>1, <2>2, <2>3, <2>4, <2>5, <2>6 DEF Resume
<1>5. ASSUME NEW s \in CalcSlots, Calc(s) \/ CalcReply(s)
      PROVE  RegistryConsistent' /\ CreationInv'
  <2>1. ASSUME NEW todo \in SUBSET DOMAIN dogsMap, AskNext(s, todo),
               DOMAIN dogsMap' = DOMAIN dogsMap, installed' = installed
        PROVE  CreationInv'
    <3>1. PICK d \in todo :
            calls' = [calls EXCEPT ![s] = [NewCall("calc") EXCEPT
                            !.at = "dog", !.dog = d, !.todo = todo \ {d}]]
      BY <2>1 DEF AskNext
    <3> DEFINE c == [NewCall("calc") EXCEPT !.at = "dog", !.dog = d, !.todo = todo \ {d}]
    <3>2. c.op = "calc" /\ c.dog = d /\ c.todo = todo \ {d}
      BY DEF NewCall
    <3> HIDE DEF c
    <3> QED
      BY <1>0, <2>1, <3>1, <3>2, CreationOther DEF c
  <2>2. CASE Calc(s)
    <3>1. ActiveDogs \subseteq DOMAIN dogsMap
      BY DEF ActiveDogs
    <3>2. RegistryConsistent' /\ DOMAIN dogsMap' = DOMAIN dogsMap
      BY <1>0, <2>2, RegistrySegment DEF Calc
    <3> QED
      BY <2>1, <2>2, <3>1, <3>2 DEF Calc
  <2>3. CASE CalcReply(s)
    <3>1. RegistryConsistent' /\ DOMAIN dogsMap' = DOMAIN dogsMap /\ installed' = installed
      BY <1>0, <2>3, RegistrySegment DEF CalcReply
    <3>2. CASE calls[s].todo = {}
      BY <1>0, <2>3, <3>1, <3>2, CreationOther DEF CalcReply, End
    <3>3. CASE calls[s].todo # {}
      <4>1. calls[s].todo \subseteq DOMAIN dogsMap
        BY <1>1, <2>3 DEF CalcReply, Suspended
      <4> QED
        BY <2>1, <2>3, <3>1, <3>3, <4>1 DEF CalcReply
    <3> QED
      BY <3>1, <3>2, <3>3
  <2> QED
    BY <1>5, <2>2, <2>3
<1>6. ASSUME NEW d \in Dogs, DogStep(d) PROVE RegistryConsistent' /\ CreationInv'
  <2>1. CASE MainUpdateDogState(d)
    BY <1>0, <2>1, RegistrySegment, CreationSame DEF MainUpdateDogState, UpdateDogState
  <2>2. ASSUME NEW a, toDog[d] # << >>, Reply(d, a), UNCHANGED <<mainVars, installed>>
        PROVE  RegistryConsistent' /\ CreationInv'
    <3> DEFINE t == Head(toDog[d]).slot
               c == [calls[t] EXCEPT !.at = "replied", !.reply = a]
    <3>1. t \in AllSlots /\ calls[t] \in Call /\ calls[t] # Idle
      BY <1>0, <2>2, HeadOfQueue
    <3>2. calls' = [calls EXCEPT ![t] = c]
      BY <1>0, <2>2, <3>1 DEF Reply, NetTypeOK
    <3>3. c.op = calls[t].op /\ c.at = "replied" /\ c.dog = calls[t].dog
          /\ c.todo = calls[t].todo
      BY <3>1 DEF Call, CallRecord
    <3> HIDE DEF c, t
    <3> QED
      BY <1>0, <1>1, <2>2, <3>1, <3>2, <3>3, RegistrySegment, CreationOther
  <2>3. CASE DogHandles(d) \/ RejectRequest(d)
    BY <2>2, <2>3 DEF DogHandles, DogMiningTypeUpdate, DogLevelUpgrade, DogInfo, RejectRequest
  <2>4. CASE Tick(d) \/ RejectReport(d)
    BY <1>0, <2>4, RegistrySegment, CreationSame DEF Tick, RejectReport
  <2>5. ASSUME NEW st \in MiningState, ReportAcknowledged(d, st)
        PROVE  RegistryConsistent' /\ CreationInv'
    BY <1>0, <2>5, RegistrySegment, CreationSame DEF ReportAcknowledged
  <2>6. ASSUME NEW band \in CyclesBand, CyclesChange(d, band)
        PROVE  RegistryConsistent' /\ CreationInv'
    BY <1>0, <2>6, RegistrySegment, CreationSame DEF CyclesChange, netVars
  <2> QED
    BY <1>6, <2>1, <2>3, <2>4, <2>5, <2>6 DEF DogStep
<1>7. ASSUME UNCHANGED vars PROVE RegistryConsistent' /\ CreationInv'
  BY <1>0, <1>7, RegistrySegment, CreationSame DEF vars, netVars
<1> QED
  BY <1>3, <1>4, <1>5, <1>6, <1>7 DEF Next

LEMMA InitRegistry == Init => RegistryConsistent /\ CreationInv
BY DEF Init, MainInit, EmptyMap, RegistryConsistent, CreationInv, Suspended

Inductive == TypeOK /\ QueueInv /\ RegistryConsistent /\ CreationInv

\* The registry stays consistent through every interleaving: no lookup that
\* the main canister unwraps can dangle.
THEOREM RegistrySafe == Spec => []Inductive
<1>1. Init => Inductive
  BY InitTypeOK, InitQueueInv, InitRegistry DEF Inductive
<1>2. Inductive /\ [Next]_vars => Inductive'
  BY NextTypeOK, NextQueueInv, NextRegistry DEF Inductive
<1> QED
  BY <1>1, <1>2, PTL DEF Spec

-----------------------------------------------------------------------------
(* What a step may do to the maps of the main canister, and to a dog.      *)

MainStep ==
    \/ UNCHANGED mainVars
    \/ \E d \in Dogs, m \in Miners : RegisterDog(d, m) /\ d \notin DOMAIN dogsMap
    \/ \E m \in Miners : AddAlliance(m)
    \/ \E d \in Dogs, p \in PoolIds : JoinPool(d, p) \/ LeavePool(d, p)
    \/ \E d \in Dogs : MarkStopped(d) \/ MarkActive(d)
    \/ \E d \in Dogs, l \in DogLevel : SetLevel(d, l)

LEMMA StepOfMain == Inductive /\ [Next]_vars => MainStep
<1> SUFFICES ASSUME Inductive, [Next]_vars PROVE MainStep
    OBVIOUS
<1>1. \A s \in AllSlots : calls[s] # Idle => calls[s] \in Call
  BY DEF Inductive, TypeOK, NetTypeOK
<1>2. ASSUME NEW s \in Slots, UserCall(s) PROVE MainStep
  BY <1>2 DEF UserCall, CreateDog, CreateAlliance, UpgradeDog, JoinAlliance, LeaveAlliance, MainStep
<1>3. ASSUME NEW s \in Slots, Resume(s) PROVE MainStep
  <2>1. CASE CreateDogReply(s)
    <3>1. calls[s].dog \in Dogs /\ calls[s].miner \in Miners /\ calls[s].dog \notin DOMAIN dogsMap
      BY <1>1, <2>1 DEF CreateDogReply, Suspended, Call, CallRecord, CallOK, Inductive, CreationInv
    <3> QED
      BY <2>1, <3>1 DEF CreateDogReply, MainStep
  <2>2. CASE CreateAlliancePaid(s)
    <3>1. calls[s].miner \in Miners
      BY <1>1, <2>2 DEF CreateAlliancePaid, Suspended, Call, CallRecord, CallOK
    <3> QED
      BY <2>2, <3>1 DEF CreateAlliancePaid, MainStep
  <2>3. CASE JoinAllianceReply(s) \/ LeaveAllianceReply(s)
    <3>1. calls[s].dog \in Dogs /\ calls[s].arg \in PoolIds
      BY <1>1, <2>3 DEF JoinAllianceReply, LeaveAllianceReply, Suspended, Call, CallRecord, CallOK
    <3> QED
      BY <2>3, <3>1 DEF JoinAllianceReply, LeaveAllianceReply, MainStep
  <2>4. CASE UpgradeReply(s)
    <3>1. calls[s].dog \in Dogs /\ calls[s].arg \in DogLevel
      BY <1>1, <2>4 DEF UpgradeReply, Suspended, Call, CallRecord, CallOK, DogLevel, CopperDog,
                        SilverDog, DiamondDog
    <3> QED
      BY <2>4, <3>1 DEF UpgradeReply, MainStep
  <2>5. CASE FeeRefused(s) \/ InstallDog(s) \/ JoinAlliancePaid(s) \/ UpgradePaid(s)
    BY <2>5 DEF FeeRefused, InstallDog, JoinAlliancePaid, UpgradePaid, MainStep
  <2> QED
    BY <1>3, <2>1, <2>2, <2>3, <2>4, <2>5 DEF Resume
<1>4. ASSUME NEW s \in CalcSlots, Calc(s) \/ CalcReply(s) PROVE MainStep
  <2>1. CASE Calc(s)
    BY <2>1 DEF Calc, MainStep
  <2>2. CASE CalcReply(s)
    <3>1. calls[s].dog \in Dogs
      BY <1>1, <2>2 DEF CalcReply, Suspended, Call, CallRecord, CallOK
    <3> QED
      BY <2>2, <3>1 DEF CalcReply, MainStep
  <2> QED
    BY <1>4, <2>1, <2>2
<1>5. ASSUME NEW d \in Dogs, DogStep(d) PROVE MainStep
  <2>1. CASE MainUpdateDogState(d)
    BY <2>1 DEF MainUpdateDogState, UpdateDogState, MainStep
  <2>2. CASE DogHandles(d) \/ RejectRequest(d) \/ Tick(d) \/ RejectReport(d)
    BY <2>2 DEF DogHandles, DogMiningTypeUpdate, DogLevelUpgrade, DogInfo, RejectRequest, Tick,
                RejectReport, MainStep
  <2>3. CASE (\E st \in MiningState : ReportAcknowledged(d, st))
             \/ \E band \in CyclesBand : CyclesChange(d, band)
    BY <2>3 DEF ReportAcknowledged, CyclesChange, MainStep
  <2> QED
    BY <1>5, <2>1, <2>2, <2>3 DEF DogStep
<1>6. ASSUME UNCHANGED vars PROVE MainStep
  BY <1>6 DEF vars, MainStep
<1> QED
  BY <1>2, <1>3, <1>4, <1>5, <1>6 DEF Next

\* The handlers of a dog, as far as its mode is concerned.
HandledBy(c, d) ==
    \/ c = NewDog
    \/ \E t \in MiningType, a \in PoolIds \cup {None} :
            TypeUpdateAllowed(dog[d], t, a) /\ c = TypeUpdate(dog[d], t, a)
    \/ \E l \in DogLevel : c = LevelUpgrade(dog[d], l)
    \/ c = StartTimer(dog[d])
    \/ c = StopTimer(dog[d])
    \/ \E b \in CyclesBand : c = [dog[d] EXCEPT !.cycles = b]

ModeStep ==
    \/ dog' = dog
    \/ \E d \in Dogs, c \in DogContext : dog' = [dog EXCEPT ![d] = c] /\ HandledBy(c, d)

LEMMA StepOfDogs == Inductive /\ [Next]_vars => ModeStep
<1> SUFFICES ASSUME Inductive, [Next]_vars PROVE ModeStep
    OBVIOUS
<1>0. /\ NetTypeOK /\ QueueInv
      /\ \A d \in Dogs : dog[d] \in DogContext
  BY DEF Inductive, TypeOK, DogTypeOK
<1>1. ASSUME NEW s \in Slots, UserCall(s) PROVE ModeStep
  BY <1>1 DEF UserCall, CreateDog, CreateAlliance, UpgradeDog, JoinAlliance, LeaveAlliance, ModeStep
<1>2. ASSUME NEW s \in Slots, Resume(s) PROVE ModeStep
  <2>1. CASE InstallDog(s)
    <3>1. NewDog \in DogContext
      BY DEF NewDog, DogContext, CyclesBand, MiningState, MiningType, DogLevel, CopperDog, DiamondDog
    <3> QED
      BY <2>1, <3>1 DEF InstallDog, ModeStep, HandledBy
  <2>2. CASE ~InstallDog(s)
    BY <1>2, <2>2 DEF Resume, FeeRefused, CreateDogReply, CreateAlliancePaid, JoinAlliancePaid,
       JoinAllianceReply, LeaveAllianceReply, UpgradePaid, UpgradeReply, ModeStep
  <2> QED
    BY <2>1, <2>2
<1>3. ASSUME NEW s \in CalcSlots, Calc(s) \/ CalcReply(s) PROVE ModeStep
  BY <1>3 DEF Calc, CalcReply, ModeStep
<1>4. ASSUME NEW d \in Dogs, DogStep(d) PROVE ModeStep
  <2>1. CASE DogMiningTypeUpdate(d)
    <3> DEFINE r == Head(toDog[d])
    <3>1. r \in Request /\ r.op = "dog_mining_type_update"
      BY <1>0, <2>1, HeadOfQueue DEF DogMiningTypeUpdate
    <3>2. r.type \in MiningType /\ r.arg \in PoolIds \cup {None}
      BY <3>1 DEF Request, RequestRecord, RequestOK
    <3>3. TypeUpdate(dog[d], r.type, r.arg) \in DogContext
      BY <1>0, <3>2, DogContextType
    <3> QED
      BY <2>1, <3>2, <3>3 DEF DogMiningTypeUpdate, ModeStep, HandledBy
  <2>2. CASE DogLevelUpgrade(d)
    <3> DEFINE r == Head(toDog[d])
    <3>1. r \in Request /\ r.op = "dog_level_upgrade"
      BY <1>0, <2>2, HeadOfQueue DEF DogLevelUpgrade
    <3>2. r.arg \in DogLevel
      BY <3>1 DEF Request, RequestRecord, RequestOK, DogLevel, CopperDog, SilverDog, DiamondDog
    <3>3. LevelUpgrade(dog[d], r.arg) \in DogContext
      BY <1>0, <3>2, DogContextType
    <3> QED
      BY <2>2, <3>2, <3>3 DEF DogLevelUpgrade, ModeStep, HandledBy
  <2>3. CASE DogInfo(d) \/ RejectRequest(d) \/ Tick(d) \/ MainUpdateDogState(d) \/ RejectReport(d)
    BY <2>3 DEF DogInfo, RejectRequest, Tick, MainUpdateDogState, RejectReport, ModeStep
  <2>4. ASSUME NEW st \in MiningState, ReportAcknowledged(d, st) PROVE ModeStep
    BY <1>0, <2>4, DogContextType DEF ReportAcknowledged, ApplyReport, ModeStep, HandledBy
  <2>5. ASSUME NEW b \in CyclesBand, CyclesChange(d, b) PROVE ModeStep
    BY <1>0, <2>5, DogContextType DEF CyclesChange, ModeStep, HandledBy
  <2> QED
    BY <1>4, <2>1, <2>2, <2>3, <2>4, <2>5 DEF DogStep, DogHandles
<1>5. ASSUME UNCHANGED vars PROVE ModeStep
  BY <1>5 DEF vars, ModeStep
<1> QED
  BY <1>1, <1>2, <1>3, <1>4, <1>5 DEF Next

-----------------------------------------------------------------------------
(* Membership and mode.                                                    *)

LEMMA ListedStep ==
    ASSUME MainTypeOK, RegistryConsistent, AllianceListed, MainStep
    PROVE  AllianceListed'
<1>1. CASE UNCHANGED mainVars
  BY <1>1 DEF mainVars, AllianceListed
<1>2. ASSUME NEW d \in Dogs, NEW m \in Miners, RegisterDog(d, m) PROVE AllianceListed'
  BY <1>2 DEF RegisterDog, Insert, AllianceListed
<1>3. ASSUME NEW m \in Miners, AddAlliance(m) PROVE AllianceListed'
  <2>1. poolCounter + 1 \notin DOMAIN pools
    BY MaxPoolsAssumption DEF RegistryConsistent, MainTypeOK
  <2>2. \A p \in DOMAIN pools : p \in DOMAIN pools' /\ pools'[p] = pools[p]
    BY <1>3, <2>1 DEF AddAlliance, Insert
  <2> QED
    BY <1>3, <2>2 DEF AddAlliance, AllianceListed
<1>4. ASSUME NEW d \in Dogs, NEW p \in PoolIds, JoinPool(d, p) PROVE AllianceListed'
  BY <1>4 DEF JoinPool, SetMembers, SetAlliance, AllianceListed, MainTypeOK, PartialMap,
              PoolInfo, DogEntry
<1>5. ASSUME NEW d \in Dogs, NEW p \in PoolIds, LeavePool(d, p) PROVE AllianceListed'
  <2>1. CASE p \notin DOMAIN pools
    BY <1>5, <2>1 DEF LeavePool, AllianceListed
  <2>2. CASE p \in DOMAIN pools
    <3>1. DOMAIN pools' = DOMAIN pools /\ DOMAIN dogsMap' = DOMAIN dogsMap
      BY <1>5, <2>2 DEF LeavePool, SetMembers, SetAlliance
    <3>2. ASSUME NEW e \in DOMAIN dogsMap, dogsMap'[e].alliance # None
          PROVE  e # d /\ dogsMap'[e] = dogsMap[e]
      BY <1>5, <2>2, <3>2 DEF LeavePool, SetAlliance, MainTypeOK, PartialMap, DogEntry
    <3>3. \A q \in DOMAIN pools : \A e : e # d /\ e \in pools[q].dogs => e \in pools'[q].dogs
      BY <1>5, <2>2 DEF LeavePool, SetMembers, MainTypeOK, PartialMap, PoolInfo
    <3> QED
      BY <3>1, <3>2, <3>3 DEF AllianceListed
  <2> QED
    BY <2>1, <2>2
<1>6. ASSUME NEW d \in Dogs, MarkStopped(d) PROVE AllianceListed'
  <2>1. CASE d \notin DOMAIN dogsMap
    BY <1>6, <2>1 DEF MarkStopped, AllianceListed
  <2>2. CASE d \in DOMAIN dogsMap
    <3>1. DOMAIN pools' = DOMAIN pools /\ DOMAIN dogsMap' = DOMAIN dogsMap
      BY <1>6, <2>2 DEF MarkStopped
    <3>2. ASSUME NEW e \in DOMAIN dogsMap, dogsMap'[e].alliance # None
          PROVE  e # d /\ dogsMap'[e] = dogsMap[e]
      BY <1>6, <2>2, <3>2 DEF MarkStopped, MainTypeOK, PartialMap, DogEntry
    <3>3. \A q \in DOMAIN pools : \A e : e # d /\ e \in pools[q].dogs => e \in pools'[q].dogs
      BY <1>6, <2>2 DEF MarkStopped, MainTypeOK, PartialMap, PoolInfo
    <3> QED
      BY <3>1, <3>2, <3>3 DEF AllianceListed
  <2> QED
    BY <2>1, <2>2
<1>7. ASSUME NEW d \in Dogs, MarkActive(d) PROVE AllianceListed'
  BY <1>7 DEF MarkActive, AllianceListed, MainTypeOK, PartialMap, DogEntry
<1>8. ASSUME NEW d \in Dogs, NEW l \in DogLevel, SetLevel(d, l) PROVE AllianceListed'
  BY <1>8 DEF SetLevel, AllianceListed, MainTypeOK, PartialMap, DogEntry
<1> QED
  BY <1>1, <1>2, <1>3, <1>4, <1>5, <1>6, <1>7, <1>8 DEF MainStep

LEMMA CoherentStep ==
    ASSUME MainTypeOK, DogTypeOK, ModeCoherent, MainStep, ModeStep
    PROVE  ModeCoherent'
<1>1. ASSUME NEW e \in Dogs PROVE (dog[e].type = "POOL" <=> dog[e].alliance # None)'
  <2>1. CASE dog' = dog
    BY <2>1 DEF ModeCoherent
  <2>2. ASSUME NEW d \in Dogs, NEW c \in DogContext, dog' = [dog EXCEPT ![d] = c], HandledBy(c, d)
        PROVE  (dog[e].type = "POOL" <=> dog[e].alliance # None)'
    <3>1. /\ dog[d] \in DogContext
          /\ dog[d].type = "POOL" <=> dog[d].alliance # None
      BY DEF DogTypeOK, ModeCoherent
    <3>2. ASSUME c = NewDog
          PROVE  c.type = "POOL" <=> c.alliance # None
      BY <3>2 DEF NewDog
    <3>3. ASSUME NEW t \in MiningType, NEW a \in PoolIds \cup {None},
                 TypeUpdateAllowed(dog[d], t, a), c = TypeUpdate(dog[d], t, a)
          PROVE  c.type = "POOL" <=> c.alliance # None
      <4>1. c.type = t /\ c.alliance = IF t = "ALONE" THEN None ELSE a
        BY <3>1, <3>3 DEF TypeUpdate, DogContext
      <4> QED
        BY <3>3, <4>1 DEF TypeUpdateAllowed, MiningType
    <3>4. ASSUME NEW l \in DogLevel, c = LevelUpgrade(dog[d], l)
          PROVE  c.type = "POOL" <=> c.alliance # None
      BY <3>1, <3>4 DEF LevelUpgrade, DogContext
    <3>5. ASSUME c = StartTimer(dog[d])
          PROVE  c.type = "POOL" <=> c.alliance # None
      BY <3>1, <3>5 DEF StartTimer, DogContext
    <3>6. ASSUME c = StopTimer(dog[d])
          PROVE  c.type = "POOL" <=> c.alliance # None
      BY <3>1, <3>6 DEF StopTimer, DogContext
    <3>7. ASSUME NEW b \in CyclesBand, c = [dog[d] EXCEPT !.cycles = b]
          PROVE  c.type = "POOL" <=> c.alliance # None
      BY <3>1, <3>7 DEF DogContext
    <3>8. c.type = "POOL" <=> c.alliance # None
      BY <2>2, <3>2, <3>3, <3>4, <3>5, <3>6, <3>7 DEF HandledBy
    <3> QED
      BY <2>2, <3>8 DEF ModeCoherent, DogTypeOK
  <2> QED
    BY <2>1, <2>2 DEF ModeStep
<1>2. ASSUME NEW e \in DOMAIN dogsMap'
      PROVE  (dogsMap[e].type = "POOL" <=> dogsMap[e].alliance # None)'
  <2> USE DEF ModeCoherent, MainTypeOK, PartialMap, DogEntry
  <2>1. CASE UNCHANGED mainVars
    BY <1>2, <2>1 DEF mainVars
  <2>2. ASSUME NEW d \in Dogs, NEW m \in Miners, RegisterDog(d, m)
        PROVE  (dogsMap[e].type = "POOL" <=> dogsMap[e].alliance # None)'
    BY <1>2, <2>2 DEF RegisterDog, Insert
  <2>3. CASE \E m \in Miners : AddAlliance(m)
    BY <1>2, <2>3 DEF AddAlliance
  <2>4. ASSUME NEW d \in Dogs, NEW p \in PoolIds, JoinPool(d, p) \/ LeavePool(d, p)
        PROVE  (dogsMap[e].type = "POOL" <=> dogsMap[e].alliance # None)'
    <3>1. p # None
      BY MaxPoolsAssumption DEF PoolIds, None
    <3>2. CASE JoinPool(d, p)
      <4>1. CASE p \notin DOMAIN pools
        BY <1>2, <3>2, <4>1 DEF JoinPool
      <4>2. CASE p \in DOMAIN pools
        BY <1>2, <3>1, <3>2, <4>2 DEF JoinPool, SetAlliance
      <4> QED
        BY <4>1, <4>2
    <3>3. CASE LeavePool(d, p)
      <4>1. CASE p \notin DOMAIN pools
        BY <1>2, <3>3, <4>1 DEF LeavePool
      <4>2. CASE p \in DOMAIN pools
        BY <1>2, <3>3, <4>2 DEF LeavePool, SetAlliance
      <4> QED
        BY <4>1, <4>2
    <3> QED
      BY <2>4, <3>2, <3>3
  <2>5. ASSUME NEW d \in Dogs, NEW l \in DogLevel,
               MarkStopped(d) \/ MarkActive(d) \/ SetLevel(d, l)
        PROVE  (dogsMap[e].type = "POOL" <=> dogsMap[e].alliance # None)'
    BY <1>2, <2>5 DEF MarkStopped, MarkActive, SetLevel
  <2>6. CopperDog \in DogLevel
    BY DEF DogLevel, CopperDog, DiamondDog
  <2> QED
    BY <2>1, <2>2, <2>3, <2>4, <2>5, <2>6 DEF MainStep
<1> QED
  BY <1>1, <1>2 DEF ModeCoherent

LEMMA TimersStep ==
    ASSUME DogTypeOK, ActiveHasTimers, ModeStep
    PROVE  ActiveHasTimers'
<1>1. ASSUME NEW d \in Dogs, NEW c \in DogContext, dog' = [dog EXCEPT ![d] = c], HandledBy(c, d)
      PROVE  ActiveHasTimers'
  <2>1. dog[d] \in DogContext /\ (dog[d].state = "ACTIVITY" => dog[d].timers)
    BY DEF DogTypeOK, ActiveHasTimers
  <2>2. ASSUME c = NewDog
        PROVE  c.state = "ACTIVITY" => c.timers
    BY <2>2 DEF NewDog
  <2>3. ASSUME NEW t \in MiningType, NEW a \in PoolIds \cup {None}, c = TypeUpdate(dog[d], t, a)
        PROVE  c.state = "ACTIVITY" => c.timers
    BY <2>1, <2>3 DEF TypeUpdate, DogContext
  <2>4. ASSUME NEW l \in DogLevel, c = LevelUpgrade(dog[d], l)
        PROVE  c.state = "ACTIVITY" => c.timers
    BY <2>1, <2>4 DEF LevelUpgrade, DogContext
  <2>5. ASSUME c = StartTimer(dog[d]) \/ c = StopTimer(dog[d])
        PROVE  c.state = "ACTIVITY" => c.timers
    BY <2>1, <2>5 DEF StartTimer, StopTimer, DogContext
  <2>6. ASSUME NEW b \in CyclesBand, c = [dog[d] EXCEPT !.cycles = b]
        PROVE  c.state = "ACTIVITY" => c.timers
    BY <2>1, <2>6 DEF DogContext
  <2>7. c.state = "ACTIVITY" => c.timers
    BY <1>1, <2>2, <2>3, <2>4, <2>5, <2>6 DEF HandledBy
  <2> QED
    BY <1>1, <2>7 DEF ActiveHasTimers, DogTypeOK
<1> QED
  BY <1>1 DEF ModeStep, ActiveHasTimers

ModeInv == AllianceListed /\ ModeCoherent /\ ActiveHasTimers

LEMMA InitMode == Init => ModeInv
BY DEF Init, MainInit, EmptyMap, NewDog, ModeInv, AllianceListed, ModeCoherent, ActiveHasTimers

LEMMA ModeSafe == Spec => []ModeInv
<1>1. Init => ModeInv
  BY InitMode
<1>2. Inductive /\ ModeInv /\ [Next]_vars => ModeInv'
  <2> SUFFICES ASSUME Inductive, ModeInv, [Next]_vars PROVE ModeInv'
      OBVIOUS
  <2>1. MainStep /\ ModeStep
    BY StepOfMain, StepOfDogs
  <2> QED
    BY <2>1, ListedStep, CoherentStep, TimersStep DEF Inductive, TypeOK, ModeInv
<1> QED
  BY <1>1, <1>2, RegistrySafe, PTL DEF Spec

\* Every variable keeps its type, whatever calls, replies and rejections
\* interleave (the awaits of bone_main and the ticks of bone_dog).
THEOREM TypesHold == Spec => []TypeOK
<1>1. Inductive => TypeOK
  BY DEF Inductive
<1> QED
  BY <1>1, RegistrySafe, PTL

\* A request on its way to a dog always finds its caller waiting for it: the
\* calls suspended in bone_main and the queues to bone_dog never disagree.
THEOREM QueuesHold == Spec => []QueueInv
<1>1. Inductive => QueueInv
  BY DEF Inductive
<1> QED
  BY <1>1, RegistrySafe, PTL

\* The maps of the registry never dangle: create_dog, create_alliance,
\* join_alliance and calc keep MINERS_MAP, DOGS_MAP and the alliances of
\* bone_main consistent, so the lookups it unwraps succeed.
THEOREM RegistryHolds == Spec => []RegistryConsistent
<1>1. Inductive => RegistryConsistent
  BY DEF Inductive
<1> QED
  BY <1>1, RegistrySafe, PTL

\* The dog that create_dog has installed but not yet registered is never
\* registered, or handed to another call, in between.
THEOREM CreationsHold == Spec => []CreationInv
<1>1. Inductive => CreationInv
  BY DEF Inductive
<1> QED
  BY <1>1, RegistrySafe, PTL

\* A dog whose entry in DOGS_MAP names an alliance is a member of it, however
\* join_alliance, leave_alliance, update_dog_state and calc interleave.
THEOREM AllianceHolds == Spec => []AllianceListed
<1>1. ModeInv => AllianceListed
  BY DEF ModeInv
<1> QED
  BY <1>1, ModeSafe, PTL

\* mining_type and mining_alliance agree with each other in every dog and in
\* every entry of DOGS_MAP.
THEOREM ModeHolds == Spec => []ModeCoherent
<1>1. ModeInv => ModeCoherent
  BY DEF ModeInv
<1> QED
  BY <1>1, ModeSafe, PTL

\* An ACTIVITY dog has its timers set, whatever order start_timer,
\* stop_timer and update_level_time run in.
THEOREM TimersHold == Spec => []ActiveHasTimers
<1>1. ModeInv => ActiveHasTimers
  BY DEF ModeInv
<1> QED
  BY <1>1, ModeSafe, PTL

-----------------------------------------------------------------------------
(***************************************************************************)
(* No dog reaches a level that was not paid for.  One lemma per place a    *)
(* level is kept in (the dogs, the entries of the main canister, the       *)
(* suspended calls, the requests in flight) says where a step may take the *)
(* level from; together they make LevelsPaid inductive.                    *)
(***************************************************************************)

\* Call c is an upgrade of dog d to the given level.
UpgradeOf(c, d, level) ==
    c # Idle /\ c.op = "dog_level_upgrade" /\ c.dog = d /\ c.arg = level

PaidNow(d, level) == \E f \in collected'[d] : f.level = level

-----------------------------------------------------------------------------
\* What was collected is kept, and what an upgrade pays is added.
LEMMA CollectedStep ==
    ASSUME TypeOK, [Next]_vars, NEW d \in Dogs
    PROVE  collected[d] \subseteq collected'[d]
<1>1. CASE collected' = collected
  BY <1>1
<1>2. ASSUME NEW s \in Slots, UpgradePaid(s) PROVE collected[d] \subseteq collected'[d]
  BY <1>2 DEF UpgradePaid, TypeOK, HistoryTypeOK
<1>3. CASE UNCHANGED vars
  BY <1>3 DEF vars
<1>4. ASSUME NEW s \in Slots, UserCall(s) PROVE collected' = collected
  BY <1>4 DEF UserCall, CreateDog, CreateAlliance, UpgradeDog, JoinAlliance, LeaveAlliance
<1>5. ASSUME NEW s \in Slots, Resume(s), ~UpgradePaid(s) PROVE collected' = collected
  BY <1>5 DEF Resume, FeeRefused, InstallDog, CreateDogReply, CreateAlliancePaid,
     JoinAlliancePaid, JoinAllianceReply, LeaveAllianceReply, UpgradeReply
<1>6. ASSUME NEW s \in CalcSlots, Calc(s) \/ CalcReply(s) PROVE collected' = collected
  BY <1>6 DEF Calc, CalcReply
<1>7. ASSUME NEW e \in Dogs, DogStep(e) PROVE collected' = collected
  BY <1>7 DEF DogStep, DogHandles, DogMiningTypeUpdate, DogLevelUpgrade, DogInfo, RejectRequest,
     Tick, MainUpdateDogState, RejectReport, ReportAcknowledged, CyclesChange
<1> QED
  BY <1>1, <1>2, <1>3, <1>4, <1>5, <1>6, <1>7 DEF Next

-----------------------------------------------------------------------------
\* The level of a dog is its old one, the lowest, or one it was asked for.
DogLevelFrom(d) ==
    \/ dog'[d].level = dog[d].level
    \/ dog'[d].level = CopperDog
    \/ \E i \in 1 .. Len(toDog[d]) : /\ toDog[d][i].op = "dog_level_upgrade"
                                     /\ dog'[d].level = toDog[d][i].arg

LEMMA DogLevelStep ==
    ASSUME Inductive, [Next]_vars, NEW d \in Dogs
    PROVE  DogLevelFrom(d)
<1>0. /\ NetTypeOK /\ QueueInv /\ dog \in [Dogs -> DogContext]
      /\ dog[d] \in DogContext
  BY DEF Inductive, TypeOK, DogTypeOK
<1>1. CASE dog' = dog
  BY <1>1 DEF DogLevelFrom
<1>2. ASSUME NEW s \in Slots, InstallDog(s) PROVE DogLevelFrom(d)
  <2>1. PICK e \in Dogs : dog' = [dog EXCEPT ![e] = NewDog]
    BY <1>2 DEF InstallDog
  <2> QED
    BY <1>0, <2>1 DEF NewDog, DogLevelFrom
<1>3. ASSUME NEW e \in Dogs, DogMiningTypeUpdate(e) PROVE DogLevelFrom(d)
  <2>1. dog' = dog \/ \E t, a : dog' = [dog EXCEPT ![e] = TypeUpdate(dog[e], t, a)]
    BY <1>3 DEF DogMiningTypeUpdate
  <2>2. ASSUME NEW t, NEW a, dog' = [dog EXCEPT ![e] = TypeUpdate(dog[e], t, a)]
        PROVE  dog'[d].level = dog[d].level
    BY <1>0, <2>2 DEF TypeUpdate, DogContext
  <2> QED
    BY <1>1, <2>1, <2>2 DEF DogLevelFrom
<1>4. ASSUME NEW e \in Dogs, DogLevelUpgrade(e) PROVE DogLevelFrom(d)
  <2>1. Head(toDog[e]) = toDog[e][1] /\ 1 \in 1 .. Len(toDog[e])
    BY <1>0, <1>4, HeadOfQueue DEF DogLevelUpgrade
  <2>2. CASE e = d
    <3>1. dog'[d].level = Head(toDog[d]).arg
      BY <1>0, <1>4, <2>2 DEF DogLevelUpgrade, LevelUpgrade, DogContext
    <3> QED
      BY <1>4, <2>1, <2>2, <3>1 DEF DogLevelUpgrade, DogLevelFrom
  <2>3. CASE e # d
    BY <1>0, <1>4, <2>3 DEF DogLevelUpgrade, DogLevelFrom
  <2> QED
    BY <2>2, <2>3
<1>5. ASSUME NEW e \in Dogs, NEW st \in MiningState, ReportAcknowledged(e, st)
      PROVE  DogLevelFrom(d)
  BY <1>0, <1>5 DEF ReportAcknowledged, ApplyReport, StartTimer, StopTimer, DogContext, DogLevelFrom
<1>6. ASSUME NEW e \in Dogs, NEW b \in CyclesBand, CyclesChange(e, b) PROVE DogLevelFrom(d)
  BY <1>0, <1>6 DEF CyclesChange, DogContext, DogLevelFrom
<1>7. ASSUME NEW s \in Slots, UserCall(s) PROVE dog' = dog
  BY <1>7 DEF UserCall, CreateDog, CreateAlliance, UpgradeDog, JoinAlliance, LeaveAlliance
<1>8. ASSUME NEW s \in Slots, Resume(s), ~InstallDog(s) PROVE dog' = dog
  BY <1>8 DEF Resume, FeeRefused, CreateDogReply, CreateAlliancePaid, JoinAlliancePaid,
     JoinAllianceReply, LeaveAllianceReply, UpgradePaid, UpgradeReply
<1>9. ASSUME NEW s \in CalcSlots, Calc(s) \/ CalcReply(s) PROVE dog' = dog
  BY <1>9 DEF Calc, CalcReply
<1>10. ASSUME NEW e \in Dogs,
              DogInfo(e) \/ RejectRequest(e) \/ Tick(e) \/ MainUpdateDogState(e) \/ RejectReport(e)
       PROVE  dog' = dog
  BY <1>10 DEF DogInfo, RejectRequest, Tick, MainUpdateDogState, RejectReport
<1>11. ASSUME UNCHANGED vars PROVE dog' = dog
  BY <1>11 DEF vars
<1>12. ASSUME NEW s \in Slots, Resume(s) PROVE DogLevelFrom(d)
  BY <1>1, <1>2, <1>8, <1>12
<1>13. ASSUME NEW e \in Dogs, DogStep(e) PROVE DogLevelFrom(d)
  BY <1>1, <1>3, <1>4, <1>5, <1>6, <1>10, <1>13 DEF DogStep, DogHandles
<1> QED
  BY <1>1, <1>7, <1>9, <1>11, <1>12, <1>13 DEF Next

\* The level of an entry is its old one, the lowest, or that of an upgrade
\* that the dog has answered.
EntryLevelFrom(d) ==
    \/ d \in DOMAIN dogsMap /\ dogsMap'[d].level = dogsMap[d].level
    \/ dogsMap'[d].level = CopperDog
    \/ \E s \in AllSlots : /\ UpgradeOf(calls[s], d, dogsMap'[d].level)
                           /\ calls[s].at = "replied"

LEMMA EntryLevelStep ==
    ASSUME Inductive, [Next]_vars, NEW d \in DOMAIN dogsMap'
    PROVE  EntryLevelFrom(d)
<1>0. PartialMap(dogsMap, Dogs, DogEntry)
  BY DEF Inductive, TypeOK, MainTypeOK
<1>1. CASE dogsMap' = dogsMap
  BY <1>1 DEF EntryLevelFrom
<1>2. ASSUME NEW s \in Slots, UpgradeReply(s) PROVE EntryLevelFrom(d)
  <2>1. CASE calls[s].reply = "ok"
    <3>1. dogsMap' = [dogsMap EXCEPT ![calls[s].dog].level = calls[s].arg]
      BY <1>2, <2>1 DEF UpgradeReply, SetLevel
    <3>2. CASE d = calls[s].dog
      <4>0. d \in DOMAIN dogsMap
        BY <3>1
      <4>1. dogsMap'[d].level = calls[s].arg
        BY <1>0, <3>1, <3>2, <4>0 DEF PartialMap, DogEntry
      <4> QED
        BY <1>2, <3>2, <4>1 DEF UpgradeReply, Suspended, UpgradeOf, EntryLevelFrom
    <3>3. CASE d # calls[s].dog
      BY <3>1, <3>3 DEF EntryLevelFrom
    <3> QED
      BY <3>2, <3>3
  <2>2. CASE calls[s].reply # "ok"
    BY <1>1, <1>2, <2>2 DEF UpgradeReply, mainVars
  <2> QED
    BY <2>1, <2>2
<1>3. ASSUME NEW s \in Slots, CreateDogReply(s) PROVE EntryLevelFrom(d)
  BY <1>3 DEF CreateDogReply, RegisterDog, Insert, EntryLevelFrom
<1>4. ASSUME NEW s \in Slots, JoinAllianceReply(s) PROVE EntryLevelFrom(d)
  <2>1. UNCHANGED mainVars \/ JoinPool(calls[s].dog, calls[s].arg)
    BY <1>4 DEF JoinAllianceReply
  <2> QED
    BY <1>0, <1>1, <2>1 DEF JoinPool, SetAlliance, PartialMap, DogEntry, mainVars, EntryLevelFrom
<1>5. ASSUME NEW s \in Slots, LeaveAllianceReply(s) PROVE EntryLevelFrom(d)
  <2>1. UNCHANGED mainVars \/ LeavePool(calls[s].dog, calls[s].arg)
    BY <1>5 DEF LeaveAllianceReply
  <2> QED
    BY <1>0, <1>1, <2>1 DEF LeavePool, SetAlliance, PartialMap, DogEntry, mainVars, EntryLevelFrom
<1>6. ASSUME NEW e, MarkStopped(e) \/ MarkActive(e) PROVE EntryLevelFrom(d)
  BY <1>0, <1>6 DEF MarkStopped, MarkActive, PartialMap, DogEntry, EntryLevelFrom
<1>7. ASSUME NEW s \in Slots, UserCall(s) PROVE dogsMap' = dogsMap
  BY <1>7 DEF UserCall, CreateDog, CreateAlliance, UpgradeDog, JoinAlliance, LeaveAlliance, mainVars
<1>8. ASSUME NEW s \in Slots,
             \/ FeeRefused(s) \/ InstallDog(s) \/ CreateAlliancePaid(s)
             \/ JoinAlliancePaid(s) \/ UpgradePaid(s)
      PROVE  dogsMap' = dogsMap
  BY <1>8 DEF FeeRefused, InstallDog, CreateAlliancePaid, AddAlliance, JoinAlliancePaid,
              UpgradePaid, mainVars
<1>9. ASSUME NEW s \in Slots, Resume(s) PROVE EntryLevelFrom(d)
  BY <1>1, <1>2, <1>3, <1>4, <1>5, <1>8, <1>9 DEF Resume
<1>10. ASSUME NEW s \in CalcSlots, Calc(s) \/ CalcReply(s) PROVE EntryLevelFrom(d)
  BY <1>1, <1>6, <1>10 DEF Calc, CalcReply, mainVars
<1>11. ASSUME NEW e \in Dogs, DogStep(e) PROVE EntryLevelFrom(d)
  <2>1. CASE MainUpdateDogState(e)
    BY <1>6, <2>1 DEF MainUpdateDogState, UpdateDogState
  <2>2. CASE ~MainUpdateDogState(e)
    <3>1. UNCHANGED mainVars
      BY <1>11, <2>2 DEF DogStep, DogHandles, DogMiningTypeUpdate, DogLevelUpgrade, DogInfo,
         RejectRequest, Tick, RejectReport, ReportAcknowledged, CyclesChange
    <3> QED
      BY <1>1, <3>1 DEF mainVars
  <2> QED
    BY <2>1, <2>2
<1>12. ASSUME UNCHANGED vars PROVE dogsMap' = dogsMap
  BY <1>12 DEF vars, mainVars
<1> QED
  BY <1>1, <1>7, <1>9, <1>10, <1>11, <1>12 DEF Next

-----------------------------------------------------------------------------
\* An upgrade call is the one of before, unpaid only if it still waits for
\* the ledger, or a new one for the level above that of the entry.
CallFrom(s, d, l) ==
    \/ /\ UpgradeOf(calls[s], d, l)
       /\ calls'[s].at # "ledger" => calls[s].at # "ledger" \/ PaidNow(d, l)
    \/ /\ calls'[s].at = "ledger"
       /\ d \in DOMAIN dogsMap
       /\ l = dogsMap[d].level + 1

LEMMA CallStep ==
    ASSUME Inductive, [Next]_vars, NEW s \in AllSlots, NEW d \in Dogs, NEW l,
           UpgradeOf(calls'[s], d, l)
    PROVE  CallFrom(s, d, l)
<1> USE DEF UpgradeOf
<1>0. /\ TypeOK /\ NetTypeOK /\ QueueInv /\ calls \in [AllSlots -> Call \cup {Idle}]
      /\ \A t \in AllSlots : calls[t] # Idle => calls[t] \in CallRecord
  BY DEF Inductive, TypeOK, NetTypeOK, Call
<1>1. CASE calls'[s] = calls[s]
  BY <1>1 DEF CallFrom
<1>2. ASSUME NEW t \in AllSlots, End(t) PROVE calls'[s] = calls[s]
  BY <1>0, <1>2 DEF End, Idle
<1>3. ASSUME NEW t \in Slots, NEW c, c.op # "dog_level_upgrade", Begin(t, c)
      PROVE  calls'[s] = calls[s]
  BY <1>0, <1>3 DEF Begin
<1>4. ASSUME NEW t \in AllSlots, NEW todo, AskNext(t, todo) PROVE calls'[s] = calls[s]
  BY <1>0, <1>4 DEF AskNext, NewCall
<1>5. ASSUME NEW t \in Slots, UserCall(t) PROVE CallFrom(s, d, l)
  <2>1. ASSUME NEW e \in Dogs, UpgradeDog(t, e) PROVE CallFrom(s, d, l)
    <3>1. CASE s = t
      <4>1. calls'[s] = [NewCall("dog_level_upgrade") EXCEPT
                            !.dog = e, !.arg = dogsMap[e].level + 1]
        BY <1>0, <2>1, <3>1 DEF UpgradeDog, Begin
      <4> QED
        BY <2>1, <4>1 DEF UpgradeDog, NewCall, CallFrom
    <3>2. CASE s # t
      BY <1>0, <1>1, <2>1, <3>2 DEF UpgradeDog, Begin
    <3> QED
      BY <3>1, <3>2
  <2>2. ASSUME NEW m \in Miners, CreateDog(t, m) \/ CreateAlliance(t, m) PROVE CallFrom(s, d, l)
    BY <1>1, <1>3, <2>2 DEF CreateDog, CreateAlliance, NewCall
  <2>3. ASSUME NEW e \in Dogs, NEW p \in PoolIds, JoinAlliance(t, e, p) \/ LeaveAlliance(t, e, p)
        PROVE  CallFrom(s, d, l)
    BY <1>1, <1>3, <2>3 DEF JoinAlliance, LeaveAlliance, NewCall
  <2> QED
    BY <1>5, <2>1, <2>2, <2>3 DEF UserCall
<1>6. ASSUME NEW t \in Slots, Resume(t) PROVE CallFrom(s, d, l)
  <2>1. CASE \/ FeeRefused(t) \/ CreateDogReply(t) \/ CreateAlliancePaid(t)
             \/ JoinAllianceReply(t) \/ LeaveAllianceReply(t) \/ UpgradeReply(t)
    BY <1>1, <1>2, <2>1 DEF FeeRefused, CreateDogReply, CreateAlliancePaid, JoinAllianceReply,
       LeaveAllianceReply, UpgradeReply
  <2>2. CASE InstallDog(t)
    <3>1. calls'[s] = calls[s] \/ calls'[s].op = "create_dog"
      <4>1. PICK e \in Dogs : calls' = [calls EXCEPT ![t].at = "install", ![t].dog = e]
        BY <2>2 DEF InstallDog
      <4> QED
        BY <1>0, <2>2, <4>1 DEF InstallDog, Suspended, CallRecord
    <3> QED
      BY <1>1, <3>1
  <2>3. CASE JoinAlliancePaid(t)
    <3>1. calls'[s] = calls[s] \/ calls'[s].op = "join_alliance"
      BY <1>0, <2>3 DEF JoinAlliancePaid, Suspended, CallRecord
    <3> QED
      BY <1>1, <3>1
  <2>4. CASE UpgradePaid(t)
    <3>1. CASE s = t
      <4>1. /\ calls[s] # Idle /\ calls[s] \in CallRecord /\ calls[s].op = "dog_level_upgrade"
            /\ calls'[s] = [calls[s] EXCEPT !.at = "dog"]
        BY <1>0, <2>4, <3>1 DEF UpgradePaid, Suspended
      <4>2. UpgradeOf(calls[s], d, l)
        BY <4>1 DEF CallRecord
      <4>3. [level |-> l, to |-> AcceptUser(l)] \in collected'[d]
        BY <1>0, <2>4, <3>1, <4>2 DEF UpgradePaid, TypeOK, HistoryTypeOK
      <4>4. \E f \in collected'[d] : f.level = l
        BY <4>3
      <4> QED
        BY <4>2, <4>4 DEF CallFrom, PaidNow
    <3>2. CASE s # t
      BY <1>0, <1>1, <2>4, <3>2 DEF UpgradePaid
    <3> QED
      BY <3>1, <3>2
  <2> QED
    BY <1>6, <2>1, <2>2, <2>3, <2>4 DEF Resume
<1>7. ASSUME NEW t \in CalcSlots, Calc(t) \/ CalcReply(t) PROVE CallFrom(s, d, l)
  BY <1>1, <1>2, <1>4, <1>7 DEF Calc, CalcReply
<1>8. ASSUME NEW e \in Dogs, toDog[e] # << >>, NEW a, Reply(e, a) PROVE CallFrom(s, d, l)
  <2> DEFINE t == Head(toDog[e]).slot
  <2>1. /\ t \in AllSlots /\ calls[t] \in CallRecord /\ calls[t] # Idle
        /\ calls[t].at = "dog"
    BY <1>0, <1>8, HeadOfQueue DEF Call
  <2>2. calls' = [calls EXCEPT ![t].at = "replied", ![t].reply = a]
    BY <1>8 DEF Reply
  <2>3. CASE s = t
    <3>1. /\ calls'[s].op = calls[s].op /\ calls'[s].dog = calls[s].dog
          /\ calls'[s].arg = calls[s].arg
      BY <1>0, <2>1, <2>2, <2>3 DEF CallRecord
    <3> QED
      BY <2>1, <2>3, <3>1 DEF CallFrom
  <2>4. CASE s # t
    BY <1>0, <1>1, <2>2, <2>4
  <2> QED
    BY <2>3, <2>4
<1>9. ASSUME NEW e \in Dogs, DogStep(e) PROVE CallFrom(s, d, l)
  <2>1. CASE DogHandles(e) \/ RejectRequest(e)
    BY <1>8, <2>1 DEF DogHandles, DogMiningTypeUpdate, DogLevelUpgrade, DogInfo, RejectRequest
  <2>2. CASE ~(DogHandles(e) \/ RejectRequest(e))
    <3>1. calls' = calls
      BY <1>9, <2>2 DEF DogStep, Tick, MainUpdateDogState, RejectReport, ReportAcknowledged,
         CyclesChange, netVars
    <3> QED
      BY <1>1, <3>1
  <2> QED
    BY <2>1, <2>2
<1>10. ASSUME UNCHANGED vars PROVE CallFrom(s, d, l)
  BY <1>1, <1>10 DEF vars, netVars
<1> QED
  BY <1>5, <1>6, <1>7, <1>9, <1>10 DEF Next

-----------------------------------------------------------------------------
\* A level asked of a dog was asked before, or has just been paid for.
RequestFrom(d, i) ==
    \/ \E j \in 1 .. Len(toDog[d]) : toDog[d][j] = toDog'[d][i]
    \/ /\ \E t \in AllSlots : UpgradeOf(calls[t], d, toDog'[d][i].arg)
       /\ PaidNow(d, toDog'[d][i].arg)

LEMMA RequestStep ==
    ASSUME Inductive, [Next]_vars, NEW d \in Dogs, NEW i \in 1 .. Len(toDog'[d]),
           toDog'[d][i].op = "dog_level_upgrade"
    PROVE  RequestFrom(d, i)
<1>0. /\ TypeOK /\ NetTypeOK /\ QueueInv /\ toDog \in [Dogs -> Seq(Request)]
      /\ toDog[d] \in Seq(Request)
      /\ \A t \in AllSlots : calls[t] # Idle => calls[t] \in Call
  BY DEF Inductive, TypeOK, NetTypeOK
<1>1. CASE toDog' = toDog
  BY <1>1 DEF RequestFrom
<1>2. ASSUME NEW e \in Dogs, NEW r, Send(e, r)
      PROVE  RequestFrom(d, i) \/ (d = e /\ toDog'[d][i] = r)
  <2>1. CASE d = e
    <3>1. toDog'[d] = Append(toDog[d], r)
      BY <1>0, <1>2, <2>1 DEF Send
    <3>2. CASE i \in 1 .. Len(toDog[d])
      <4>1. toDog'[d][i] = toDog[d][i]
        BY <1>0, <3>1, <3>2
      <4> QED
        BY <3>2, <4>1 DEF RequestFrom
    <3>3. CASE i \notin 1 .. Len(toDog[d])
      <4>1. i = Len(toDog[d]) + 1
        BY <1>0, <3>1, <3>3
      <4> QED
        BY <1>0, <2>1, <3>1, <4>1
    <3> QED
      BY <3>2, <3>3
  <2>2. CASE d # e
    <3>1. toDog'[d] = toDog[d]
      BY <1>0, <1>2, <2>2 DEF Send
    <3> QED
      BY <3>1 DEF RequestFrom
  <2> QED
    BY <2>1, <2>2
<1>3. ASSUME NEW e \in Dogs, toDog[e] # << >>, NEW a, Reply(e, a) PROVE RequestFrom(d, i)
  <2>1. CASE d = e
    <3>1. toDog'[d] = Tail(toDog[d])
      BY <1>0, <1>3, <2>1 DEF Reply
    <3>2. i + 1 \in 1 .. Len(toDog[d]) /\ toDog'[d][i] = toDog[d][i + 1]
      BY <1>0, <1>3, <2>1, <3>1
    <3> QED
      BY <3>2 DEF RequestFrom
  <2>2. CASE d # e
    <3>1. toDog'[d] = toDog[d]
      BY <1>0, <1>3, <2>2 DEF Reply
    <3> QED
      BY <3>1 DEF RequestFrom
  <2> QED
    BY <2>1, <2>2
<1>4. ASSUME NEW t \in AllSlots, NEW todo \in SUBSET Dogs, AskNext(t, todo) PROVE RequestFrom(d, i)
  <2>1. PICK e \in todo : Send(e, InfoRequest(t))
    BY <1>4 DEF AskNext
  <2>2. InfoRequest(t).op # "dog_level_upgrade"
    BY DEF InfoRequest
  <2> QED
    BY <1>2, <2>1, <2>2
<1>5. ASSUME NEW t \in Slots, UserCall(t) PROVE RequestFrom(d, i)
  <2>1. ASSUME NEW e \in Dogs, NEW p \in PoolIds, LeaveAlliance(t, e, p) PROVE RequestFrom(d, i)
    <3>1. TypeUpdateRequest(t, "ALONE", None).op # "dog_level_upgrade"
      BY DEF TypeUpdateRequest
    <3> QED
      BY <1>2, <2>1, <3>1 DEF LeaveAlliance
  <2>2. (\A e \in Dogs, p \in PoolIds : ~LeaveAlliance(t, e, p)) => toDog' = toDog
    BY <1>5 DEF UserCall, CreateDog, CreateAlliance, UpgradeDog, JoinAlliance
  <2> QED
    BY <1>1, <2>1, <2>2
<1>6. ASSUME NEW t \in Slots, Resume(t) PROVE RequestFrom(d, i)
  <2>1. CASE JoinAlliancePaid(t)
    <3>1. TypeUpdateRequest(t, "POOL", calls[t].arg).op # "dog_level_upgrade"
      BY DEF TypeUpdateRequest
    <3>2. calls[t].dog \in Dogs
      BY <1>0, <2>1 DEF JoinAlliancePaid, Suspended, Call, CallOK
    <3> QED
      BY <1>2, <2>1, <3>1, <3>2 DEF JoinAlliancePaid
  <2>2. CASE UpgradePaid(t)
    <3> DEFINE c == calls[t]
    <3>1. c.dog \in Dogs
      BY <1>0, <2>2 DEF UpgradePaid, Suspended, Call, CallOK
    <3>2. Send(c.dog, LevelRequest(t, c.arg))
      BY <2>2 DEF UpgradePaid
    <3>3. CASE d = c.dog /\ toDog'[d][i] = LevelRequest(t, c.arg)
      <4>1. [level |-> c.arg, to |-> AcceptUser(c.arg)] \in collected'[d]
        BY <1>0, <2>2, <3>3 DEF UpgradePaid, TypeOK, HistoryTypeOK
      <4>2. \E f \in collected'[d] : f.level = c.arg
        BY <4>1
      <4>3. UpgradeOf(calls[t], d, c.arg)
        BY <2>2, <3>3 DEF UpgradePaid, Suspended, UpgradeOf
      <4> QED
        BY <3>3, <4>2, <4>3 DEF LevelRequest, RequestFrom, PaidNow
    <3> QED
      BY <1>2, <3>1, <3>2, <3>3
  <2>3. CASE ~JoinAlliancePaid(t) /\ ~UpgradePaid(t)
    <3>1. toDog' = toDog
      BY <1>6, <2>3 DEF Resume, FeeRefused, InstallDog, CreateDogReply, CreateAlliancePaid,
         JoinAllianceReply, LeaveAllianceReply, UpgradeReply
    <3> QED
      BY <1>1, <3>1
  <2> QED
    BY <2>1, <2>2, <2>3
<1>7. ASSUME NEW t \in CalcSlots, Calc(t) \/ CalcReply(t) PROVE RequestFrom(d, i)
  <2>1. CASE Calc(t)
    <3>1. ActiveDogs \in SUBSET Dogs
      BY <1>0 DEF ActiveDogs, TypeOK, MainTypeOK, PartialMap
    <3> QED
      BY <1>4, <2>1, <3>1 DEF Calc
  <2>2. CASE CalcReply(t)
    <3>1. calls[t].todo \in SUBSET Dogs
      BY <1>0, <2>2 DEF CalcReply, Suspended, Call, CallRecord
    <3>2. toDog' = toDog \/ AskNext(t, calls[t].todo)
      BY <2>2 DEF CalcReply
    <3> QED
      BY <1>1, <1>4, <3>1, <3>2
  <2> QED
    BY <1>7, <2>1, <2>2
<1>8. ASSUME NEW e \in Dogs, DogStep(e) PROVE RequestFrom(d, i)
  <2>1. CASE DogHandles(e) \/ RejectRequest(e)
    BY <1>3, <2>1 DEF DogHandles, DogMiningTypeUpdate, DogLevelUpgrade, DogInfo, RejectRequest
  <2>2. CASE ~(DogHandles(e) \/ RejectRequest(e))
    <3>1. toDog' = toDog
      BY <1>8, <2>2 DEF DogStep, Tick, MainUpdateDogState, RejectReport, ReportAcknowledged,
         CyclesChange, netVars
    <3> QED
      BY <1>1, <3>1
  <2> QED
    BY <2>1, <2>2
<1>9. ASSUME UNCHANGED vars PROVE RequestFrom(d, i)
  BY <1>1, <1>9 DEF vars, netVars
<1> QED
  BY <1>5, <1>6, <1>7, <1>8, <1>9 DEF Next

-----------------------------------------------------------------------------
(* Together.                                                               *)

PayInv == LevelsPaid /\ PaymentInv

LEMMA PaidLowest == ASSUME NEW d \in Dogs PROVE PaidUpTo(d, CopperDog)
BY DEF PaidUpTo, SilverDog, CopperDog

LEMMA LevelsStep ==
    ASSUME Inductive, PayInv, [Next]_vars
    PROVE  LevelsPaid'
<1>0. /\ TypeOK
      /\ \A s \in AllSlots : calls[s] # Idle => calls[s] \in Call
  BY DEF Inductive, TypeOK, NetTypeOK
<1>1. ASSUME NEW d \in Dogs PROVE PaidUpTo(d, dog[d].level)'
  <2>1. PaidUpTo(d, dog'[d].level)
    <3>1. DogLevelFrom(d)
      BY DogLevelStep
    <3>2. PaidUpTo(d, dog[d].level)
      BY DEF PayInv, LevelsPaid
    <3>3. PaidUpTo(d, CopperDog)
      BY PaidLowest
    <3>4. \A i \in 1 .. Len(toDog[d]) :
            toDog[d][i].op = "dog_level_upgrade" => PaidUpTo(d, toDog[d][i].arg)
      BY DEF PayInv, PaymentInv
    <3> QED
      BY <3>1, <3>2, <3>3, <3>4 DEF DogLevelFrom
  <2> QED
    BY <1>0, <2>1, CollectedStep DEF PaidUpTo
<1>2. ASSUME NEW d \in DOMAIN dogsMap' PROVE PaidUpTo(d, dogsMap[d].level)'
  <2>0. d \in Dogs
    <3>1. TypeOK'
      BY NextTypeOK DEF Inductive
    <3> QED
      BY <3>1 DEF TypeOK, MainTypeOK, PartialMap
  <2>1. PaidUpTo(d, dogsMap'[d].level)
    <3>1. EntryLevelFrom(d)
      BY EntryLevelStep
    <3>2. d \in DOMAIN dogsMap => PaidUpTo(d, dogsMap[d].level)
      BY DEF PayInv, LevelsPaid
    <3>3. PaidUpTo(d, CopperDog)
      BY <2>0, PaidLowest
    <3>4. ASSUME NEW s \in AllSlots, UpgradeOf(calls[s], d, dogsMap'[d].level),
                 calls[s].at = "replied"
          PROVE  PaidUpTo(d, dogsMap'[d].level)
      BY <3>4 DEF PayInv, PaymentInv, UpgradeOf
    <3> QED
      BY <3>1, <3>2, <3>3, <3>4 DEF EntryLevelFrom
  <2> QED
    BY <1>0, <2>0, <2>1, CollectedStep DEF PaidUpTo
<1> QED
  BY <1>1, <1>2 DEF LevelsPaid

LEMMA PaymentStep ==
    ASSUME Inductive, PayInv, [Next]_vars
    PROVE  PaymentInv'
<1>0. /\ TypeOK /\ TypeOK'
      /\ \A s \in AllSlots : calls'[s] # Idle => calls'[s] \in Call
  <2>1. TypeOK /\ TypeOK'
    BY NextTypeOK DEF Inductive
  <2> QED
    BY <2>1 DEF TypeOK, NetTypeOK
<1>1. ASSUME NEW s \in AllSlots, calls'[s] # Idle, calls'[s].op = "dog_level_upgrade"
      PROVE  (/\ PaidUpTo(calls[s].dog, calls[s].arg - 1)
              /\ calls[s].at # "ledger" => PaidUpTo(calls[s].dog, calls[s].arg))'
  <2> DEFINE d == calls'[s].dog
             l == calls'[s].arg
  <2>1. d \in Dogs /\ l \in Nat
    BY <1>0, <1>1 DEF Call, CallRecord, CallOK
  <2>2. CallFrom(s, d, l)
    BY <1>1, <2>1, CallStep DEF UpgradeOf
  <2>3. PaidUpTo(d, l - 1)
    <3>1. CASE UpgradeOf(calls[s], d, l)
      BY <3>1 DEF UpgradeOf, PayInv, PaymentInv
    <3>2. CASE d \in DOMAIN dogsMap /\ l = dogsMap[d].level + 1
      <4>1. PaidUpTo(d, dogsMap[d].level) /\ dogsMap[d].level \in Nat
        BY <1>0, <3>2 DEF PayInv, LevelsPaid, TypeOK, MainTypeOK, PartialMap, DogEntry, DogLevel,
           CopperDog, DiamondDog
      <4>2. l - 1 = dogsMap[d].level
        BY <3>2, <4>1
      <4> QED
        BY <4>1, <4>2
    <3> QED
      BY <2>2, <3>1, <3>2 DEF CallFrom
  <2>4. (\A k \in SilverDog .. (l - 1) : \E f \in collected'[d] : f.level = k)
    BY <1>0, <2>1, <2>3, CollectedStep DEF PaidUpTo
  <2>5. ASSUME calls'[s].at # "ledger"
        PROVE  \A k \in SilverDog .. l : \E f \in collected'[d] : f.level = k
    <3>1. UpgradeOf(calls[s], d, l) /\ (calls[s].at # "ledger" \/ PaidNow(d, l))
      BY <2>2, <2>5 DEF CallFrom
    <3>2. CASE calls[s].at # "ledger"
      <4>1. PaidUpTo(d, l)
        BY <3>1, <3>2 DEF UpgradeOf, PayInv, PaymentInv
      <4> QED
        BY <1>0, <2>1, <4>1, CollectedStep DEF PaidUpTo
    <3>3. CASE PaidNow(d, l)
      <4>1. \A k \in SilverDog .. l : k = l \/ k \in SilverDog .. (l - 1)
        BY <2>1 DEF SilverDog
      <4> QED
        BY <2>4, <3>3, <4>1 DEF PaidNow
    <3> QED
      BY <3>1, <3>2, <3>3
  <2> QED
    BY <2>4, <2>5 DEF PaidUpTo
<1>2. ASSUME NEW d \in Dogs, NEW i \in 1 .. Len(toDog'[d]),
             toDog'[d][i].op = "dog_level_upgrade"
      PROVE  PaidUpTo(d, toDog[d][i].arg)'
  <2> DEFINE l == toDog'[d][i].arg
  <2>1. RequestFrom(d, i)
    BY <1>2, RequestStep
  <2>2. ASSUME NEW j \in 1 .. Len(toDog[d]), toDog[d][j] = toDog'[d][i]
        PROVE  \A k \in SilverDog .. l : \E f \in collected'[d] : f.level = k
    <3>1. PaidUpTo(d, l)
      BY <1>2, <2>2 DEF PayInv, PaymentInv
    <3> QED
      BY <1>0, <3>1, CollectedStep DEF PaidUpTo
  <2>3. ASSUME NEW t \in AllSlots, UpgradeOf(calls[t], d, l), PaidNow(d, l)
        PROVE  \A k \in SilverDog .. l : \E f \in collected'[d] : f.level = k
    <3>1. PaidUpTo(d, l - 1)
      BY <2>3 DEF PayInv, PaymentInv, UpgradeOf
    <3>2. \A k \in SilverDog .. (l - 1) : \E f \in collected'[d] : f.level = k
      BY <1>0, <3>1, CollectedStep DEF PaidUpTo
    <3>3. l \in Nat
      <4>1. toDog'[d][i] \in Request
        BY <1>0, <1>2 DEF TypeOK, NetTypeOK
      <4> QED
        BY <4>1 DEF Request, RequestRecord
    <3>4. \A k \in SilverDog .. l : k = l \/ k \in SilverDog .. (l - 1)
      BY <3>3 DEF SilverDog
    <3> QED
      BY <2>3, <3>2, <3>4 DEF PaidNow
  <2> QED
    BY <2>1, <2>2, <2>3 DEF RequestFrom, PaidUpTo
<1> QED
  BY <1>1, <1>2 DEF PaymentInv

LEMMA PaymentSafe == Spec => []PayInv
<1>1. Init => PayInv
  BY PaidLowest DEF Init, MainInit, EmptyMap, NewDog, PayInv, LevelsPaid, PaymentInv
<1>2. Inductive /\ PayInv /\ [Next]_vars => PayInv'
  BY LevelsStep, PaymentStep DEF PayInv
<1> QED
  BY <1>1, <1>2, RegistrySafe, PTL DEF Spec

\* No dog is ever at a level that was not paid for, neither in its own
\* context nor in DOGS_MAP: dog_level_upgrade may run any number of times at
\* once for a dog, and its replies may be applied in any order.
THEOREM LevelsPaidHolds == Spec => []LevelsPaid
<1>1. PayInv => LevelsPaid
  BY DEF PayInv
<1> QED
  BY <1>1, PaymentSafe, PTL

\* An upgrade between the two canisters has its own level and every level
\* below it paid for.
THEOREM PaymentHolds == Spec => []PaymentInv
<1>1. PayInv => PaymentInv
  BY DEF PayInv
<1> QED
  BY <1>1, PaymentSafe, PTL
=============================================================================
