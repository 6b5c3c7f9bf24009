-------------------------- MODULE AgreementProofs --------------------------
(***************************************************************************)
(* Proof that exchanges which do not overlap leave the main canister and   *)
(* the dog in agreement (AgreeUnlessDisturbed), for any sets of dogs,      *)
(* miners and slots.                                                       *)
(***************************************************************************)
EXTENDS MiningProofs

USE DEF AllSlots

-----------------------------------------------------------------------------
(* Requests in flight match the calls that sent them.                      *)

LEMMA RequestSlots ==
    ASSUME NetTypeOK, NEW d \in Dogs, NEW i \in 1 .. Len(toDog[d])
    PROVE  toDog[d][i].slot \in AllSlots
<1>1. toDog[d][i] \in Request
  BY DEF NetTypeOK
<1> QED
  BY <1>1 DEF Request, RequestRecord

LEMMA SameRequests == RequestInv /\ UNCHANGED <<calls, toDog>> => RequestInv'
BY DEF RequestInv

LEMMA RequestsOther ==
    ASSUME NetTypeOK, QueueInv, RequestInv, NEW s \in AllSlots, NotAwaiting(s), NEW c,
           calls' = [calls EXCEPT ![s] = c], toDog' = toDog
    PROVE  RequestInv'
<1>1. ASSUME NEW d \in Dogs, NEW i \in 1 .. Len(toDog'[d])
      PROVE  Asks(calls'[toDog'[d][i].slot], toDog'[d][i])
  <2>1. toDog[d][i].slot \in AllSlots /\ toDog[d][i].slot # s
    BY <1>1, RequestSlots DEF QueueInv, NotAwaiting
  <2>2. calls'[toDog[d][i].slot] = calls[toDog[d][i].slot]
    BY <2>1 DEF NetTypeOK
  <2> QED
    BY <2>2 DEF RequestInv
<1> QED
  BY <1>1 DEF RequestInv

LEMMA RequestsSend ==
    ASSUME NetTypeOK, QueueInv, RequestInv, NEW s \in AllSlots, NotAwaiting(s), NEW c,
           NEW d \in Dogs, NEW r \in Request, r.slot = s, Asks(c, r),
           calls' = [calls EXCEPT ![s] = c], Send(d, r)
    PROVE  RequestInv'
<1>1. calls'[s] = c /\ \A t \in AllSlots \ {s} : calls'[t] = calls[t]
  BY DEF NetTypeOK
<1>2. /\ toDog'[d] = Append(toDog[d], r)
      /\ toDog[d] \in Seq(Request)
  BY DEF Send, NetTypeOK
<1>3. /\ Len(toDog'[d]) = Len(toDog[d]) + 1
      /\ \A i \in 1 .. Len(toDog[d]) : toDog'[d][i] = toDog[d][i]
      /\ toDog'[d][Len(toDog[d]) + 1] = r
      /\ Len(toDog[d]) \in Nat
  BY <1>2
<1>4. ASSUME NEW e \in Dogs, NEW i \in 1 .. Len(toDog'[e])
      PROVE  Asks(calls'[toDog'[e][i].slot], toDog'[e][i])
  <2>1. CASE e = d /\ i = Len(toDog[d]) + 1
    BY <1>1, <1>3, <2>1
  <2>2. CASE e # d \/ i # Len(toDog[d]) + 1
    <3>1. i \in 1 .. Len(toDog[e]) /\ toDog'[e][i] = toDog[e][i]
      BY <1>3, <1>4, <2>2 DEF Send, NetTypeOK
    <3>2. toDog[e][i].slot \in AllSlots /\ toDog[e][i].slot # s
      BY <3>1, RequestSlots DEF QueueInv, NotAwaiting
    <3>3. Asks(calls[toDog[e][i].slot], toDog[e][i])
      BY <3>1 DEF RequestInv
    <3> QED
      BY <1>1, <3>1, <3>2, <3>3
  <2> QED
    BY <2>1, <2>2
<1> QED
  BY <1>4 DEF RequestInv

LEMMA RequestsReply ==
    ASSUME NetTypeOK, QueueInv, RequestInv, NEW d \in Dogs, toDog[d] # << >>, NEW a,
           Reply(d, a)
    PROVE  RequestInv'
<1> DEFINE s == Head(toDog[d]).slot
<1>1. /\ s \in AllSlots
      /\ s = toDog[d][1].slot
      /\ 1 \in 1 .. Len(toDog[d])
      /\ calls[s].dog = d
  BY HeadOfQueue
<1>2. \A t \in AllSlots \ {s} : calls'[t] = calls[t]
  BY DEF Reply, NetTypeOK
<1>3. /\ toDog'[d] = Tail(toDog[d])
      /\ toDog[d] \in Seq(Request)
  BY DEF Reply, NetTypeOK
<1>4. /\ Len(toDog[d]) \in Nat
      /\ \A i \in 1 .. Len(toDog'[d]) :
            i + 1 \in 1 .. Len(toDog[d]) /\ toDog'[d][i] = toDog[d][i + 1] /\ i + 1 # 1
  BY <1>3
<1>5. ASSUME NEW e \in Dogs, NEW i \in 1 .. Len(toDog'[e])
      PROVE  \E j \in 1 .. Len(toDog[e]) :
                toDog'[e][i] = toDog[e][j] /\ toDog[e][j].slot # s
  <2>1. CASE e = d
    <3>1. i + 1 \in 1 .. Len(toDog[d]) /\ toDog'[d][i] = toDog[d][i + 1] /\ i + 1 # 1
      BY <1>4, <1>5, <2>1
    <3>2. toDog[d][i + 1].slot # s
      BY <1>1, <3>1 DEF QueueInv
    <3> QED
      BY <2>1, <3>1, <3>2
  <2>2. CASE e # d
    <3>1. toDog'[e] = toDog[e] /\ i \in 1 .. Len(toDog[e])
      BY <1>5, <2>2 DEF Reply, NetTypeOK
    <3>2. toDog[e][i].slot # s
      BY <1>1, <2>2, <3>1 DEF QueueInv
    <3> QED
      BY <3>1, <3>2
  <2> QED
    BY <2>1, <2>2
<1>6. ASSUME NEW e \in Dogs, NEW i \in 1 .. Len(toDog'[e])
      PROVE  Asks(calls'[toDog'[e][i].slot], toDog'[e][i])
  <2>1. PICK j \in 1 .. Len(toDog[e]) : toDog'[e][i] = toDog[e][j] /\ toDog[e][j].slot # s
    BY <1>5, <1>6
  <2>2. calls'[toDog[e][j].slot] = calls[toDog[e][j].slot]
    BY <1>2, <2>1, RequestSlots
  <2>3. Asks(calls[toDog[e][j].slot], toDog[e][j])
    BY DEF RequestInv
  <2> QED
    BY <2>1, <2>2, <2>3
<1> QED
  BY <1>6 DEF RequestInv

LEMMA NextRequests == TypeOK /\ QueueInv /\ RequestInv /\ [Next]_vars => RequestInv'
<1> SUFFICES ASSUME TypeOK, QueueInv, RequestInv, [Next]_vars PROVE RequestInv'
    OBVIOUS
<1>0. NetTypeOK /\ MainTypeOK
  BY DEF TypeOK
<1>1. ASSUME NEW s \in Slots, UserCall(s) PROVE RequestInv'
  <2>1. ASSUME NEW m \in Miners, CreateDog(s, m) \/ CreateAlliance(s, m) PROVE RequestInv'
    BY <1>0, <2>1, RequestsOther DEF CreateDog, CreateAlliance, Begin, NotAwaiting
  <2>2. ASSUME NEW d \in Dogs, UpgradeDog(s, d) PROVE RequestInv'
    BY <1>0, <2>2, RequestsOther DEF UpgradeDog, Begin, NotAwaiting
  <2>3. ASSUME NEW d \in Dogs, NEW p \in PoolIds, JoinAlliance(s, d, p) PROVE RequestInv'
    BY <1>0, <2>3, RequestsOther DEF JoinAlliance, Begin, NotAwaiting
  <2>4. ASSUME NEW d \in Dogs, NEW p \in PoolIds, LeaveAlliance(s, d, p) PROVE RequestInv'
    <3> DEFINE c == [NewCall("leave_alliance") EXCEPT !.at = "dog", !.dog = d, !.arg = p]
               r == TypeUpdateRequest(s, "ALONE", None)
    <3>1. calls' = [calls EXCEPT ![s] = c] /\ NotAwaiting(s) /\ Send(d, r)
      BY <2>4 DEF LeaveAlliance, Begin, NotAwaiting
    <3>2. r \in Request /\ r.slot = s
      BY RequestType DEF TypeUpdateRequest, MiningType, SilverDog, DiamondDog
    <3>3. Asks(c, r)
      BY DEF Asks, NewCall, TypeUpdateRequest
    <3> QED
      BY <1>0, <3>1, <3>2, <3>3, RequestsSend
  <2> QED
    BY <1>1, <2>1, <2>2, <2>3, <2>4 DEF UserCall
<1>2. ASSUME NEW s \in Slots, Resume(s) PROVE RequestInv'
  <2> DEFINE c == [calls[s] EXCEPT !.at = "dog"]
  <2>1. CASE FeeRefused(s) \/ CreateDogReply(s) \/ CreateAlliancePaid(s) \/ JoinAllianceReply(s)
             \/ LeaveAllianceReply(s) \/ UpgradeReply(s)
    BY <1>0, <2>1, RequestsOther DEF FeeRefused, CreateDogReply, CreateAlliancePaid,
       JoinAllianceReply, LeaveAllianceReply, UpgradeReply, Suspended, End, NotAwaiting
  <2>2. CASE InstallDog(s)
    <3>1. PICK d \in Dogs : calls' = [calls EXCEPT ![s].at = "install", ![s].dog = d]
      BY <2>2 DEF InstallDog
    <3>2. calls' = [calls EXCEPT ![s] = [calls[s] EXCEPT !.at = "install", !.dog = d]]
      BY <1>0, <3>1 DEF NetTypeOK
    <3> QED
      BY <1>0, <2>2, <3>2, RequestsOther DEF InstallDog, Suspended, NotAwaiting
  <2>3. CASE JoinAlliancePaid(s)
    <3> DEFINE r == TypeUpdateRequest(s, "POOL", calls[s].arg)
    <3>1. /\ NotAwaiting(s)
          /\ calls[s] \in Call /\ calls[s].op = "join_alliance"
          /\ calls' = [calls EXCEPT ![s] = c]
          /\ Send(calls[s].dog, r)
      BY <1>0, <2>3 DEF JoinAlliancePaid, Suspended, NotAwaiting, NetTypeOK
    <3>2. calls[s].dog \in Dogs /\ calls[s].arg \in PoolIds
      BY <3>1 DEF Call, CallRecord, CallOK
    <3>3. r \in Request /\ r.slot = s
      BY <3>2, RequestType DEF TypeUpdateRequest, MiningType, SilverDog, DiamondDog
    <3>4. Asks(c, r)
      BY <3>1 DEF Asks, Call, CallRecord, TypeUpdateRequest
    <3> QED
      BY <1>0, <3>1, <3>2, <3>3, <3>4, RequestsSend
  <2>4. CASE UpgradePaid(s)
    <3> DEFINE r == LevelRequest(s, calls[s].arg)
    <3>1. /\ NotAwaiting(s)
          /\ calls[s] \in Call /\ calls[s].op = "dog_level_upgrade"
          /\ calls' = [calls EXCEPT ![s] = c]
          /\ Send(calls[s].dog, r)
      BY <1>0, <2>4 DEF UpgradePaid, Suspended, NotAwaiting, NetTypeOK
    <3>2. calls[s].dog \in Dogs /\ calls[s].arg \in SilverDog .. DiamondDog
      BY <3>1 DEF Call, CallRecord, CallOK
    <3>3. r \in Request /\ r.slot = s
      BY <3>2, RequestType DEF LevelRequest, MiningType
    <3>4. Asks(c, r)
      BY <3>1 DEF Asks, Call, CallRecord, LevelRequest
    <3> QED
      BY <1>0, <3>1, <3>2, <3>3, <3>4, RequestsSend
  <2> QED
    BY <1>2, <2>1, <2>2, <2>3, <2>4 DEF Resume
<1>3. ASSUME NEW s \in CalcSlots, Calc(s) \/ CalcReply(s) PROVE RequestInv'
  <2>1. ASSUME NEW todo \in SUBSET Dogs, NotAwaiting(s), AskNext(s, todo) PROVE RequestInv'
    <3>1. PICK d \in todo :
            /\ calls' = [calls EXCEPT ![s] = [NewCall("calc") EXCEPT
                            !.at = "dog", !.dog = d, !.todo = todo \ {d}]]
            /\ Send(d, InfoRequest(s))
      BY <2>1 DEF AskNext
    <3> DEFINE c == [NewCall("calc") EXCEPT !.at = "dog", !.dog = d, !.todo = todo \ {d}]
    <3>2. InfoRequest(s) \in Request /\ InfoRequest(s).slot = s
      BY DEF InfoRequest, Request, RequestRecord, RequestOK, MiningType, None
    <3>3. Asks(c, InfoRequest(s))
      BY DEF Asks, NewCall, InfoRequest
    <3> HIDE DEF c
    <3> QED
      BY <1>0, <2>1, <3>1, <3>2, <3>3, RequestsSend DEF c
  <2>2. CASE Calc(s)
    BY <1>0, <2>1, <2>2 DEF Calc, NotAwaiting, ActiveDogs, MainTypeOK, PartialMap
  <2>3. CASE CalcReply(s)
    <3>1. calls[s] \in Call /\ NotAwaiting(s)
      BY <1>0, <2>3 DEF CalcReply, Suspended, NetTypeOK, NotAwaiting
    <3>2. CASE calls[s].todo = {}
      BY <1>0, <2>3, <3>1, <3>2, RequestsOther DEF CalcReply, End
    <3>3. CASE calls[s].todo # {}
      BY <2>1, <2>3, <3>1, <3>3 DEF CalcReply, Call, CallRecord
    <3> QED
      BY <3>2, <3>3
  <2> QED
    BY <1>3, <2>2, <2>3
<1>4. ASSUME NEW d \in Dogs, DogStep(d) PROVE RequestInv'
  <2>1. CASE DogHandles(d) \/ RejectRequest(d)
    BY <1>0, <2>1, RequestsReply DEF DogHandles, DogMiningTypeUpdate, DogLevelUpgrade, DogInfo,
       RejectRequest
  <2>2. CASE Tick(d) \/ MainUpdateDogState(d) \/ RejectReport(d)
    BY <2>2, SameRequests DEF Tick, MainUpdateDogState, RejectReport
  <2>3. ASSUME NEW st \in MiningState, ReportAcknowledged(d, st) PROVE RequestInv'
    BY <2>3, SameRequests DEF ReportAcknowledged
  <2>4. ASSUME NEW band \in CyclesBand, CyclesChange(d, band) PROVE RequestInv'
    BY <2>4, SameRequests DEF CyclesChange, netVars
  <2> QED
    BY <1>4, <2>1, <2>2, <2>3, <2>4 DEF DogStep
<1>5. ASSUME UNCHANGED vars PROVE RequestInv'
  BY <1>5, SameRequests DEF vars, netVars
<1> QED
  BY <1>1, <1>2, <1>3, <1>4, <1>5 DEF Next

LEMMA InitRequests == Init => RequestInv
<1> SUFFICES ASSUME Init PROVE RequestInv
    OBVIOUS
<1>1. \A d \in Dogs : toDog[d] = << >>
  BY DEF Init
<1>2. 1 .. Len(<< >>) = {}
  OBVIOUS
<1> QED
  BY <1>1, <1>2 DEF RequestInv

-----------------------------------------------------------------------------
(* Steps that do not concern the exchanges of dog d.                       *)

HistoryGrows == disturbed \subseteq disturbed'

LEMMA NextHistory == [Next]_vars => HistoryGrows
<1> USE DEF HistoryGrows, DisturbIfBusy
<1>1. ASSUME NEW s \in Slots, UserCall(s) \/ Resume(s) PROVE HistoryGrows
  BY <1>1 DEF UserCall, CreateDog, CreateAlliance, UpgradeDog, JoinAlliance, LeaveAlliance,
     Resume, FeeRefused, InstallDog, CreateDogReply, CreateAlliancePaid, JoinAlliancePaid,
     JoinAllianceReply, LeaveAllianceReply, UpgradePaid, UpgradeReply
<1>2. ASSUME NEW s \in CalcSlots, Calc(s) \/ CalcReply(s) PROVE HistoryGrows
  BY <1>2 DEF Calc, CalcReply
<1>3. ASSUME NEW d \in Dogs, DogStep(d) PROVE HistoryGrows
  BY <1>3 DEF DogStep, DogHandles, DogMiningTypeUpdate, DogLevelUpgrade, DogInfo, RejectRequest,
     Tick, MainUpdateDogState, RejectReport, ReportAcknowledged, CyclesChange
<1>4. ASSUME UNCHANGED vars PROVE HistoryGrows
  BY <1>4 DEF vars
<1> QED
  BY <1>1, <1>2, <1>3, <1>4 DEF Next

SameCalls(d) ==
    \A s \in AllSlots : calls'[s] = calls[s] \/ (~Called(s, d) /\ ~Called(s, d)')

SameDog(d) ==
    /\ d \in installed => d \in installed'
    /\ dog'[d].state = dog[d].state
    /\ dog'[d].alliance = dog[d].alliance

SameReports(d) == toMain'[d] = toMain[d] /\ replies'[d] = replies[d]

SameEntry(d) ==
    /\ d \in DOMAIN dogsMap' =>
            /\ d \in DOMAIN dogsMap
            /\ dogsMap'[d].state = dogsMap[d].state
            /\ dogsMap'[d].alliance = dogsMap[d].alliance
    /\ \A p \in DOMAIN pools' :
            \/ p \in DOMAIN pools /\ (d \in pools'[p].dogs <=> d \in pools[p].dogs)
            \/ p \notin DOMAIN pools /\ p # None /\ d \notin pools'[p].dogs

\* An accepted change of the alliance is an open exchange.
LEMMA AcceptedIsCalled ==
    ASSUME NEW s, NEW d, NEW op \in {"join_alliance", "leave_alliance"}, Accepted(s, op, d)
    PROVE  Called(s, d)
BY DEF Accepted, Suspended, Called, ModeExchange

LEMMA SameAccepted ==
    ASSUME NEW d, SameCalls(d), NEW s \in AllSlots,
           NEW op \in {"join_alliance", "leave_alliance"}
    PROVE  /\ Accepted(s, op, d)' <=> Accepted(s, op, d)
           /\ Accepted(s, op, d) => calls'[s] = calls[s]
<1>1. CASE calls'[s] = calls[s]
  BY <1>1 DEF Accepted, Suspended
<1>2. CASE ~Called(s, d) /\ ~Called(s, d)'
  BY <1>2 DEF Accepted, Suspended, Called, ModeExchange
<1> QED
  BY <1>1, <1>2 DEF SameCalls

LEMMA SameCalled ==
    ASSUME NEW d, SameCalls(d), NEW s \in AllSlots
    PROVE  /\ Called(s, d)' <=> Called(s, d)
           /\ Called(s, d) => calls'[s] = calls[s]
BY DEF SameCalls, Called

LEMMA SameSole ==
    ASSUME NEW d, AllianceListed, d \in DOMAIN dogsMap, SoleMember(d), SameEntry(d),
           d \in DOMAIN dogsMap'
    PROVE  SoleMember(d)'
BY DEF SoleMember, SameEntry, AllianceListed

LEMMA SameExchange ==
    ASSUME NEW d \in Dogs, AllianceListed, Exchanged(d), SameDog(d), SameReports(d),
           SameEntry(d), SameCalls(d)
    PROVE  Exchanged(d)'
<1>1. \A s \in AllSlots : /\ Called(s, d)' <=> Called(s, d)
                          /\ Called(s, d) => calls'[s] = calls[s]
  BY SameCalled
<1>2. OneExchange(d)'
  <2>1. OneExchange(d)
    BY DEF Exchanged
  <2> QED
    BY <1>1, <2>1 DEF OneExchange, SameReports
<1>3. Underway(d)'
  <2>1. Underway(d)
    BY DEF Exchanged
  <2>2. toMain'[d] # << >> => dog'[d].state # Head(toMain'[d])
    BY <2>1 DEF Underway, SameReports, SameDog
  <2>3. ASSUME NEW s \in AllSlots, Called(s, d)'
        PROVE  (LET c == calls[s] IN
                /\ c.op = "create_dog" => dog[d].state = "ACTIVITY" /\ dog[d].alliance = None
                /\ c.op = "leave_alliance" /\ c.at = "dog" => dog[d].alliance = c.arg
                /\ c.op = "calc" => dog[d].state = "ACTIVITY"
                /\ c.op = "calc" /\ c.at = "replied" /\ c.dog = d => c.reply # "STOP")'
    <3>1. Called(s, d) /\ calls'[s] = calls[s]
      BY <1>1, <2>3
    <3> QED
      BY <2>1, <3>1 DEF Underway, SameDog
  <2> QED
    BY <2>2, <2>3 DEF Underway
<1>4. ASSUME d \in DOMAIN dogsMap'
      PROVE  StatesMatch(d)' /\ AlliancesMatch(d)' /\ SoleMember(d)'
  <2>1. d \in DOMAIN dogsMap /\ StatesMatch(d) /\ AlliancesMatch(d) /\ SoleMember(d)
    BY <1>4 DEF Exchanged, SameEntry
  <2>2. StatesMatch(d)'
    BY <1>4, <2>1 DEF StatesMatch, SameEntry, SameDog, SameReports
  <2>3. AlliancesMatch(d)'
    <3>1. \A s \in AllSlots :
            /\ Accepted(s, "join_alliance", d)' <=> Accepted(s, "join_alliance", d)
            /\ Accepted(s, "leave_alliance", d)' <=> Accepted(s, "leave_alliance", d)
            /\ Accepted(s, "join_alliance", d) => calls'[s] = calls[s]
            /\ Accepted(s, "leave_alliance", d) => calls'[s] = calls[s]
      BY SameAccepted
    <3> QED
      BY <1>4, <2>1, <3>1 DEF AlliancesMatch, SameEntry, SameDog, SameReports
  <2>4. SoleMember(d)'
    BY <1>4, <2>1, SameSole
  <2> QED
    BY <2>2, <2>3, <2>4
<1>5. d \notin installed' =>
        toMain'[d] = << >> /\ \A st \in MiningState : replies'[d][st] = 0
  BY DEF Exchanged, SameDog, SameReports
<1> QED
  BY <1>2, <1>3, <1>4, <1>5 DEF Exchanged

\* The entry of a dog is its own.
LEMMA EntrySame ==
    ASSUME MainTypeOK, NEW d \in Dogs, NEW e, NEW l,
           UNCHANGED mainVars \/ SetLevel(e, l)
    PROVE  SameEntry(d)
<1>1. CASE UNCHANGED mainVars
  BY <1>1 DEF mainVars, SameEntry
<1>2. CASE SetLevel(e, l)
  BY <1>2 DEF SetLevel, SameEntry, MainTypeOK, PartialMap, DogEntry
<1> QED
  BY <1>1, <1>2

LEMMA EntryAlliance ==
    ASSUME MainTypeOK, RegistryConsistent, NEW d \in Dogs, NEW m, AddAlliance(m)
    PROVE  SameEntry(d)
<1>1. poolCounter + 1 \notin DOMAIN pools /\ poolCounter + 1 # None
  BY MaxPoolsAssumption DEF RegistryConsistent, MainTypeOK, None
<1> QED
  BY <1>1 DEF AddAlliance, Insert, SameEntry

LEMMA EntryOther ==
    ASSUME MainTypeOK, NEW d \in Dogs, NEW e \in Dogs, e # d, NEW p, NEW m,
           \/ JoinPool(e, p) \/ LeavePool(e, p)
           \/ MarkStopped(e) \/ MarkActive(e) \/ RegisterDog(e, m)
    PROVE  SameEntry(d)
<1>1. CASE JoinPool(e, p)
  <2>1. CASE p \notin DOMAIN pools
    BY <1>1, <2>1 DEF JoinPool, SameEntry
  <2>2. CASE p \in DOMAIN pools
    BY <1>1, <2>2 DEF JoinPool, SetMembers, SetAlliance, SameEntry, MainTypeOK, PartialMap,
       DogEntry, PoolInfo
  <2> QED
    BY <2>1, <2>2
<1>2. CASE LeavePool(e, p)
  <2>1. CASE p \notin DOMAIN pools
    BY <1>2, <2>1 DEF LeavePool, SameEntry
  <2>2. CASE p \in DOMAIN pools
    BY <1>2, <2>2 DEF LeavePool, SetMembers, SetAlliance, SameEntry, MainTypeOK, PartialMap,
       DogEntry, PoolInfo
  <2> QED
    BY <2>1, <2>2
<1>3. CASE MarkStopped(e)
  BY <1>3 DEF MarkStopped, SameEntry, MainTypeOK, PartialMap, DogEntry, PoolInfo
<1>4. CASE MarkActive(e)
  BY <1>4 DEF MarkActive, SameEntry, MainTypeOK, PartialMap, DogEntry
<1>5. CASE RegisterDog(e, m)
  BY <1>5 DEF RegisterDog, Insert, SameEntry
<1> QED
  BY <1>1, <1>2, <1>3, <1>4, <1>5

-----------------------------------------------------------------------------
(* Exchanges that a call opens, carries on and closes.                     *)

LEMMA OtherCall ==
    ASSUME NetTypeOK, NEW s \in AllSlots, NEW c, NEW d, ~Called(s, d),
           c = Idle \/ ~ModeExchange(c, d), calls' = [calls EXCEPT ![s] = c]
    PROVE  SameCalls(d)
<1>1. calls'[s] = c /\ \A t \in AllSlots \ {s} : calls'[t] = calls[t]
  BY DEF NetTypeOK
<1>2. ~Called(s, d)'
  BY <1>1 DEF Called
<1> QED
  BY <1>1, <1>2 DEF SameCalls

LEMMA CallChanged ==
    ASSUME NetTypeOK, NEW s \in AllSlots, NEW c, NEW d, calls' = [calls EXCEPT ![s] = c]
    PROVE  /\ calls'[s] = c
           /\ Called(s, d)' <=> (c # Idle /\ ModeExchange(c, d))
           /\ \A t \in AllSlots \ {s} :
                /\ calls'[t] = calls[t]
                /\ Called(t, d)' <=> Called(t, d)
                /\ \A op : Accepted(t, op, d)' <=> Accepted(t, op, d)
<1>1. calls'[s] = c /\ \A t \in AllSlots \ {s} : calls'[t] = calls[t]
  BY DEF NetTypeOK
<1> QED
  BY <1>1 DEF Called, Accepted, Suspended

\* With no exchange open, the two sides agree.
LEMMA NotBusy ==
    ASSUME NEW d \in Dogs, Exchanged(d), ~Busy(d)
    PROVE  /\ toMain[d] = << >>
           /\ \A st \in MiningState : ~(replies[d][st] > 0)
           /\ \A s \in AllSlots : ~Called(s, d)
           /\ \A s \in AllSlots : ~Accepted(s, "join_alliance", d)
           /\ \A s \in AllSlots : ~Accepted(s, "leave_alliance", d)
<1>1. \A s \in AllSlots : ~Called(s, d)
  BY DEF Busy
<1> QED
  BY <1>1, AcceptedIsCalled DEF Busy

LEMMA QuietAgrees ==
    ASSUME NetTypeOK, NEW d \in Dogs, Exchanged(d), d \in DOMAIN dogsMap,
           \A st \in MiningState : ~(replies[d][st] > 0),
           \A s \in AllSlots : ~Accepted(s, "join_alliance", d),
           \A s \in AllSlots : ~Accepted(s, "leave_alliance", d)
    PROVE  /\ dog[d].state = dogsMap[d].state
           /\ dog[d].alliance = dogsMap[d].alliance
           /\ SoleMember(d)
<1>1. \A st \in MiningState : replies[d][st] = 0
  BY DEF NetTypeOK
<1>2. StatesMatch(d) /\ AlliancesMatch(d) /\ SoleMember(d)
  BY DEF Exchanged
<1> QED
  BY <1>1, <1>2 DEF StatesMatch, AlliancesMatch, MiningState

\* A step after which only call s has an exchange with d open, if any, and
\* no answer is left for either side to apply.
LEMMA OneCall ==
    ASSUME NEW d \in Dogs, NEW s,
           d \in installed', toMain'[d] = << >>, \A st \in MiningState : replies'[d][st] = 0,
           \A t \in AllSlots : Called(t, d)' => t = s,
           \A t \in AllSlots : ~Accepted(t, "join_alliance", d)',
           \A t \in AllSlots : ~Accepted(t, "leave_alliance", d)',
           Underway(d)',
           d \in DOMAIN dogsMap' => /\ dog'[d].state = dogsMap'[d].state
                                    /\ dog'[d].alliance = dogsMap'[d].alliance
                                    /\ SoleMember(d)'
    PROVE  Exchanged(d)'
<1>1. OneExchange(d)'
  <2>1. Len(toMain'[d]) <= 1
    <3>1. Len(<< >>) = 0
      OBVIOUS
    <3> QED
      BY <3>1
  <2> QED
    BY <2>1 DEF OneExchange
<1>2. d \in DOMAIN dogsMap' => StatesMatch(d)' /\ AlliancesMatch(d)'
  BY DEF StatesMatch, AlliancesMatch, MiningState
<1> QED
  BY <1>1, <1>2 DEF Exchanged

\* A call opens an exchange with a dog that has none.
LEMMA OpenExchange ==
    ASSUME NetTypeOK, AllianceListed, NEW d \in Dogs, d \in installed, Exchanged(d), ~Busy(d),
           SameDog(d), SameReports(d), SameEntry(d), NEW s \in AllSlots, NEW c,
           calls' = [calls EXCEPT ![s] = c], c # Idle, c.at = "dog",
           c.op \in {"join_alliance", "leave_alliance", "calc"},
           c.op = "leave_alliance" => dog[d].alliance = c.arg,
           c.op = "calc" => dog[d].state = "ACTIVITY"
    PROVE  Exchanged(d)'
<1>1. /\ calls'[s] = c
      /\ \A t \in AllSlots \ {s} : /\ Called(t, d)' <=> Called(t, d)
                                   /\ \A op : Accepted(t, op, d)' <=> Accepted(t, op, d)
  BY CallChanged
<1>2. /\ toMain[d] = << >>
      /\ \A st \in MiningState : ~(replies[d][st] > 0)
      /\ \A t \in AllSlots : ~Called(t, d)
      /\ \A t \in AllSlots : ~Accepted(t, "join_alliance", d)
      /\ \A t \in AllSlots : ~Accepted(t, "leave_alliance", d)
  BY NotBusy
<1>3. \A st \in MiningState : replies[d][st] = 0
  BY <1>2 DEF NetTypeOK
<1>4. d \in DOMAIN dogsMap => /\ dog[d].state = dogsMap[d].state
                              /\ dog[d].alliance = dogsMap[d].alliance
                              /\ SoleMember(d)
  BY <1>2, QuietAgrees
<1>5. \A t \in AllSlots : Called(t, d)' => t = s
  BY <1>1, <1>2
<1>6. /\ \A t \in AllSlots : ~Accepted(t, "join_alliance", d)'
      /\ \A t \in AllSlots : ~Accepted(t, "leave_alliance", d)'
  <2>1. ~Accepted(s, "join_alliance", d)' /\ ~Accepted(s, "leave_alliance", d)'
    BY <1>1 DEF Accepted, Suspended
  <2> QED
    BY <1>1, <1>2, <2>1
<1>7. Underway(d)'
  BY <1>1, <1>2, <1>5 DEF Underway, SameDog, SameReports
<1>8. d \in DOMAIN dogsMap' => /\ dog'[d].state = dogsMap'[d].state
                               /\ dog'[d].alliance = dogsMap'[d].alliance
                               /\ SoleMember(d)'
  BY <1>4, SameSole DEF SameEntry, SameDog
<1> QED
  BY <1>2, <1>3, <1>5, <1>6, <1>7, <1>8, OneCall DEF SameDog, SameReports

\* calc carries its exchange on until it asks the dog.
LEMMA CarryExchange ==
    ASSUME NetTypeOK, AllianceListed, NEW d \in Dogs, d \in installed, Exchanged(d),
           SameDog(d), SameReports(d), SameEntry(d), NEW s \in AllSlots, NEW c,
           Called(s, d), calls[s].op = "calc", calls' = [calls EXCEPT ![s] = c],
           c # Idle, c.at = "dog", c.op = "calc"
    PROVE  Exchanged(d)'
<1>1. /\ calls'[s] = c
      /\ \A t \in AllSlots \ {s} : /\ Called(t, d)' <=> Called(t, d)
                                   /\ \A op : Accepted(t, op, d)' <=> Accepted(t, op, d)
  BY CallChanged
<1>2. OneExchange(d) /\ Underway(d)
  BY DEF Exchanged
<1>3. /\ toMain[d] = << >>
      /\ \A st \in MiningState : replies[d][st] = 0
      /\ \A t \in AllSlots \ {s} : ~Called(t, d)
      /\ dog[d].state = "ACTIVITY"
  BY <1>2 DEF OneExchange, Underway
<1>4. /\ \A t \in AllSlots : ~Accepted(t, "join_alliance", d)
      /\ \A t \in AllSlots : ~Accepted(t, "leave_alliance", d)
  <2>1. ~Accepted(s, "join_alliance", d) /\ ~Accepted(s, "leave_alliance", d)
    BY DEF Accepted, Suspended
  <2> QED
    BY <1>3, <2>1, AcceptedIsCalled
<1>5. d \in DOMAIN dogsMap => /\ dog[d].state = dogsMap[d].state
                              /\ dog[d].alliance = dogsMap[d].alliance
                              /\ SoleMember(d)
  BY <1>3, <1>4, QuietAgrees
<1>6. \A t \in AllSlots : Called(t, d)' => t = s
  BY <1>1, <1>3
<1>7. /\ \A t \in AllSlots : ~Accepted(t, "join_alliance", d)'
      /\ \A t \in AllSlots : ~Accepted(t, "leave_alliance", d)'
  <2>1. ~Accepted(s, "join_alliance", d)' /\ ~Accepted(s, "leave_alliance", d)'
    BY <1>1 DEF Accepted, Suspended
  <2> QED
    BY <1>1, <1>4, <2>1
<1>8. Underway(d)'
  BY <1>1, <1>3, <1>6 DEF Underway, SameDog, SameReports
<1>9. d \in DOMAIN dogsMap' => /\ dog'[d].state = dogsMap'[d].state
                               /\ dog'[d].alliance = dogsMap'[d].alliance
                               /\ SoleMember(d)'
  BY <1>5, SameSole DEF SameEntry, SameDog
<1> QED
  BY <1>3, <1>6, <1>7, <1>8, <1>9, OneCall DEF SameDog, SameReports

\* A call closes its exchange, and leaves the two sides in agreement.
LEMMA CloseExchange ==
    ASSUME NetTypeOK, NEW d \in Dogs, d \in installed, Exchanged(d),
           SameDog(d), SameReports(d), NEW s \in AllSlots, NEW c, Called(s, d),
           calls' = [calls EXCEPT ![s] = c], c = Idle \/ ~ModeExchange(c, d),
           d \in DOMAIN dogsMap' => /\ dog'[d].state = dogsMap'[d].state
                                    /\ dog'[d].alliance = dogsMap'[d].alliance
                                    /\ SoleMember(d)'
    PROVE  Exchanged(d)'
<1>1. /\ calls'[s] = c
      /\ ~Called(s, d)'
      /\ \A t \in AllSlots \ {s} : /\ Called(t, d)' <=> Called(t, d)
                                   /\ \A op : Accepted(t, op, d)' <=> Accepted(t, op, d)
  BY CallChanged
<1>2. OneExchange(d)
  BY DEF Exchanged
<1>3. /\ toMain[d] = << >>
      /\ \A st \in MiningState : replies[d][st] = 0
      /\ \A t \in AllSlots \ {s} : ~Called(t, d)
  BY <1>2 DEF OneExchange
<1>4. \A t \in AllSlots : ~Called(t, d)'
  BY <1>1, <1>3
<1>5. /\ \A t \in AllSlots : ~Accepted(t, "join_alliance", d)'
      /\ \A t \in AllSlots : ~Accepted(t, "leave_alliance", d)'
  <2>1. ~Accepted(s, "join_alliance", d)' /\ ~Accepted(s, "leave_alliance", d)'
    BY <1>1 DEF Accepted, Suspended, Called, ModeExchange
  <2> QED
    BY <1>1, <1>3, <2>1, AcceptedIsCalled
<1>6. Underway(d)'
  BY <1>3, <1>4 DEF Underway, SameReports
<1> QED
  BY <1>3, <1>4, <1>5, <1>6, OneCall DEF SameDog, SameReports

\* Dog e answers the first request of its queue: a join or a leave that it
\* accepts is left to the main canister to apply.
LEMMA AnswerExchange ==
    ASSUME NetTypeOK, QueueInv, AllianceListed, NEW d \in Dogs, Exchanged(d),
           \A t \in AllSlots : Called(t, d) => d \in installed,
           NEW e \in Dogs, toDog[e] # << >>, NEW a, Reply(e, a),
           UNCHANGED <<mainVars, installed, toMain, replies>>,
           dog'[d].state = dog[d].state,
           NEW c, c = calls[Head(toDog[e]).slot],
           e = d /\ c.op = "calc" => a # "STOP",
           ~(e = d /\ a = "ok" /\ c.op \in {"join_alliance", "leave_alliance"})
                => dog'[d].alliance = dog[d].alliance,
           e = d /\ a = "ok" /\ c.op = "join_alliance"
                => dog[d].alliance = None /\ dog'[d].alliance = c.arg,
           e = d /\ a = "ok" /\ c.op = "leave_alliance" => dog'[d].alliance = None
    PROVE  Exchanged(d)'
<1>0. PICK s \in AllSlots : s = Head(toDog[e]).slot
  BY HeadOfQueue
<1> DEFINE k == [c EXCEPT !.at = "replied", !.reply = a]
<1>1. s \in AllSlots /\ c \in Call /\ c # Idle /\ c.at = "dog" /\ c.dog = e /\ c = calls[s]
  BY <1>0, HeadOfQueue
<1>2. /\ k.op = c.op /\ k.at = "replied" /\ k.dog = e /\ k.arg = c.arg /\ k.todo = c.todo
      /\ k.reply = a /\ k # Idle
  BY <1>1 DEF Call, CallRecord, Idle
<1>3. calls' = [calls EXCEPT ![s] = k]
  BY <1>0, <1>1 DEF Reply, NetTypeOK
<1> HIDE DEF k
<1>4. /\ calls'[s] = k
      /\ Called(s, d)' <=> (k # Idle /\ ModeExchange(k, d))
      /\ \A t \in AllSlots \ {s} : /\ Called(t, d)' <=> Called(t, d)
                                   /\ \A op : Accepted(t, op, d)' <=> Accepted(t, op, d)
  BY <1>1, <1>3, CallChanged
<1>5. Called(s, d) <=> ModeExchange(k, d)
  BY <1>1, <1>2 DEF Called, ModeExchange
<1>6. SameEntry(d) /\ SameReports(d)
  BY DEF SameEntry, SameReports, mainVars
<1>7. CASE ~Called(s, d)
  <2>1. SameCalls(d)
    BY <1>1, <1>3, <1>5, <1>7, OtherCall
  <2>2. ~(e = d /\ c.op \in {"join_alliance", "leave_alliance"})
    BY <1>1, <1>7 DEF Called, ModeExchange
  <2>3. SameDog(d)
    BY <2>2 DEF SameDog
  <2> QED
    BY <1>6, <2>1, <2>3, SameExchange
<1>8. CASE Called(s, d)
  <2>1. OneExchange(d) /\ Underway(d)
    BY DEF Exchanged
  <2>2. /\ toMain[d] = << >>
        /\ \A st \in MiningState : replies[d][st] = 0
        /\ \A t \in AllSlots \ {s} : ~Called(t, d)
    BY <1>1, <1>8, <2>1 DEF OneExchange
  <2>3. /\ \A t \in AllSlots : ~Accepted(t, "join_alliance", d)
        /\ \A t \in AllSlots : ~Accepted(t, "leave_alliance", d)
    <3>1. ~Accepted(s, "join_alliance", d) /\ ~Accepted(s, "leave_alliance", d)
      BY <1>1 DEF Accepted, Suspended
    <3> QED
      BY <2>2, <3>1, AcceptedIsCalled
  <2>4. d \in DOMAIN dogsMap => /\ dog[d].state = dogsMap[d].state
                                /\ dog[d].alliance = dogsMap[d].alliance
                                /\ SoleMember(d)
    BY <2>2, <2>3, QuietAgrees
  <2>5. \A t \in AllSlots : Called(t, d)' => t = s
    BY <1>4, <2>2
  <2>6. /\ \A t \in AllSlots \ {s} : ~Accepted(t, "join_alliance", d)'
        /\ \A t \in AllSlots \ {s} : ~Accepted(t, "leave_alliance", d)'
    BY <1>4, <2>3
  <2>7. Underway(d)'
    <3>1. toMain'[d] = << >>
      BY <2>2
    <3>2. c.op \in {"join_alliance", "leave_alliance", "calc"}
      BY <1>1, <1>8 DEF Called, ModeExchange
    <3>3. c.op = "calc" => dog[d].state = "ACTIVITY"
      BY <1>1, <1>8, <2>1 DEF Underway
    <3> QED
      BY <1>2, <1>4, <2>5, <3>1, <3>2, <3>3 DEF Underway
  <2>8. SoleMember(d)' <=> SoleMember(d)
    BY DEF SoleMember, mainVars
  <2>9. CASE ~(e = d /\ a = "ok" /\ c.op \in {"join_alliance", "leave_alliance"})
    <3>1. ~Accepted(s, "join_alliance", d)' /\ ~Accepted(s, "leave_alliance", d)'
      BY <1>2, <1>4, <2>9 DEF Accepted, Suspended
    <3>2. d \in DOMAIN dogsMap' => /\ dog'[d].state = dogsMap'[d].state
                                   /\ dog'[d].alliance = dogsMap'[d].alliance
                                   /\ SoleMember(d)'
      BY <2>4, <2>8, <2>9 DEF mainVars
    <3>3. /\ \A t \in AllSlots : ~Accepted(t, "join_alliance", d)'
          /\ \A t \in AllSlots : ~Accepted(t, "leave_alliance", d)'
      BY <2>6, <3>1
    <3> QED
      BY <1>1, <1>8, <2>2, <2>5, <2>7, <3>2, <3>3, OneCall
  <2>10. CASE e = d /\ a = "ok" /\ c.op \in {"join_alliance", "leave_alliance"}
    <3>1. OneExchange(d)'
      <4>1. Len(<< >>) = 0
        OBVIOUS
      <4> QED
        BY <2>2, <2>5, <4>1 DEF OneExchange
    <3>2. ASSUME d \in DOMAIN dogsMap PROVE AlliancesMatch(d)'
      <4>1. Accepted(s, c.op, d)'
        BY <1>2, <1>4, <2>10 DEF Accepted, Suspended
      <4>2. CASE c.op = "join_alliance"
        <5>1. ~Accepted(s, "leave_alliance", d)'
          BY <1>2, <1>4, <4>2 DEF Accepted, Suspended
        <5>2. dogsMap'[d].alliance = None /\ dog'[d].alliance = c.arg /\ calls'[s].arg = c.arg
          BY <1>2, <1>4, <2>4, <2>10, <3>2, <4>2 DEF mainVars
        <5>3. \A t \in AllSlots : ~Accepted(t, "leave_alliance", d)'
          BY <2>6, <5>1
        <5>4. \A t \in AllSlots : Accepted(t, "join_alliance", d)' => t = s
          BY <2>6
        <5> QED
          BY <1>1, <2>2, <4>1, <4>2, <5>2, <5>3, <5>4 DEF AlliancesMatch, MiningState
      <4>3. CASE c.op = "leave_alliance"
        <5>1. ~Accepted(s, "join_alliance", d)'
          BY <1>2, <1>4, <4>3 DEF Accepted, Suspended
        <5>2. dogsMap'[d].alliance = c.arg /\ dog'[d].alliance = None /\ calls'[s].arg = c.arg
          BY <1>1, <1>2, <1>4, <1>8, <2>1, <2>4, <2>10, <3>2, <4>3 DEF mainVars, Underway
        <5>3. \A t \in AllSlots : ~Accepted(t, "join_alliance", d)'
          BY <2>6, <5>1
        <5>4. \A t \in AllSlots : Accepted(t, "leave_alliance", d)' => t = s
          BY <2>6
        <5> QED
          BY <1>1, <2>2, <4>1, <4>3, <5>2, <5>3, <5>4 DEF AlliancesMatch, MiningState
      <4> QED
        BY <2>10, <4>2, <4>3
    <3>3. d \in DOMAIN dogsMap => StatesMatch(d)'
      BY <2>2, <2>4 DEF StatesMatch, mainVars
    <3> QED
      BY <1>1, <1>8, <2>4, <2>7, <2>8, <3>1, <3>2, <3>3 DEF Exchanged, mainVars
  <2> QED
    BY <2>9, <2>10
<1> QED
  BY <1>7, <1>8

-----------------------------------------------------------------------------
(* Exchanges that a tick of the dog opens, and their end.                  *)

LEMMA TickExchange ==
    ASSUME NetTypeOK, AllianceListed, NEW d \in Dogs, Exchanged(d), Tick(d), d \notin disturbed'
    PROVE  Exchanged(d)'
<1>1. ~Busy(d)
  BY DEF Tick, DisturbIfBusy
<1>2. /\ toMain[d] = << >>
      /\ \A st \in MiningState : ~(replies[d][st] > 0)
      /\ \A s \in AllSlots : ~Called(s, d)
      /\ \A s \in AllSlots : ~Accepted(s, "join_alliance", d)
      /\ \A s \in AllSlots : ~Accepted(s, "leave_alliance", d)
  BY <1>1, NotBusy
<1>3. PICK st \in MiningState :
            ReportsState(dog[d], st) /\ toMain' = [toMain EXCEPT ![d] = Append(@, st)]
  BY DEF Tick
<1>4. Len(toMain'[d]) = 1 /\ Head(toMain'[d]) = st /\ dog[d].state # st
  <2>1. toMain'[d] = Append(<< >>, st)
    BY <1>2, <1>3 DEF NetTypeOK
  <2>2. Append(<< >>, st) = <<st>> /\ Len(<<st>>) = 1 /\ Head(<<st>>) = st
    OBVIOUS
  <2>3. dog[d].state # st
    BY <1>3 DEF ReportsState
  <2> QED
    BY <2>1, <2>2, <2>3
<1>5. UNCHANGED <<mainVars, installed, dog, calls, replies>>
  BY DEF Tick
<1>6. \A s \in AllSlots : ~Called(s, d)'
  BY <1>2, <1>5 DEF Called
<1>7. OneExchange(d)' /\ Underway(d)'
  BY <1>2, <1>4, <1>5, <1>6 DEF OneExchange, Underway
<1>8. d \in DOMAIN dogsMap => StatesMatch(d)' /\ AlliancesMatch(d)' /\ SoleMember(d)'
  <2>1. d \in DOMAIN dogsMap => StatesMatch(d) /\ AlliancesMatch(d) /\ SoleMember(d)
    BY DEF Exchanged
  <2>2. \A s \in AllSlots :
            /\ Accepted(s, "join_alliance", d)' <=> Accepted(s, "join_alliance", d)
            /\ Accepted(s, "leave_alliance", d)' <=> Accepted(s, "leave_alliance", d)
    BY <1>5 DEF Accepted, Suspended
  <2> QED
    BY <1>5, <2>1, <2>2 DEF StatesMatch, AlliancesMatch, SoleMember, mainVars
<1> QED
  BY <1>5, <1>7, <1>8 DEF Exchanged, Tick, mainVars

\* A report on its way is the only exchange of its dog.
LEMMA OnlyReport ==
    ASSUME NetTypeOK, NEW d \in Dogs, Exchanged(d), toMain[d] # << >>
    PROVE  /\ Tail(toMain[d]) = << >>
           /\ Head(toMain[d]) \in MiningState
           /\ dog[d].state # Head(toMain[d])
           /\ d \in installed
           /\ \A st \in MiningState : replies[d][st] = 0
           /\ \A s \in AllSlots : ~Called(s, d)
           /\ \A s \in AllSlots : ~Accepted(s, "join_alliance", d)
           /\ \A s \in AllSlots : ~Accepted(s, "leave_alliance", d)
           /\ d \in DOMAIN dogsMap => /\ dog[d].state = dogsMap[d].state
                                      /\ dog[d].alliance = dogsMap[d].alliance
                                      /\ SoleMember(d)
<1>1. toMain[d] \in Seq(MiningState)
  BY DEF NetTypeOK
<1>2. OneExchange(d) /\ Underway(d) /\ d \in installed
  BY DEF Exchanged
<1>3. Len(toMain[d]) = 1
  <2>1. Len(toMain[d]) \in Nat \ {0}
    BY <1>1, EmptySeq
  <2>2. Len(toMain[d]) <= 1
    BY <1>2 DEF OneExchange
  <2>3. \A n \in Nat \ {0} : n <= 1 => n = 1
    OBVIOUS
  <2> QED
    BY <2>1, <2>2, <2>3
<1>4. Tail(toMain[d]) = << >> /\ Head(toMain[d]) \in MiningState
  <2>1. /\ Head(toMain[d]) \in MiningState
        /\ Tail(toMain[d]) \in Seq(MiningState)
        /\ Len(Tail(toMain[d])) = 0
    BY <1>1, <1>3, HeadTailProperties
  <2> QED
    BY <2>1, EmptySeq
<1>5. /\ \A st \in MiningState : replies[d][st] = 0
      /\ \A s \in AllSlots : ~Called(s, d)
  BY <1>2 DEF OneExchange, NetTypeOK
<1>6. /\ \A s \in AllSlots : ~Accepted(s, "join_alliance", d)
      /\ \A s \in AllSlots : ~Accepted(s, "leave_alliance", d)
  BY <1>5, AcceptedIsCalled
<1>7. d \in DOMAIN dogsMap => /\ dog[d].state = dogsMap[d].state
                              /\ dog[d].alliance = dogsMap[d].alliance
                              /\ SoleMember(d)
  BY <1>5, <1>6, QuietAgrees
<1> QED
  BY <1>2, <1>4, <1>5, <1>6, <1>7 DEF Underway

LEMMA RejectExchange ==
    ASSUME NetTypeOK, NEW d \in Dogs, Exchanged(d), RejectReport(d)
    PROVE  Exchanged(d)'
<1>1. /\ Tail(toMain[d]) = << >>
      /\ d \in installed
      /\ \A st \in MiningState : replies[d][st] = 0
      /\ \A t \in AllSlots : ~Called(t, d)
      /\ \A t \in AllSlots : ~Accepted(t, "join_alliance", d)
      /\ \A t \in AllSlots : ~Accepted(t, "leave_alliance", d)
      /\ d \in DOMAIN dogsMap => /\ dog[d].state = dogsMap[d].state
                                 /\ dog[d].alliance = dogsMap[d].alliance
                                 /\ SoleMember(d)
  BY OnlyReport DEF RejectReport
<1>2. UNCHANGED <<mainVars, installed, dog, calls, replies>> /\ toMain'[d] = << >>
  BY <1>1 DEF RejectReport, NetTypeOK
<1>3. /\ \A t \in AllSlots : ~Called(t, d)'
      /\ \A t \in AllSlots : ~Accepted(t, "join_alliance", d)'
      /\ \A t \in AllSlots : ~Accepted(t, "leave_alliance", d)'
  BY <1>1, <1>2 DEF Called, Accepted, Suspended
<1>4. Underway(d)'
  BY <1>2, <1>3 DEF Underway
<1>5. SoleMember(d)' <=> SoleMember(d)
  BY <1>2 DEF SoleMember, mainVars
<1> QED
  BY <1>1, <1>2, <1>3, <1>4, <1>5, OneCall DEF mainVars

\* The main canister applies a report: only its acknowledgement is left.
LEMMA ReportExchange ==
    ASSUME NetTypeOK, MainTypeOK, RegistryConsistent, NEW d \in Dogs, Exchanged(d),
           MainUpdateDogState(d)
    PROVE  Exchanged(d)'
<1> DEFINE st == Head(toMain[d])
<1>1. /\ Tail(toMain[d]) = << >>
      /\ st \in MiningState
      /\ dog[d].state # st
      /\ d \in installed
      /\ \A other \in MiningState : replies[d][other] = 0
      /\ \A t \in AllSlots : ~Called(t, d)
      /\ \A t \in AllSlots : ~Accepted(t, "join_alliance", d)
      /\ \A t \in AllSlots : ~Accepted(t, "leave_alliance", d)
      /\ d \in DOMAIN dogsMap => /\ dog[d].state = dogsMap[d].state
                                 /\ dog[d].alliance = dogsMap[d].alliance
                                 /\ SoleMember(d)
  BY OnlyReport DEF MainUpdateDogState
<1>2. /\ UNCHANGED <<installed, dog, calls>>
      /\ toMain'[d] = << >>
      /\ replies'[d][st] = 1
      /\ \A other \in MiningState \ {st} : replies'[d][other] = 0
  BY <1>1 DEF MainUpdateDogState, NetTypeOK
<1>3. PICK r \in MiningState : r = st
  BY <1>1
<1> HIDE DEF st
<1>4. /\ \A t \in AllSlots : ~Called(t, d)'
      /\ \A t \in AllSlots : ~Accepted(t, "join_alliance", d)'
      /\ \A t \in AllSlots : ~Accepted(t, "leave_alliance", d)'
  BY <1>1, <1>2 DEF Called, Accepted, Suspended
<1>5. OneExchange(d)'
  <2>1. Len(<< >>) = 0
    OBVIOUS
  <2>2. \A other \in MiningState : replies'[d][other] > 0 => other = r
    BY <1>2, <1>3
  <2> QED
    BY <1>2, <1>3, <1>4, <2>1, <2>2 DEF OneExchange
<1>6. Underway(d)'
  BY <1>2, <1>4 DEF Underway
<1>7. ASSUME d \in DOMAIN dogsMap'
      PROVE  StatesMatch(d)' /\ AlliancesMatch(d)' /\ SoleMember(d)'
  <2>1. CASE r = "STOP"
    <3>1. MarkStopped(d)
      BY <1>3, <2>1 DEF MainUpdateDogState, UpdateDogState, st
    <3>2. d \in DOMAIN dogsMap
      BY <1>7, <3>1 DEF MarkStopped
    <3>3. dogsMap'[d].state = "STOP" /\ dogsMap'[d].alliance = None
      BY <3>1, <3>2 DEF MarkStopped, MainTypeOK, PartialMap, DogEntry
    <3>4. StatesMatch(d)'
      BY <1>1, <1>2, <1>3, <2>1, <3>3 DEF StatesMatch, MiningState
    <3>5. AlliancesMatch(d)'
      BY <1>2, <1>3, <1>4, <2>1, <3>3 DEF AlliancesMatch, MiningState
    <3>6. SoleMember(d)'
      <4>1. DOMAIN pools' = DOMAIN pools
        BY <3>1, <3>2 DEF MarkStopped
      <4>2. ASSUME NEW p \in DOMAIN pools PROVE d \notin pools'[p].dogs /\ p # None
        <5>1. p # None
          BY MaxPoolsAssumption DEF RegistryConsistent, MainTypeOK, None
        <5>2. d \in pools[p].dogs <=> dogsMap[d].alliance = p
          BY <1>1, <3>2 DEF SoleMember
        <5>3. pools[p] \in PoolInfo
          BY DEF MainTypeOK, PartialMap
        <5>4. pools'[p] = IF p = dogsMap[d].alliance
                          THEN [pools[p] EXCEPT !.dogs = @ \ {d}] ELSE pools[p]
          BY <3>1, <3>2 DEF MarkStopped
        <5> QED
          BY <5>1, <5>2, <5>3, <5>4 DEF PoolInfo
      <4> QED
        BY <3>3, <4>1, <4>2 DEF SoleMember
    <3> QED
      BY <3>4, <3>5, <3>6
  <2>2. CASE r = "ACTIVITY"
    <3>1. MarkActive(d)
      BY <1>3, <2>2 DEF MainUpdateDogState, UpdateDogState, st
    <3>2. d \in DOMAIN dogsMap
      BY <1>7, <3>1 DEF MarkActive
    <3>3. /\ dogsMap'[d].state = "ACTIVITY"
          /\ dogsMap'[d].alliance = dogsMap[d].alliance
          /\ pools' = pools
      BY <3>1, <3>2 DEF MarkActive, MainTypeOK, PartialMap, DogEntry
    <3>4. StatesMatch(d)'
      BY <1>1, <1>2, <1>3, <2>2, <3>3 DEF StatesMatch, MiningState
    <3>5. AlliancesMatch(d)'
      <4>1. dog'[d].alliance = dogsMap'[d].alliance
        BY <1>1, <1>2, <3>2, <3>3
      <4>2. replies'[d]["STOP"] = 0
        BY <1>2, <1>3, <2>2 DEF MiningState
      <4> QED
        BY <1>4, <4>1, <4>2 DEF AlliancesMatch
    <3>6. SoleMember(d)'
      BY <1>1, <3>2, <3>3 DEF SoleMember
    <3> QED
      BY <3>4, <3>5, <3>6
  <2> QED
    BY <2>1, <2>2 DEF MiningState
<1> QED
  BY <1>1, <1>2, <1>5, <1>6, <1>7 DEF Exchanged

\* The dog applies the acknowledgement.
LEMMA AcknowledgedExchange ==
    ASSUME NetTypeOK, DogTypeOK, ActiveHasTimers, NEW d \in Dogs, Exchanged(d),
           NEW st \in MiningState, ReportAcknowledged(d, st)
    PROVE  Exchanged(d)'
<1>1. OneExchange(d) /\ d \in installed
  BY DEF Exchanged, ReportAcknowledged
<1>2. /\ replies[d][st] = 1
      /\ toMain[d] = << >>
      /\ \A other \in MiningState \ {st} : replies[d][other] = 0
      /\ \A t \in AllSlots : ~Called(t, d)
  BY <1>1 DEF OneExchange, ReportAcknowledged
<1>3. /\ \A t \in AllSlots : ~Accepted(t, "join_alliance", d)
      /\ \A t \in AllSlots : ~Accepted(t, "leave_alliance", d)
  BY <1>2, AcceptedIsCalled
<1>4. /\ UNCHANGED <<mainVars, installed, calls, toMain>>
      /\ \A other \in MiningState : replies'[d][other] = 0
      /\ dog'[d] = ApplyReport(dog[d], st)
  BY <1>2 DEF ReportAcknowledged, NetTypeOK, DogTypeOK
<1>5. /\ \A t \in AllSlots : ~Called(t, d)'
      /\ \A t \in AllSlots : ~Accepted(t, "join_alliance", d)'
      /\ \A t \in AllSlots : ~Accepted(t, "leave_alliance", d)'
  BY <1>2, <1>3, <1>4 DEF Called, Accepted, Suspended
<1>6. Underway(d)'
  BY <1>2, <1>4, <1>5 DEF Underway
<1>7. ASSUME d \in DOMAIN dogsMap
      PROVE  /\ dog'[d].state = dogsMap'[d].state
             /\ dog'[d].alliance = dogsMap'[d].alliance
             /\ SoleMember(d)'
  <2>1. StatesMatch(d) /\ AlliancesMatch(d) /\ SoleMember(d)
    BY <1>7 DEF Exchanged
  <2>2. /\ dogsMap[d].state = st /\ dog[d].state # st
        /\ dogsMap' = dogsMap /\ SoleMember(d)'
    BY <1>2, <1>4, <2>1 DEF StatesMatch, SoleMember, mainVars
  <2>3. dog[d] \in DogContext
    BY DEF DogTypeOK
  <2>4. CASE st = "STOP"
    <3>1. dogsMap[d].alliance = None
      BY <1>2, <2>1, <2>4 DEF AlliancesMatch
    <3>2. dog[d].timers
      BY <2>2, <2>3, <2>4 DEF DogContext, MiningState, ActiveHasTimers
    <3> QED
      BY <1>4, <2>2, <2>3, <2>4, <3>1, <3>2 DEF ApplyReport, StopTimer, DogContext
  <2>5. CASE st = "ACTIVITY"
    <3>1. dog[d].alliance = dogsMap[d].alliance
      BY <1>2, <1>3, <2>1, <2>5 DEF AlliancesMatch, MiningState
    <3> QED
      BY <1>4, <2>2, <2>3, <2>5, <3>1 DEF ApplyReport, StartTimer, DogContext
  <2> QED
    BY <2>4, <2>5 DEF MiningState
<1> QED
  BY <1>1, <1>2, <1>4, <1>5, <1>6, <1>7, OneCall DEF mainVars

-----------------------------------------------------------------------------
(* The handlers of the main canister.                                      *)

LEMMA CalledInstalled ==
    ASSUME Inductive, NEW s \in AllSlots, NEW d, Called(s, d)
    PROVE  d \in installed
<1>1. CASE calls[s].op = "create_dog"
  BY <1>1 DEF Called, ModeExchange, Inductive, CreationInv, Suspended
<1>2. CASE calls[s].op # "create_dog"
  <2>1. d \in DOMAIN dogsMap
    BY <1>2 DEF Called, ModeExchange, Inductive, CreationInv
  <2> QED
    BY <2>1 DEF Inductive, RegistryConsistent
<1> QED
  BY <1>1, <1>2

\* Where the answer has changed nothing yet, the two sides agree.
LEMMA UnacceptedAgrees ==
    ASSUME NetTypeOK, NEW d \in Dogs, Exchanged(d), NEW s \in AllSlots, Called(s, d),
           ~Accepted(s, "join_alliance", d), ~Accepted(s, "leave_alliance", d),
           d \in DOMAIN dogsMap
    PROVE  /\ dog[d].state = dogsMap[d].state
           /\ dog[d].alliance = dogsMap[d].alliance
           /\ SoleMember(d)
<1>1. OneExchange(d)
  BY DEF Exchanged
<1>2. /\ \A st \in MiningState : ~(replies[d][st] > 0)
      /\ \A t \in AllSlots \ {s} : ~Called(t, d)
  BY <1>1 DEF OneExchange
<1>3. /\ \A t \in AllSlots : ~Accepted(t, "join_alliance", d)
      /\ \A t \in AllSlots : ~Accepted(t, "leave_alliance", d)
  BY <1>2, AcceptedIsCalled
<1> QED
  BY <1>2, <1>3, QuietAgrees

\* A call of another dog, or one that exchanges no mode.
LEMMA UnconcernedExchange ==
    ASSUME Inductive, ModeInv, NEW d \in Dogs, Exchanged(d), NEW s \in AllSlots, NEW c,
           ~Called(s, d), c = Idle \/ ~ModeExchange(c, d), calls' = [calls EXCEPT ![s] = c],
           SameDog(d), SameReports(d), SameEntry(d)
    PROVE  Exchanged(d)'
<1>1. SameCalls(d)
  BY OtherCall DEF Inductive, TypeOK
<1> QED
  BY <1>1, SameExchange DEF ModeInv

LEMMA LeaveExchange ==
    ASSUME Inductive, ModeInv, NEW d \in Dogs, d \notin disturbed', Exchanged(d),
           NEW s \in Slots, NEW e \in Dogs, NEW p \in PoolIds, LeaveAlliance(s, e, p)
    PROVE  Exchanged(d)'
<1> DEFINE c == [NewCall("leave_alliance") EXCEPT !.at = "dog", !.dog = e, !.arg = p]
<1>1. /\ calls' = [calls EXCEPT ![s] = c] /\ calls[s] = Idle
      /\ UNCHANGED <<mainVars, installed, dog, toMain, replies>>
  BY DEF LeaveAlliance, Begin
<1>2. SameDog(d) /\ SameReports(d) /\ SameEntry(d)
  BY <1>1, EntrySame DEF SameDog, SameReports, Inductive, TypeOK
<1>3. /\ c.op = "leave_alliance" /\ c.at = "dog" /\ c.dog = e /\ c.arg = p /\ c.todo = {}
      /\ c # Idle
  BY DEF NewCall, Idle
<1> HIDE DEF c
<1>4. CASE e # d
  <2>1. ~ModeExchange(c, d) /\ ~Called(s, d)
    BY <1>1, <1>3, <1>4 DEF ModeExchange, Called
  <2> QED
    BY <1>1, <1>2, <2>1, UnconcernedExchange
<1>5. CASE e = d
  <2>1. ~Busy(d)
    BY <1>5 DEF LeaveAlliance, DisturbIfBusy
  <2>2. d \in DOMAIN dogsMap /\ d \in installed /\ p \in DOMAIN pools /\ d \in pools[p].dogs
    BY <1>5 DEF LeaveAlliance, Inductive, RegistryConsistent
  <2>3. dog[d].alliance = dogsMap[d].alliance /\ SoleMember(d)
    BY <2>1, <2>2, NotBusy, QuietAgrees DEF Inductive, TypeOK
  <2>4. dog[d].alliance = p
    BY <2>2, <2>3 DEF SoleMember
  <2> QED
    BY <1>1, <1>2, <1>3, <2>1, <2>2, <2>4, OpenExchange DEF Inductive, TypeOK, ModeInv
<1> QED
  BY <1>4, <1>5

LEMMA JoinExchange ==
    ASSUME Inductive, ModeInv, NEW d \in Dogs, d \notin disturbed', Exchanged(d),
           NEW s \in Slots, JoinAlliancePaid(s)
    PROVE  Exchanged(d)'
<1> DEFINE c == [calls[s] EXCEPT !.at = "dog"]
<1>1. /\ calls' = [calls EXCEPT ![s] = c]
      /\ UNCHANGED <<mainVars, installed, dog, toMain, replies>>
      /\ calls[s] # Idle /\ calls[s].op = "join_alliance" /\ calls[s].at = "ledger"
  BY DEF JoinAlliancePaid, Suspended, Inductive, TypeOK, NetTypeOK
<1>2. SameDog(d) /\ SameReports(d) /\ SameEntry(d)
  BY <1>1, EntrySame DEF SameDog, SameReports, Inductive, TypeOK
<1>3. c.op = "join_alliance" /\ c.at = "dog" /\ c.dog = calls[s].dog /\ c # Idle
  <2>1. calls[s] \in Call
    BY <1>1, SuspendedType DEF Inductive, TypeOK
  <2> QED
    BY <1>1, <2>1 DEF Call, CallRecord, Idle
<1> HIDE DEF c
<1>4. ~Called(s, d)
  BY <1>1 DEF Called, ModeExchange
<1>5. CASE calls[s].dog = d
  <2>1. ~Busy(d)
    BY <1>5 DEF JoinAlliancePaid, DisturbIfBusy
  <2>2. d \in installed
    BY <1>1, <1>5 DEF Inductive, CreationInv, RegistryConsistent
  <2> QED
    BY <1>1, <1>2, <1>3, <2>1, <2>2, OpenExchange DEF Inductive, TypeOK, ModeInv
<1>6. CASE calls[s].dog # d
  <2>1. ~ModeExchange(c, d)
    BY <1>3, <1>6 DEF ModeExchange
  <2> QED
    BY <1>1, <1>2, <1>4, <2>1, UnconcernedExchange
<1> QED
  BY <1>5, <1>6

LEMMA InstallExchange ==
    ASSUME Inductive, ModeInv, NEW d \in Dogs, Exchanged(d), NEW s \in Slots, InstallDog(s)
    PROVE  Exchanged(d)'
<1>1. PICK e \in Dogs \ installed :
            /\ installed' = installed \cup {e}
            /\ dog' = [dog EXCEPT ![e] = NewDog]
            /\ calls' = [calls EXCEPT ![s].at = "install", ![s].dog = e]
  BY DEF InstallDog
<1> DEFINE c == [calls[s] EXCEPT !.at = "install", !.dog = e]
<1>2. /\ calls' = [calls EXCEPT ![s] = c]
      /\ UNCHANGED <<mainVars, toMain, replies>>
      /\ calls[s] # Idle /\ calls[s].op = "create_dog" /\ calls[s].at = "ledger"
  BY <1>1 DEF InstallDog, Suspended, Inductive, TypeOK, NetTypeOK
<1>3. c.op = "create_dog" /\ c.at = "install" /\ c.dog = e /\ c # Idle
  <2>1. calls[s] \in Call
    BY <1>2, SuspendedType DEF Inductive, TypeOK
  <2> QED
    BY <1>2, <2>1 DEF Call, CallRecord, Idle
<1> HIDE DEF c
<1>4. SameReports(d) /\ SameEntry(d)
  BY <1>2, EntrySame DEF SameReports, Inductive, TypeOK
<1>5. CASE e # d
  <2>1. ~Called(s, d) /\ ~ModeExchange(c, d)
    BY <1>2, <1>3, <1>5 DEF Called, ModeExchange
  <2>2. SameDog(d)
    BY <1>1, <1>5 DEF SameDog, Inductive, TypeOK, DogTypeOK
  <2> QED
    BY <1>2, <1>4, <2>1, <2>2, UnconcernedExchange
<1>6. CASE e = d
  <2>1. toMain[d] = << >> /\ \A st \in MiningState : replies[d][st] = 0
    BY <1>1, <1>6 DEF Exchanged
  <2>2. d \notin DOMAIN dogsMap' /\ d \in installed'
    BY <1>1, <1>2, <1>6 DEF Inductive, RegistryConsistent, mainVars
  <2>3. \A t \in AllSlots : ~Called(t, d)
    BY <1>1, <1>6, CalledInstalled
  <2>4. /\ calls'[s] = c
        /\ \A t \in AllSlots \ {s} : /\ Called(t, d)' <=> Called(t, d)
                                     /\ \A op : Accepted(t, op, d)' <=> Accepted(t, op, d)
    BY <1>2, CallChanged DEF Inductive, TypeOK
  <2>5. /\ \A t \in AllSlots : ~Accepted(t, "join_alliance", d)'
        /\ \A t \in AllSlots : ~Accepted(t, "leave_alliance", d)'
    <3>1. ~Accepted(s, "join_alliance", d)' /\ ~Accepted(s, "leave_alliance", d)'
      BY <1>3, <2>4 DEF Accepted, Suspended
    <3> QED
      BY <2>3, <2>4, <3>1, AcceptedIsCalled
  <2>6. \A t \in AllSlots : Called(t, d)' => t = s
    BY <2>3, <2>4
  <2>7. dog'[d].state = "ACTIVITY" /\ dog'[d].alliance = None
    BY <1>1, <1>6 DEF NewDog, Inductive, TypeOK, DogTypeOK
  <2>8. Underway(d)'
    <3>1. toMain'[d] = << >>
      BY <1>2, <2>1
    <3> QED
      BY <1>3, <2>4, <2>6, <2>7, <3>1 DEF Underway
  <2> QED
    BY <1>2, <2>1, <2>2, <2>5, <2>6, <2>8, OneCall
<1> QED
  BY <1>5, <1>6

LEMMA CreateReplyExchange ==
    ASSUME Inductive, ModeInv, NEW d \in Dogs, Exchanged(d), NEW s \in Slots, CreateDogReply(s)
    PROVE  Exchanged(d)'
<1>1. /\ calls' = [calls EXCEPT ![s] = Idle]
      /\ UNCHANGED <<installed, dog, toMain, replies>>
      /\ calls[s] # Idle /\ calls[s].op = "create_dog" /\ calls[s].at = "install"
      /\ RegisterDog(calls[s].dog, calls[s].miner)
  BY DEF CreateDogReply, Suspended, End
<1>2. calls[s].dog \in Dogs /\ calls[s].dog \in installed \ DOMAIN dogsMap
  <2>1. calls[s] \in Call
    BY <1>1, SuspendedType DEF Inductive, TypeOK
  <2> QED
    BY <1>1, <2>1 DEF Inductive, CreationInv, Suspended, Call, CallRecord, CallOK
<1>3. SameDog(d) /\ SameReports(d)
  BY <1>1 DEF SameDog, SameReports
<1>4. CASE calls[s].dog # d
  <2>1. SameEntry(d)
    BY <1>1, <1>2, <1>4, EntryOther DEF Inductive, TypeOK
  <2>2. ~Called(s, d)
    BY <1>1, <1>4 DEF Called, ModeExchange
  <2> QED
    BY <1>1, <1>3, <2>1, <2>2, UnconcernedExchange
<1>5. CASE calls[s].dog = d
  <2>1. Called(s, d)
    BY <1>1, <1>5 DEF Called, ModeExchange
  <2>2. dog[d].state = "ACTIVITY" /\ dog[d].alliance = None
    BY <1>1, <2>1 DEF Exchanged, Underway
  <2>3. dogsMap'[d].state = "ACTIVITY" /\ dogsMap'[d].alliance = None
    BY <1>1, <1>5 DEF RegisterDog, Insert
  <2>4. SoleMember(d)'
    <3>1. pools' = pools
      BY <1>1 DEF RegisterDog
    <3>2. \A p \in DOMAIN pools : d \notin pools[p].dogs /\ p # None
      BY <1>2, <1>5, MaxPoolsAssumption DEF Inductive, RegistryConsistent, TypeOK, MainTypeOK, None
    <3> QED
      BY <2>3, <3>1, <3>2 DEF SoleMember
  <2> QED
    BY <1>1, <1>2, <1>3, <1>5, <2>1, <2>2, <2>3, <2>4, CloseExchange DEF Inductive, TypeOK
<1> QED
  BY <1>4, <1>5

LEMMA JoinReplyExchange ==
    ASSUME Inductive, ModeInv, NEW d \in Dogs, d \notin disturbed', Exchanged(d),
           NEW s \in Slots, JoinAllianceReply(s)
    PROVE  Exchanged(d)'
<1> DEFINE c == calls[s]
<1>1. /\ calls' = [calls EXCEPT ![s] = Idle]
      /\ UNCHANGED <<installed, dog, toMain, replies>>
      /\ c # Idle /\ c.op = "join_alliance" /\ c.at = "replied"
      /\ c.reply = "ok" => /\ JoinPool(c.dog, c.arg)
                           /\ c.arg \in DOMAIN pools \/ c.dog \in disturbed'
      /\ c.reply # "ok" => UNCHANGED mainVars
  BY DEF JoinAllianceReply, Suspended, End
<1>2. c.dog \in Dogs /\ c.dog \in DOMAIN dogsMap /\ c.dog \in installed
  <2>1. c \in Call
    BY <1>1, SuspendedType DEF Inductive, TypeOK
  <2> QED
    BY <1>1, <2>1 DEF Inductive, CreationInv, RegistryConsistent, Call, CallRecord, CallOK
<1>3. SameDog(d) /\ SameReports(d)
  BY <1>1 DEF SameDog, SameReports
<1>4. CASE c.dog # d
  <2>1. SameEntry(d)
    BY <1>1, <1>2, <1>4, EntryOther, EntrySame DEF Inductive, TypeOK
  <2>2. ~Called(s, d)
    BY <1>1, <1>4 DEF Called, ModeExchange
  <2> QED
    BY <1>1, <1>3, <2>1, <2>2, UnconcernedExchange
<1>5. CASE c.dog = d
  <2>1. Called(s, d)
    BY <1>1, <1>5 DEF Called, ModeExchange
  <2>2. ~Accepted(s, "leave_alliance", d)
    BY <1>1 DEF Accepted, Suspended
  <2>3. CASE c.reply # "ok"
    <3>1. ~Accepted(s, "join_alliance", d)
      BY <2>3 DEF Accepted
    <3>2. /\ dog[d].state = dogsMap[d].state
          /\ dog[d].alliance = dogsMap[d].alliance
          /\ SoleMember(d)
      BY <1>2, <1>5, <2>1, <2>2, <3>1, UnacceptedAgrees DEF Inductive, TypeOK
    <3>3. /\ dog'[d].state = dogsMap'[d].state
          /\ dog'[d].alliance = dogsMap'[d].alliance
          /\ SoleMember(d)'
      BY <1>1, <2>3, <3>2 DEF mainVars, SoleMember
    <3> QED
      BY <1>1, <1>2, <1>3, <1>5, <2>1, <3>3, CloseExchange DEF Inductive, TypeOK
  <2>4. CASE c.reply = "ok"
    <3>1. Accepted(s, "join_alliance", d)
      BY <1>1, <1>5, <2>4 DEF Accepted, Suspended
    <3>2. /\ StatesMatch(d) /\ AlliancesMatch(d) /\ SoleMember(d)
          /\ \A st \in MiningState : replies[d][st] = 0
      BY <1>2, <1>5, <2>1 DEF Exchanged, OneExchange
    <3>3. /\ dog[d].state = dogsMap[d].state
          /\ dogsMap[d].alliance = None /\ dog[d].alliance = c.arg
      BY <3>1, <3>2 DEF StatesMatch, AlliancesMatch
    <3>4. JoinPool(d, c.arg) /\ c.arg \in DOMAIN pools
      BY <1>1, <1>5, <2>4
    <3>5. dogsMap'[d].state = dogsMap[d].state /\ dogsMap'[d].alliance = c.arg
      <4>1. SetAlliance(d, "POOL", c.arg) /\ d \in DOMAIN dogsMap
        BY <1>2, <1>5, <3>4 DEF JoinPool
      <4>2. dogsMap[d] \in DogEntry
        BY <4>1 DEF Inductive, TypeOK, MainTypeOK, PartialMap
      <4>3. dogsMap'[d] = [dogsMap[d] EXCEPT !.type = "POOL", !.alliance = c.arg]
        BY <4>1 DEF SetAlliance
      <4> HIDE DEF c
      <4> QED
        BY <4>2, <4>3 DEF DogEntry
    <3>6. SoleMember(d)'
      <4>1. \A p \in DOMAIN pools : d \notin pools[p].dogs
        BY <3>2, <3>3, MaxPoolsAssumption
        DEF SoleMember, Inductive, RegistryConsistent, TypeOK, MainTypeOK, None
      <4>2. /\ DOMAIN pools' = DOMAIN pools
            /\ \A p \in DOMAIN pools : d \in pools'[p].dogs <=> p = c.arg
        BY <3>4, <4>1
        DEF JoinPool, SetMembers, Inductive, TypeOK, MainTypeOK, PartialMap, PoolInfo
      <4> QED
        BY <3>5, <4>2 DEF SoleMember
    <3> QED
      <4>1. NetTypeOK /\ d \in installed /\ (Idle = Idle \/ ~ModeExchange(Idle, d))
        BY <1>2, <1>5 DEF Inductive, TypeOK
      <4>2. dog'[d].state = dogsMap'[d].state /\ dog'[d].alliance = dogsMap'[d].alliance
        BY <1>1, <3>3, <3>5
      <4> QED
        BY <1>1, <1>3, <2>1, <3>6, <4>1, <4>2, CloseExchange
  <2> QED
    BY <2>3, <2>4
<1> QED
  BY <1>4, <1>5

LEMMA LeaveReplyExchange ==
    ASSUME Inductive, ModeInv, NEW d \in Dogs, Exchanged(d),
           NEW s \in Slots, LeaveAllianceReply(s)
    PROVE  Exchanged(d)'
<1> DEFINE c == calls[s]
<1>1. /\ calls' = [calls EXCEPT ![s] = Idle]
      /\ UNCHANGED <<installed, dog, toMain, replies>>
      /\ c # Idle /\ c.op = "leave_alliance" /\ c.at = "replied"
      /\ c.reply = "ok" => LeavePool(c.dog, c.arg)
      /\ c.reply # "ok" => UNCHANGED mainVars
  BY DEF LeaveAllianceReply, Suspended, End
<1>2. /\ c.dog \in Dogs /\ c.dog \in DOMAIN dogsMap /\ c.dog \in installed
      /\ c.arg \in PoolIds
  <2>1. c \in Call
    BY <1>1, SuspendedType DEF Inductive, TypeOK
  <2> QED
    BY <1>1, <2>1 DEF Inductive, CreationInv, RegistryConsistent, Call, CallRecord, CallOK
<1>3. SameDog(d) /\ SameReports(d)
  BY <1>1 DEF SameDog, SameReports
<1>4. CASE c.dog # d
  <2>1. SameEntry(d)
    BY <1>1, <1>2, <1>4, EntryOther, EntrySame DEF Inductive, TypeOK
  <2>2. ~Called(s, d)
    BY <1>1, <1>4 DEF Called, ModeExchange
  <2> QED
    BY <1>1, <1>3, <2>1, <2>2, UnconcernedExchange
<1>5. CASE c.dog = d
  <2>1. Called(s, d)
    BY <1>1, <1>5 DEF Called, ModeExchange
  <2>2. ~Accepted(s, "join_alliance", d)
    BY <1>1 DEF Accepted, Suspended
  <2>3. CASE c.reply # "ok"
    <3>1. ~Accepted(s, "leave_alliance", d)
      BY <2>3 DEF Accepted
    <3>2. /\ dog[d].state = dogsMap[d].state
          /\ dog[d].alliance = dogsMap[d].alliance
          /\ SoleMember(d)
      BY <1>2, <1>5, <2>1, <2>2, <3>1, UnacceptedAgrees DEF Inductive, TypeOK
    <3>3. /\ dog'[d].state = dogsMap'[d].state
          /\ dog'[d].alliance = dogsMap'[d].alliance
          /\ SoleMember(d)'
      BY <1>1, <2>3, <3>2 DEF mainVars, SoleMember
    <3> QED
      BY <1>1, <1>2, <1>3, <1>5, <2>1, <3>3, CloseExchange DEF Inductive, TypeOK
  <2>4. CASE c.reply = "ok"
    <3>1. Accepted(s, "leave_alliance", d)
      BY <1>1, <1>5, <2>4 DEF Accepted, Suspended
    <3>2. /\ StatesMatch(d) /\ AlliancesMatch(d) /\ SoleMember(d)
          /\ \A st \in MiningState : replies[d][st] = 0
      BY <1>2, <1>5, <2>1 DEF Exchanged, OneExchange
    <3>3. /\ dog[d].state = dogsMap[d].state
          /\ dogsMap[d].alliance = c.arg /\ dog[d].alliance = None
      BY <3>1, <3>2 DEF StatesMatch, AlliancesMatch
    <3>4. LeavePool(d, c.arg) /\ c.arg \in DOMAIN pools
      <4>1. c.arg # None
        BY <1>2, MaxPoolsAssumption DEF PoolIds, None
      <4> QED
        BY <1>1, <1>2, <1>5, <2>4, <3>3, <4>1 DEF ModeInv, AllianceListed
    <3>5. dogsMap'[d].state = dogsMap[d].state /\ dogsMap'[d].alliance = None
      <4>1. SetAlliance(d, "ALONE", None) /\ d \in DOMAIN dogsMap
        BY <1>2, <1>5, <3>4 DEF LeavePool
      <4>2. dogsMap[d] \in DogEntry
        BY <4>1 DEF Inductive, TypeOK, MainTypeOK, PartialMap
      <4>3. dogsMap'[d] = [dogsMap[d] EXCEPT !.type = "ALONE", !.alliance = None]
        BY <4>1 DEF SetAlliance
      <4> HIDE DEF c
      <4> QED
        BY <4>2, <4>3 DEF DogEntry
    <3>6. SoleMember(d)'
      <4>1. \A p \in DOMAIN pools : p # None /\ (p # c.arg => d \notin pools[p].dogs)
        BY <3>2, <3>3, MaxPoolsAssumption
        DEF SoleMember, Inductive, RegistryConsistent, TypeOK, MainTypeOK, None
      <4>2. /\ DOMAIN pools' = DOMAIN pools
            /\ \A p \in DOMAIN pools : d \notin pools'[p].dogs
        BY <3>4, <4>1
        DEF LeavePool, SetMembers, Inductive, TypeOK, MainTypeOK, PartialMap, PoolInfo
      <4> QED
        BY <3>5, <4>1, <4>2 DEF SoleMember
    <3> QED
      <4>1. NetTypeOK /\ d \in installed /\ (Idle = Idle \/ ~ModeExchange(Idle, d))
        BY <1>2, <1>5 DEF Inductive, TypeOK
      <4>2. dog'[d].state = dogsMap'[d].state /\ dog'[d].alliance = dogsMap'[d].alliance
        BY <1>1, <3>3, <3>5
      <4> QED
        BY <1>1, <1>3, <2>1, <3>6, <4>1, <4>2, CloseExchange
  <2> QED
    BY <2>3, <2>4
<1> QED
  BY <1>4, <1>5

LEMMA UserExchange ==
    ASSUME Inductive, ModeInv, NEW d \in Dogs, d \notin disturbed', Exchanged(d),
           NEW s \in Slots, UserCall(s) \/ Resume(s)
    PROVE  Exchanged(d)'
<1>0. NetTypeOK /\ MainTypeOK
  BY DEF Inductive, TypeOK
<1>1. ASSUME NEW c, calls' = [calls EXCEPT ![s] = c], ~Called(s, d),
             c = Idle \/ ~ModeExchange(c, d), UNCHANGED <<installed, dog, toMain, replies>>,
             SameEntry(d)
      PROVE  Exchanged(d)'
  <2>1. SameDog(d) /\ SameReports(d)
    BY <1>1 DEF SameDog, SameReports
  <2> QED
    BY <1>1, <2>1, UnconcernedExchange
<1>2. ASSUME NEW m \in Miners, CreateDog(s, m) \/ CreateAlliance(s, m) PROVE Exchanged(d)'
  <2>1. CASE CreateDog(s, m)
    BY <1>0, <1>1, <2>1, EntrySame DEF CreateDog, Begin, NewCall, ModeExchange, Called
  <2>2. CASE CreateAlliance(s, m)
    BY <1>0, <1>1, <2>2, EntrySame DEF CreateAlliance, Begin, NewCall, ModeExchange, Called
  <2> QED
    BY <1>2, <2>1, <2>2
<1>3. ASSUME NEW e \in Dogs, UpgradeDog(s, e) PROVE Exchanged(d)'
  BY <1>0, <1>1, <1>3, EntrySame DEF UpgradeDog, Begin, NewCall, ModeExchange, Called
<1>4. ASSUME NEW e \in Dogs, NEW p \in PoolIds, JoinAlliance(s, e, p) PROVE Exchanged(d)'
  BY <1>0, <1>1, <1>4, EntrySame DEF JoinAlliance, Begin, NewCall, ModeExchange, Called
<1>5. CASE FeeRefused(s)
  <2>1. calls[s].at = "ledger"
    BY <1>5 DEF FeeRefused
  <2>2. ~Called(s, d)
    BY <2>1 DEF Called, ModeExchange
  <2> QED
    BY <1>0, <1>1, <1>5, <2>2, EntrySame DEF FeeRefused, End
<1>6. CASE CreateAlliancePaid(s)
  <2>1. ~Called(s, d)
    BY <1>6 DEF CreateAlliancePaid, Suspended, Called, ModeExchange
  <2>2. SameEntry(d)
    BY <1>0, <1>6, EntryAlliance DEF CreateAlliancePaid, Inductive
  <2> QED
    BY <1>1, <1>6, <2>1, <2>2 DEF CreateAlliancePaid, End
<1>7. CASE UpgradePaid(s)
  <2>1. ~Called(s, d)
    BY <1>7 DEF UpgradePaid, Suspended, Called, ModeExchange
  <2> DEFINE c == [calls[s] EXCEPT !.at = "dog"]
  <2>2. c.op = "dog_level_upgrade" /\ calls' = [calls EXCEPT ![s] = c]
    BY <1>0, <1>7, SuspendedType DEF UpgradePaid, Suspended, NetTypeOK, Call, CallRecord
  <2>3. ~ModeExchange(c, d)
    BY <2>2 DEF ModeExchange
  <2> QED
    BY <1>0, <1>1, <1>7, <2>1, <2>2, <2>3, EntrySame DEF UpgradePaid
<1>8. CASE UpgradeReply(s)
  <2>1. ~Called(s, d)
    BY <1>8 DEF UpgradeReply, Suspended, Called, ModeExchange
  <2>2. SameEntry(d)
    BY <1>0, <1>8, EntrySame DEF UpgradeReply
  <2> QED
    BY <1>1, <1>8, <2>1, <2>2 DEF UpgradeReply, End
<1>9. CASE UserCall(s)
  BY <1>2, <1>3, <1>4, <1>9, LeaveExchange DEF UserCall
<1>10. CASE Resume(s)
  BY <1>5, <1>6, <1>7, <1>8, <1>10, InstallExchange, CreateReplyExchange, JoinExchange,
     JoinReplyExchange, LeaveReplyExchange DEF Resume
<1> QED
  BY <1>9, <1>10

LEMMA CalcExchange ==
    ASSUME Inductive, ModeInv, NEW d \in Dogs, d \notin disturbed', Exchanged(d),
           NEW s \in CalcSlots, Calc(s) \/ CalcReply(s)
    PROVE  Exchanged(d)'
<1>0. NetTypeOK /\ MainTypeOK
  BY DEF Inductive, TypeOK
<1>1. UNCHANGED <<installed, dog, toMain, replies>> /\ SameDog(d) /\ SameReports(d)
  BY DEF Calc, CalcReply, SameDog, SameReports
<1>2. CASE Calc(s)
  <2>1. PICK e \in ActiveDogs :
            calls' = [calls EXCEPT ![s] = [NewCall("calc") EXCEPT
                        !.at = "dog", !.dog = e, !.todo = ActiveDogs \ {e}]]
    BY <1>2 DEF Calc, AskNext
  <2> DEFINE c == [NewCall("calc") EXCEPT !.at = "dog", !.dog = e, !.todo = ActiveDogs \ {e}]
  <2>2. c.op = "calc" /\ c.at = "dog" /\ c.dog = e /\ c.todo = ActiveDogs \ {e} /\ c # Idle
    BY DEF NewCall, Idle
  <2>3. calls' = [calls EXCEPT ![s] = c] /\ calls[s] = Idle
    BY <1>2, <2>1 DEF Calc
  <2> HIDE DEF c
  <2>4. SameEntry(d)
    BY <1>0, <1>2, EntrySame DEF Calc
  <2>5. CASE d \notin ActiveDogs
    <3>1. ~Called(s, d) /\ ~ModeExchange(c, d)
      BY <2>2, <2>3, <2>5 DEF Called, ModeExchange
    <3> QED
      BY <1>1, <2>3, <2>4, <3>1, UnconcernedExchange
  <2>6. CASE d \in ActiveDogs
    <3>1. ~Busy(d)
      BY <1>2, <2>6 DEF Calc, DisturbIfBusy
    <3>2. d \in DOMAIN dogsMap /\ d \in installed /\ dogsMap[d].state = "ACTIVITY"
      BY <2>6 DEF ActiveDogs, Inductive, RegistryConsistent
    <3>3. dog[d].state = "ACTIVITY"
      BY <1>0, <3>1, <3>2, NotBusy, QuietAgrees
    <3> QED
      BY <1>0, <1>1, <2>2, <2>3, <2>4, <3>1, <3>2, <3>3, OpenExchange DEF ModeInv
  <2> QED
    BY <2>5, <2>6
<1>3. CASE CalcReply(s)
  <2> DEFINE c == calls[s]
  <2>1. /\ c # Idle /\ c.op = "calc" /\ c.at = "replied"
        /\ c.reply = "err" => c.dog \in disturbed'
        /\ IF c.reply \in {"STOP", "err"} THEN MarkStopped(c.dog) ELSE UNCHANGED mainVars
    BY <1>3 DEF CalcReply, Suspended
  <2>2. c.dog \in Dogs /\ c.dog \in DOMAIN dogsMap /\ c.dog \in installed
    <3>1. c \in Call
      BY <1>0, <2>1, SuspendedType
    <3> QED
      BY <2>1, <3>1 DEF Inductive, CreationInv, RegistryConsistent, Call, CallRecord, CallOK
  <2>3. PICK k : /\ calls' = [calls EXCEPT ![s] = k]
                 /\ \/ k = Idle /\ c.todo = {}
                    \/ /\ k # Idle /\ k.op = "calc" /\ k.at = "dog"
                       /\ k.dog \in c.todo /\ k.todo = c.todo \ {k.dog}
    <3>1. CASE c.todo = {}
      BY <1>3, <3>1 DEF CalcReply, End
    <3>2. CASE c.todo # {}
      <4>1. PICK e \in c.todo :
                calls' = [calls EXCEPT ![s] = [NewCall("calc") EXCEPT
                            !.at = "dog", !.dog = e, !.todo = c.todo \ {e}]]
        BY <1>3, <3>2 DEF CalcReply, AskNext
      <4> DEFINE k == [NewCall("calc") EXCEPT !.at = "dog", !.dog = e, !.todo = c.todo \ {e}]
      <4>2. k.op = "calc" /\ k.at = "dog" /\ k.dog = e /\ k.todo = c.todo \ {e} /\ k # Idle
        BY DEF NewCall, Idle
      <4>3. calls' = [calls EXCEPT ![s] = k]
        BY <4>1
      <4> HIDE DEF k, c
      <4> QED
        BY <4>2, <4>3
    <3> QED
      BY <3>1, <3>2
  <2> HIDE DEF c
  <2>4. ModeExchange(k, d) /\ k # Idle <=> d \in c.todo
    BY <2>3 DEF ModeExchange, Idle
  <2>5. Called(s, d) <=> d = c.dog \/ d \in c.todo
    BY <2>1 DEF Called, ModeExchange, c
  <2>6. CASE c.dog # d
    <3>1. SameEntry(d)
      BY <1>0, <2>1, <2>2, <2>6, EntryOther, EntrySame
    <3>2. CASE d \in c.todo
      BY <1>0, <1>1, <2>1, <2>3, <2>5, <3>1, <3>2, CarryExchange, CalledInstalled DEF c, ModeInv
    <3>3. CASE d \notin c.todo
      BY <1>1, <2>3, <2>4, <2>5, <2>6, <3>1, <3>3, UnconcernedExchange
    <3> QED
      BY <3>2, <3>3
  <2>7. CASE c.dog = d
    <3>1. Called(s, d)
      BY <2>5, <2>7
    <3>2. c.reply # "STOP" /\ c.reply # "err"
      BY <2>1, <2>7, <3>1 DEF Exchanged, Underway, c
    <3>3. UNCHANGED mainVars /\ SameEntry(d)
      BY <1>0, <2>1, <3>2, EntrySame
    <3>4. CASE d \in c.todo
      BY <1>0, <1>1, <2>1, <2>2, <2>3, <2>7, <3>1, <3>3, <3>4, CarryExchange DEF c, ModeInv
    <3>5. CASE d \notin c.todo
      <4>1. ~Accepted(s, "join_alliance", d) /\ ~Accepted(s, "leave_alliance", d)
        BY <2>1 DEF Accepted, Suspended, c
      <4>2. /\ dog[d].state = dogsMap[d].state
            /\ dog[d].alliance = dogsMap[d].alliance
            /\ SoleMember(d)
        BY <1>0, <2>2, <2>7, <3>1, <4>1, UnacceptedAgrees
      <4>3. /\ dog'[d].state = dogsMap'[d].state
            /\ dog'[d].alliance = dogsMap'[d].alliance
            /\ SoleMember(d)'
        BY <1>1, <3>3, <4>2 DEF mainVars, SoleMember
      <4>4. k = Idle \/ ~ModeExchange(k, d)
        BY <2>4, <3>5
      <4> QED
        BY <1>0, <1>1, <2>2, <2>3, <2>7, <3>1, <4>3, <4>4, CloseExchange
    <3> QED
      BY <3>4, <3>5
  <2> QED
    BY <2>6, <2>7
<1> QED
  BY <1>2, <1>3

LEMMA DogExchange ==
    ASSUME Inductive, ModeInv, RequestInv, NEW d \in Dogs, d \notin disturbed', Exchanged(d),
           NEW e \in Dogs, DogStep(e)
    PROVE  Exchanged(d)'
<1>0. NetTypeOK /\ MainTypeOK /\ DogTypeOK /\ QueueInv /\ RegistryConsistent /\ AllianceListed
  BY DEF Inductive, TypeOK, ModeInv
<1>1. CASE DogHandles(e) \/ RejectRequest(e)
  <2>1. toDog[e] # << >> /\ UNCHANGED <<mainVars, installed, toMain, replies>>
    BY <1>1 DEF DogHandles, DogMiningTypeUpdate, DogLevelUpgrade, DogInfo, RejectRequest
  <2>2. \A t \in AllSlots : Called(t, d) => d \in installed
    BY CalledInstalled
  <2>3. PICK r : r = Head(toDog[e])
    OBVIOUS
  <2>4. PICK c : c = calls[r.slot]
    OBVIOUS
  <2>5. Asks(c, r) /\ c.dog = e /\ c.at = "dog" /\ c # Idle /\ c \in Call /\ r \in Request
    <3>1. /\ r \in Request /\ c \in Call
          /\ r = toDog[e][1] /\ 1 \in 1 .. Len(toDog[e])
          /\ c.dog = e /\ c.at = "dog" /\ c # Idle
      BY <1>0, <2>1, <2>3, <2>4, HeadOfQueue
    <3>2. Asks(c, r)
      BY <2>4, <3>1 DEF RequestInv
    <3> QED
      BY <3>1, <3>2
  <2>6. ASSUME NEW a, Reply(e, a), dog'[d].state = dog[d].state,
               e = d /\ c.op = "calc" => a # "STOP",
               ~(e = d /\ a = "ok" /\ c.op \in {"join_alliance", "leave_alliance"})
                    => dog'[d].alliance = dog[d].alliance,
               e = d /\ a = "ok" /\ c.op = "join_alliance"
                    => dog[d].alliance = None /\ dog'[d].alliance = c.arg,
               e = d /\ a = "ok" /\ c.op = "leave_alliance" => dog'[d].alliance = None
        PROVE  Exchanged(d)'
    BY <1>0, <2>1, <2>2, <2>3, <2>4, <2>6, AnswerExchange
  <2>7. ASSUME Reply(e, "err"), dog' = dog PROVE Exchanged(d)'
    BY <2>6, <2>7
  <2>8. CASE DogMiningTypeUpdate(e)
    <3>1. r.op = "dog_mining_type_update"
      BY <2>3, <2>8 DEF DogMiningTypeUpdate
    <3>2. \/ c.op = "join_alliance" /\ r.type = "POOL" /\ r.arg = c.arg
          \/ c.op = "leave_alliance" /\ r.type = "ALONE" /\ r.arg = None
      BY <2>5, <3>1 DEF Asks, TypeUpdateRequest, LevelRequest, InfoRequest
    <3>3. CASE ~TypeUpdateAllowed(dog[e], r.type, r.arg)
      BY <2>3, <2>7, <2>8, <3>3 DEF DogMiningTypeUpdate
    <3>4. CASE TypeUpdateAllowed(dog[e], r.type, r.arg)
      <4>1. Reply(e, "ok") /\ dog' = [dog EXCEPT ![e] = TypeUpdate(@, r.type, r.arg)]
        BY <2>3, <2>8, <3>4 DEF DogMiningTypeUpdate
      <4>2. dog[e] \in DogContext /\ dog'[e] = TypeUpdate(dog[e], r.type, r.arg)
        BY <1>0, <4>1 DEF DogTypeOK
      <4>3. /\ dog'[e].state = dog[e].state
            /\ dog'[e].alliance = IF r.type = "ALONE" THEN None ELSE r.arg
        BY <4>2 DEF TypeUpdate, DogContext
      <4>4. e # d => dog'[d] = dog[d]
        BY <1>0, <4>1 DEF DogTypeOK
      <4>5. c.op = "join_alliance" => dog[e].alliance = None
        <5>1. c.op = "join_alliance" => c.arg # None
          BY <2>5, MaxPoolsAssumption DEF Call, CallOK, PoolIds, None
        <5> QED
          BY <3>2, <3>4, <5>1 DEF TypeUpdateAllowed
      <4> QED
        BY <2>6, <3>2, <4>1, <4>3, <4>4, <4>5
    <3> QED
      BY <3>3, <3>4
  <2>9. CASE DogLevelUpgrade(e)
    <3>1. r.op = "dog_level_upgrade"
      BY <2>3, <2>9 DEF DogLevelUpgrade
    <3>2. c.op = "dog_level_upgrade"
      BY <2>5, <3>1 DEF Asks, TypeUpdateRequest, LevelRequest, InfoRequest
    <3>3. Reply(e, "ok") /\ dog' = [dog EXCEPT ![e] = LevelUpgrade(@, r.arg)]
      BY <2>3, <2>9 DEF DogLevelUpgrade
    <3>4. dog'[d].state = dog[d].state /\ dog'[d].alliance = dog[d].alliance
      BY <1>0, <3>3 DEF LevelUpgrade, DogTypeOK, DogContext
    <3> QED
      BY <2>6, <3>2, <3>3, <3>4
  <2>10. CASE DogInfo(e)
    <3>1. r.op = "dog_info"
      BY <2>3, <2>10 DEF DogInfo
    <3>2. c.op = "calc"
      BY <2>5, <3>1 DEF Asks, TypeUpdateRequest, LevelRequest, InfoRequest
    <3>3. Reply(e, dog[e].state) /\ dog' = dog
      BY <2>10 DEF DogInfo
    <3>4. e = d => dog[e].state = "ACTIVITY"
      <4>1. PICK s \in AllSlots : s = r.slot
        BY <2>5 DEF Request, RequestRecord
      <4>2. e = d => Called(s, d)
        BY <2>4, <2>5, <3>2, <4>1 DEF Called, ModeExchange
      <4> QED
        BY <2>4, <3>2, <4>1, <4>2 DEF Exchanged, Underway
    <3> QED
      BY <2>6, <3>2, <3>3, <3>4
  <2>11. CASE RejectRequest(e)
    BY <2>7, <2>11 DEF RejectRequest
  <2> QED
    BY <1>1, <2>8, <2>9, <2>10, <2>11 DEF DogHandles
<1>2. ASSUME SameReports(d), SameDog(d), SameEntry(d), calls' = calls PROVE Exchanged(d)'
  <2>1. SameCalls(d)
    BY <1>2 DEF SameCalls
  <2> QED
    BY <1>0, <1>2, <2>1, SameExchange
<1>3. CASE Tick(e) \/ RejectReport(e) \/ MainUpdateDogState(e)
           \/ \E st \in MiningState : ReportAcknowledged(e, st)
  <2>1. CASE e # d
    <3>1. SameReports(d)
      BY <1>0, <1>3, <2>1 DEF Tick, RejectReport, MainUpdateDogState, ReportAcknowledged,
         SameReports, NetTypeOK
    <3>2. SameDog(d) /\ calls' = calls
      BY <1>0, <1>3, <2>1 DEF Tick, RejectReport, MainUpdateDogState, ReportAcknowledged,
         SameDog, DogTypeOK
    <3>3. SameEntry(d)
      <4>1. CASE UNCHANGED mainVars
        BY <1>0, <4>1, EntrySame
      <4>2. CASE MainUpdateDogState(e)
        BY <1>0, <2>1, <4>2, EntryOther DEF MainUpdateDogState, UpdateDogState
      <4> QED
        BY <1>3, <4>1, <4>2 DEF Tick, RejectReport, ReportAcknowledged
    <3> QED
      BY <1>2, <3>1, <3>2, <3>3
  <2>2. CASE e = d
    <3>1. CASE Tick(e)
      BY <1>0, <2>2, <3>1, TickExchange
    <3>2. CASE RejectReport(e)
      BY <1>0, <2>2, <3>2, RejectExchange
    <3>3. CASE MainUpdateDogState(e)
      BY <1>0, <2>2, <3>3, ReportExchange
    <3>4. ASSUME NEW st \in MiningState, ReportAcknowledged(e, st) PROVE Exchanged(d)'
      BY <1>0, <2>2, <3>4, AcknowledgedExchange DEF ModeInv
    <3> QED
      BY <1>3, <3>1, <3>2, <3>3, <3>4
  <2> QED
    BY <2>1, <2>2
<1>4. ASSUME NEW band \in CyclesBand, CyclesChange(e, band) PROVE Exchanged(d)'
  <2>1. dog' = [dog EXCEPT ![e].cycles = band] /\ UNCHANGED <<mainVars, installed, netVars>>
    BY <1>4 DEF CyclesChange
  <2>2. SameReports(d) /\ SameEntry(d) /\ calls' = calls
    BY <1>0, <2>1, EntrySame DEF SameReports, netVars
  <2>3. SameDog(d)
    BY <1>0, <2>1 DEF SameDog, DogTypeOK, DogContext
  <2> QED
    BY <1>2, <2>2, <2>3
<1> QED
  BY <1>1, <1>3, <1>4 DEF DogStep

LEMMA NextExchange ==
    ASSUME Inductive, ModeInv, RequestInv, ExchangeInv, HistoryGrows, [Next]_vars
    PROVE  ExchangeInv'
<1> SUFFICES ASSUME NEW d \in Dogs, d \notin disturbed' PROVE Exchanged(d)'
  BY DEF ExchangeInv
<1>1. Exchanged(d)
  BY DEF ExchangeInv, HistoryGrows
<1>2. ASSUME UNCHANGED vars PROVE Exchanged(d)'
  <2>1. SameCalls(d) /\ SameDog(d) /\ SameReports(d) /\ UNCHANGED mainVars
    BY <1>2 DEF vars, netVars, SameCalls, SameDog, SameReports
  <2>2. SameEntry(d)
    BY <2>1, EntrySame DEF Inductive, TypeOK
  <2> QED
    BY <1>1, <2>1, <2>2, SameExchange DEF ModeInv
<1> QED
  BY <1>1, <1>2, UserExchange, CalcExchange, DogExchange DEF Next

-----------------------------------------------------------------------------
(* The level of a dog.                                                     *)

\* The calls that the level of d depends on.
Levels(s, d) ==
    Upgrades(s, d) \/ (Suspended(s, "create_dog", "install") /\ calls[s].dog = d)

SameLevelCalls(d) ==
    \A s \in AllSlots : calls'[s] = calls[s] \/ (~Levels(s, d) /\ ~Levels(s, d)')

SameLevelEntry(d) ==
    d \in DOMAIN dogsMap' => /\ d \in DOMAIN dogsMap
                             /\ dogsMap'[d].level = dogsMap[d].level

LEMMA SameLevels ==
    ASSUME NEW d \in Dogs, LevelsMatch(d), SameLevelCalls(d), SameLevelEntry(d),
           dog'[d].level = dog[d].level
    PROVE  LevelsMatch(d)'
<1>1. \A s \in AllSlots :
        /\ Upgrades(s, d)' <=> Upgrades(s, d)
        /\ Accepted(s, "dog_level_upgrade", d)' <=> Accepted(s, "dog_level_upgrade", d)
        /\ Accepted(s, "dog_level_upgrade", d) => calls'[s] = calls[s]
        /\ (Suspended(s, "create_dog", "install") /\ calls[s].dog = d)'
            => (Suspended(s, "create_dog", "install") /\ calls[s].dog = d)
  <2> TAKE s \in AllSlots
  <2>1. CASE calls'[s] = calls[s]
    BY <2>1 DEF Upgrades, Accepted, Suspended
  <2>2. CASE ~Levels(s, d) /\ ~Levels(s, d)'
    BY <2>2 DEF Levels, Upgrades, Accepted, Suspended
  <2> QED
    BY <2>1, <2>2 DEF SameLevelCalls
<1> QED
  BY <1>1 DEF LevelsMatch, SameLevelEntry

\* Only a settled upgrade and a registration change the level of an entry.
LEMMA LevelEntry ==
    ASSUME MainTypeOK, NEW d \in Dogs, NEW e, NEW p, NEW m, NEW l,
           \/ UNCHANGED mainVars \/ AddAlliance(m)
           \/ JoinPool(e, p) \/ LeavePool(e, p) \/ MarkStopped(e) \/ MarkActive(e)
           \/ e # d /\ (SetLevel(e, l) \/ RegisterDog(e, m))
    PROVE  SameLevelEntry(d)
<1>1. CASE UNCHANGED mainVars \/ AddAlliance(m)
  BY <1>1 DEF mainVars, AddAlliance, SameLevelEntry
<1>2. CASE JoinPool(e, p) \/ LeavePool(e, p)
  BY <1>2 DEF JoinPool, LeavePool, SetAlliance, SameLevelEntry, MainTypeOK, PartialMap, DogEntry
<1>3. CASE MarkStopped(e) \/ MarkActive(e)
  BY <1>3 DEF MarkStopped, MarkActive, SameLevelEntry, MainTypeOK, PartialMap, DogEntry
<1>4. CASE e # d /\ (SetLevel(e, l) \/ RegisterDog(e, m))
  BY <1>4 DEF SetLevel, RegisterDog, Insert, SameLevelEntry, MainTypeOK, PartialMap, DogEntry
<1> QED
  BY <1>1, <1>2, <1>3, <1>4

\* A step of the one upgrade of d, or of a call while d has none.
LEMMA LevelCall ==
    ASSUME NetTypeOK, NEW d \in Dogs, LevelsMatch(d), NEW s \in AllSlots, NEW c,
           calls' = [calls EXCEPT ![s] = c],
           Upgrades(s, d) \/ \A t \in AllSlots : ~Upgrades(t, d),
           \A t \in AllSlots : (Suspended(t, "create_dog", "install") /\ calls[t].dog = d)'
                                => dog'[d].level = CopperDog,
           Accepted(s, "dog_level_upgrade", d)' => dog'[d].level = c.arg,
           d \in DOMAIN dogsMap' => \/ Accepted(s, "dog_level_upgrade", d)'
                                    \/ dog'[d].level = dogsMap'[d].level
    PROVE  LevelsMatch(d)'
<1>1. calls'[s] = c /\ \A t \in AllSlots \ {s} : calls'[t] = calls[t]
  BY DEF NetTypeOK
<1>2. \A t \in AllSlots \ {s} : ~Upgrades(t, d)
  BY DEF LevelsMatch
<1>3. \A t \in AllSlots \ {s} : ~Upgrades(t, d)' /\ ~Accepted(t, "dog_level_upgrade", d)'
  BY <1>1, <1>2 DEF Upgrades, Accepted, Suspended
<1> QED
  BY <1>1, <1>3 DEF LevelsMatch

\* A registered dog is not being created any more.
LEMMA NotCreated ==
    ASSUME Inductive, NEW d \in DOMAIN dogsMap, NEW s \in AllSlots, NEW c,
           calls' = [calls EXCEPT ![s] = c], c = Idle \/ c.op # "create_dog"
    PROVE  \A t \in AllSlots : ~(Suspended(t, "create_dog", "install") /\ calls[t].dog = d)'
<1>1. calls'[s] = c /\ \A t \in AllSlots \ {s} : calls'[t] = calls[t]
  BY DEF Inductive, TypeOK, NetTypeOK
<1>2. \A t \in AllSlots : ~(Suspended(t, "create_dog", "install") /\ calls[t].dog = d)
  BY DEF Inductive, CreationInv
<1> QED
  BY <1>1, <1>2 DEF Suspended

LEMMA UpgradedIsRegistered ==
    ASSUME Inductive, NEW s \in AllSlots, NEW d, Upgrades(s, d)
    PROVE  d \in DOMAIN dogsMap
BY DEF Upgrades, Inductive, CreationInv

\* Where the upgrade has changed nothing yet, the levels agree.
LEMMA LevelAgrees ==
    ASSUME NEW d \in Dogs, LevelsMatch(d), d \in DOMAIN dogsMap, NEW s \in AllSlots,
           Upgrades(s, d), ~Accepted(s, "dog_level_upgrade", d)
    PROVE  dog[d].level = dogsMap[d].level
<1>1. \A t \in AllSlots : Accepted(t, "dog_level_upgrade", d) => t = s
  BY DEF LevelsMatch, Accepted, Suspended, Upgrades
<1> QED
  BY <1>1 DEF LevelsMatch

LEMMA OtherLevelCall ==
    ASSUME NetTypeOK, NEW d \in Dogs, LevelsMatch(d), NEW s \in AllSlots, NEW c,
           ~Levels(s, d), calls' = [calls EXCEPT ![s] = c],
           c = Idle \/ (/\ ~(c.op = "dog_level_upgrade" /\ c.dog = d)
                       /\ ~(c.op = "create_dog" /\ c.at = "install" /\ c.dog = d)),
           SameLevelEntry(d), dog'[d].level = dog[d].level
    PROVE  LevelsMatch(d)'
<1>1. calls'[s] = c /\ \A t \in AllSlots \ {s} : calls'[t] = calls[t]
  BY DEF NetTypeOK
<1>2. ~Levels(s, d)'
  BY <1>1 DEF Levels, Upgrades, Suspended
<1>3. SameLevelCalls(d)
  BY <1>1, <1>2 DEF SameLevelCalls
<1> QED
  BY <1>3, SameLevels

LEMMA InstallLevels ==
    ASSUME Inductive, NEW d \in Dogs, LevelsMatch(d), NEW s \in Slots, InstallDog(s)
    PROVE  LevelsMatch(d)'
<1>1. PICK e \in Dogs \ installed :
            /\ installed' = installed \cup {e}
            /\ dog' = [dog EXCEPT ![e] = NewDog]
            /\ calls' = [calls EXCEPT ![s].at = "install", ![s].dog = e]
  BY DEF InstallDog
<1> DEFINE c == [calls[s] EXCEPT !.at = "install", !.dog = e]
<1>2. /\ calls' = [calls EXCEPT ![s] = c]
      /\ UNCHANGED mainVars
      /\ calls[s] # Idle /\ calls[s].op = "create_dog" /\ calls[s].at = "ledger"
  BY <1>1 DEF InstallDog, Suspended, Inductive, TypeOK, NetTypeOK
<1>3. c.op = "create_dog" /\ c.at = "install" /\ c.dog = e /\ c # Idle
  <2>1. calls[s] \in Call
    BY <1>2, SuspendedType DEF Inductive, TypeOK
  <2> QED
    BY <1>2, <2>1 DEF Call, CallRecord, Idle
<1> HIDE DEF c
<1>4. NetTypeOK /\ DogTypeOK /\ SameLevelEntry(d)
  BY <1>2, LevelEntry DEF Inductive, TypeOK
<1>5. CASE e # d
  <2>1. dog'[d] = dog[d]
    BY <1>1, <1>4, <1>5 DEF DogTypeOK
  <2>2. ~Levels(s, d)
    BY <1>2 DEF Levels, Upgrades, Suspended
  <2> QED
    BY <1>2, <1>3, <1>4, <1>5, <2>1, <2>2, OtherLevelCall
<1>6. CASE e = d
  <2>1. dog'[d].level = CopperDog
    BY <1>1, <1>4, <1>6 DEF DogTypeOK, NewDog
  <2>2. d \notin DOMAIN dogsMap' /\ d \notin DOMAIN dogsMap
    BY <1>1, <1>2, <1>6 DEF Inductive, RegistryConsistent, mainVars
  <2>3. \A t \in AllSlots : ~Upgrades(t, d)
    BY <2>2, UpgradedIsRegistered
  <2>4. ~Accepted(s, "dog_level_upgrade", d)'
    <3>1. calls'[s] = c
      BY <1>2, <1>4 DEF NetTypeOK
    <3> QED
      BY <1>3, <3>1 DEF Accepted, Suspended
  <2> QED
    BY <1>2, <1>4, <2>1, <2>2, <2>3, <2>4, LevelCall
<1> QED
  BY <1>5, <1>6

LEMMA CreateReplyLevels ==
    ASSUME Inductive, NEW d \in Dogs, LevelsMatch(d), NEW s \in Slots, CreateDogReply(s)
    PROVE  LevelsMatch(d)'
<1>1. /\ calls' = [calls EXCEPT ![s] = Idle]
      /\ UNCHANGED <<installed, dog>>
      /\ calls[s] # Idle /\ calls[s].op = "create_dog" /\ calls[s].at = "install"
      /\ RegisterDog(calls[s].dog, calls[s].miner)
      /\ NetTypeOK /\ MainTypeOK
  BY DEF CreateDogReply, Suspended, End, Inductive, TypeOK
<1>2. CASE calls[s].dog # d
  <2>1. SameLevelEntry(d)
    BY <1>1, <1>2, LevelEntry
  <2>2. ~Levels(s, d)
    BY <1>1, <1>2 DEF Levels, Upgrades, Suspended
  <2> QED
    BY <1>1, <2>1, <2>2, OtherLevelCall
<1>3. CASE calls[s].dog = d
  <2>1. dog[d].level = CopperDog /\ dogsMap'[d].level = CopperDog
    BY <1>1, <1>3 DEF LevelsMatch, Suspended, RegisterDog, Insert
  <2>2. \A t \in AllSlots : ~Upgrades(t, d)
    <3>1. d \notin DOMAIN dogsMap
      BY <1>1, <1>3 DEF Inductive, CreationInv, Suspended
    <3> QED
      BY <3>1, UpgradedIsRegistered
  <2>3. ~Accepted(s, "dog_level_upgrade", d)'
    <3>1. calls'[s] = Idle
      BY <1>1 DEF NetTypeOK
    <3> QED
      BY <3>1 DEF Accepted, Suspended
  <2> QED
    BY <1>1, <2>1, <2>2, <2>3, LevelCall
<1> QED
  BY <1>2, <1>3

LEMMA UpgradeLevels ==
    ASSUME Inductive, NEW d \in Dogs, d \notin disturbed', LevelsMatch(d),
           NEW s \in Slots, NEW e \in Dogs, UpgradeDog(s, e)
    PROVE  LevelsMatch(d)'
<1> DEFINE c == [NewCall("dog_level_upgrade") EXCEPT !.dog = e, !.arg = dogsMap[e].level + 1]
<1>1. /\ calls' = [calls EXCEPT ![s] = c] /\ calls[s] = Idle
      /\ UNCHANGED <<mainVars, installed, dog>>
      /\ e \in DOMAIN dogsMap
      /\ NetTypeOK /\ MainTypeOK
  BY DEF UpgradeDog, Begin, Inductive, TypeOK
<1>2. c.op = "dog_level_upgrade" /\ c.at = "ledger" /\ c.dog = e
  BY DEF NewCall
<1> HIDE DEF c
<1>3. SameLevelEntry(d)
  BY <1>1, LevelEntry
<1>4. CASE e # d
  <2>1. ~Levels(s, d)
    BY <1>1 DEF Levels, Upgrades, Suspended
  <2> QED
    BY <1>1, <1>2, <1>3, <1>4, <2>1, OtherLevelCall
<1>5. CASE e = d
  <2>1. \A t \in AllSlots : ~Upgrades(t, d)
    BY <1>5 DEF UpgradeDog, Upgrading
  <2>2. dog[d].level = dogsMap[d].level
    BY <1>1, <1>5, <2>1 DEF LevelsMatch, Accepted, Suspended, Upgrades
  <2>3. \A t \in AllSlots : ~(Suspended(t, "create_dog", "install") /\ calls[t].dog = d)'
    BY <1>1, <1>2, <1>5, NotCreated
  <2>4. ~Accepted(s, "dog_level_upgrade", d)'
    <3>1. calls'[s] = c
      BY <1>1 DEF NetTypeOK
    <3> QED
      BY <1>2, <3>1 DEF Accepted, Suspended
  <2>5. dog'[d].level = dogsMap'[d].level
    BY <1>1, <2>2 DEF mainVars
  <2> QED
    BY <1>1, <2>1, <2>3, <2>4, <2>5, LevelCall
<1> QED
  BY <1>4, <1>5

\* The upgrade of d gives up or goes on before the dog has answered.
LEMMA UnansweredLevels ==
    ASSUME Inductive, NEW d \in Dogs, LevelsMatch(d), NEW s \in Slots, Upgrades(s, d),
           calls[s].at # "replied", NEW c, c = Idle \/ (c.op # "create_dog" /\ c.at # "replied"),
           calls' = [calls EXCEPT ![s] = c], UNCHANGED <<dog, mainVars>>
    PROVE  LevelsMatch(d)'
<1>1. NetTypeOK /\ d \in DOMAIN dogsMap
  BY UpgradedIsRegistered DEF Inductive, TypeOK
<1>2. dog[d].level = dogsMap[d].level
  BY <1>1, LevelAgrees DEF Accepted, Suspended
<1>3. ~Accepted(s, "dog_level_upgrade", d)'
  <2>1. calls'[s] = c
    BY <1>1 DEF NetTypeOK
  <2> QED
    BY <2>1 DEF Accepted, Suspended
<1>4. \A t \in AllSlots : ~(Suspended(t, "create_dog", "install") /\ calls[t].dog = d)'
  BY <1>1, NotCreated
<1>5. dog'[d].level = dogsMap'[d].level
  BY <1>2 DEF mainVars
<1> QED
  BY <1>1, <1>3, <1>4, <1>5, LevelCall

LEMMA UpgradeReplyLevels ==
    ASSUME Inductive, NEW d \in Dogs, LevelsMatch(d), NEW s \in Slots, UpgradeReply(s)
    PROVE  LevelsMatch(d)'
<1> DEFINE c == calls[s]
<1>1. /\ calls' = [calls EXCEPT ![s] = Idle]
      /\ UNCHANGED <<installed, dog>>
      /\ c # Idle /\ c.op = "dog_level_upgrade" /\ c.at = "replied"
      /\ IF c.reply = "ok" THEN SetLevel(c.dog, c.arg) ELSE UNCHANGED mainVars
      /\ NetTypeOK /\ MainTypeOK
  BY DEF UpgradeReply, Suspended, End, Inductive, TypeOK
<1>2. CASE c.dog # d
  <2>1. SameLevelEntry(d)
    BY <1>1, <1>2, LevelEntry
  <2>2. ~Levels(s, d)
    BY <1>1, <1>2 DEF Levels, Upgrades, Suspended
  <2> QED
    BY <1>1, <2>1, <2>2, OtherLevelCall
<1>3. CASE c.dog = d
  <2>1. Upgrades(s, d)
    BY <1>1, <1>3 DEF Upgrades
  <2>2. d \in DOMAIN dogsMap
    BY <2>1, UpgradedIsRegistered
  <2>3. \A t \in AllSlots : ~(Suspended(t, "create_dog", "install") /\ calls[t].dog = d)'
    BY <1>1, <2>2, NotCreated
  <2>4. ~Accepted(s, "dog_level_upgrade", d)'
    <3>1. calls'[s] = Idle
      BY <1>1 DEF NetTypeOK
    <3> QED
      BY <3>1 DEF Accepted, Suspended
  <2>5. dog[d].level = dogsMap'[d].level
    <3>1. CASE c.reply = "ok"
      <4>1. dog[d].level = c.arg
        BY <1>1, <1>3, <3>1 DEF LevelsMatch, Accepted, Suspended
      <4>2. SetLevel(d, c.arg)
        BY <1>1, <1>3, <3>1
      <4>3. dogsMap[d] \in DogEntry
        BY <1>1, <2>2 DEF MainTypeOK, PartialMap
      <4>4. dogsMap'[d] = [dogsMap[d] EXCEPT !.level = c.arg]
        BY <2>2, <4>2 DEF SetLevel
      <4> HIDE DEF c
      <4> QED
        BY <4>1, <4>3, <4>4 DEF DogEntry
    <3>2. CASE c.reply # "ok"
      <4>1. ~Accepted(s, "dog_level_upgrade", d)
        BY <3>2 DEF Accepted
      <4>2. dog[d].level = dogsMap[d].level
        BY <2>1, <2>2, <4>1, LevelAgrees
      <4> QED
        BY <1>1, <3>2, <4>2 DEF mainVars
    <3> QED
      BY <3>1, <3>2
  <2> QED
    BY <1>1, <2>1, <2>3, <2>4, <2>5, LevelCall
<1> QED
  BY <1>2, <1>3

LEMMA UserLevels ==
    ASSUME Inductive, NEW d \in Dogs, d \notin disturbed', LevelsMatch(d),
           NEW s \in Slots, UserCall(s) \/ Resume(s)
    PROVE  LevelsMatch(d)'
<1>0. NetTypeOK /\ MainTypeOK
  BY DEF Inductive, TypeOK
<1>1. ASSUME NEW c, calls' = [calls EXCEPT ![s] = c], ~Levels(s, d),
             c = Idle \/ (c.op # "create_dog" /\ ~(c.op = "dog_level_upgrade" /\ c.dog = d))
                     \/ (c.op = "create_dog" /\ c.at = "ledger"),
             dog' = dog, SameLevelEntry(d)
      PROVE  LevelsMatch(d)'
  BY <1>0, <1>1, OtherLevelCall
<1>2. ASSUME NEW m \in Miners, CreateDog(s, m) PROVE LevelsMatch(d)'
  BY <1>0, <1>1, <1>2, LevelEntry DEF CreateDog, Begin, NewCall, Levels, Upgrades, Suspended
<1>3. ASSUME NEW m \in Miners, CreateAlliance(s, m) PROVE LevelsMatch(d)'
  BY <1>0, <1>1, <1>3, LevelEntry DEF CreateAlliance, Begin, NewCall, Levels, Upgrades, Suspended
<1>4. ASSUME NEW e \in Dogs, NEW p \in PoolIds, JoinAlliance(s, e, p) PROVE LevelsMatch(d)'
  BY <1>0, <1>1, <1>4, LevelEntry DEF JoinAlliance, Begin, NewCall, Levels, Upgrades, Suspended
<1>5. ASSUME NEW e \in Dogs, NEW p \in PoolIds, LeaveAlliance(s, e, p) PROVE LevelsMatch(d)'
  BY <1>0, <1>1, <1>5, LevelEntry DEF LeaveAlliance, Begin, NewCall, Levels, Upgrades, Suspended
<1>6. CASE FeeRefused(s)
  <2>1. calls' = [calls EXCEPT ![s] = Idle] /\ UNCHANGED <<dog, mainVars>> /\ calls[s].at = "ledger"
    BY <1>6 DEF FeeRefused, End
  <2>2. CASE Upgrades(s, d)
    BY <2>1, <2>2, UnansweredLevels
  <2>3. CASE ~Upgrades(s, d)
    <3>1. ~Levels(s, d)
      BY <2>1, <2>3 DEF Levels, Suspended
    <3> QED
      BY <1>0, <1>1, <2>1, <3>1, LevelEntry
  <2> QED
    BY <2>2, <2>3
<1>7. CASE CreateAlliancePaid(s) \/ JoinAllianceReply(s) \/ LeaveAllianceReply(s)
  <2>1. ~Levels(s, d) /\ calls' = [calls EXCEPT ![s] = Idle] /\ dog' = dog
    BY <1>7 DEF CreateAlliancePaid, JoinAllianceReply, LeaveAllianceReply, Suspended, Levels,
       Upgrades, End
  <2>2. SameLevelEntry(d)
    BY <1>0, <1>7, LevelEntry DEF CreateAlliancePaid, JoinAllianceReply, LeaveAllianceReply
  <2> QED
    BY <1>1, <2>1, <2>2
<1>8. CASE JoinAlliancePaid(s)
  <2> DEFINE c == [calls[s] EXCEPT !.at = "dog"]
  <2>1. calls[s] \in Call /\ calls[s].op = "join_alliance"
    BY <1>0, <1>8, SuspendedType DEF JoinAlliancePaid, Suspended
  <2>2. c.op = "join_alliance" /\ calls' = [calls EXCEPT ![s] = c]
    BY <1>0, <1>8, <2>1 DEF JoinAlliancePaid, NetTypeOK, Call, CallRecord
  <2>3. ~Levels(s, d)
    BY <2>1 DEF Levels, Upgrades, Suspended
  <2> QED
    BY <1>0, <1>1, <1>8, <2>2, <2>3, LevelEntry DEF JoinAlliancePaid
<1>9. CASE UpgradePaid(s)
  <2> DEFINE c == [calls[s] EXCEPT !.at = "dog"]
  <2>1. calls[s] \in Call /\ calls[s] # Idle /\ calls[s].op = "dog_level_upgrade"
        /\ calls[s].at = "ledger"
    BY <1>0, <1>9, SuspendedType DEF UpgradePaid, Suspended
  <2>2. /\ c.op = "dog_level_upgrade" /\ c.at = "dog" /\ c.dog = calls[s].dog
        /\ calls' = [calls EXCEPT ![s] = c]
    BY <1>0, <1>9, <2>1 DEF UpgradePaid, NetTypeOK, Call, CallRecord
  <2>3. UNCHANGED <<dog, mainVars>>
    BY <1>9 DEF UpgradePaid
  <2> HIDE DEF c
  <2>4. CASE Upgrades(s, d)
    BY <2>1, <2>2, <2>3, <2>4, UnansweredLevels
  <2>5. CASE ~Upgrades(s, d)
    <3>1. calls[s].dog # d /\ ~Levels(s, d)
      BY <2>1, <2>5 DEF Upgrades, Levels, Suspended
    <3> QED
      BY <1>0, <1>1, <2>2, <2>3, <3>1, LevelEntry
  <2> QED
    BY <2>4, <2>5
<1>10. CASE UserCall(s)
  BY <1>2, <1>3, <1>4, <1>5, <1>10, UpgradeLevels DEF UserCall
<1>11. CASE Resume(s)
  BY <1>6, <1>7, <1>8, <1>9, <1>11, InstallLevels, CreateReplyLevels, UpgradeReplyLevels
  DEF Resume
<1> QED
  BY <1>10, <1>11

LEMMA CalcLevels ==
    ASSUME Inductive, NEW d \in Dogs, LevelsMatch(d), NEW s \in CalcSlots, Calc(s) \/ CalcReply(s)
    PROVE  LevelsMatch(d)'
<1>0. NetTypeOK /\ MainTypeOK
  BY DEF Inductive, TypeOK
<1>1. dog' = dog /\ ~Levels(s, d)
  BY DEF Calc, CalcReply, Levels, Upgrades, Suspended
<1>2. SameLevelEntry(d)
  BY <1>0, LevelEntry DEF Calc, CalcReply
<1>3. PICK c : calls' = [calls EXCEPT ![s] = c] /\ (c = Idle \/ c.op = "calc")
  <2>1. ASSUME NEW todo, AskNext(s, todo)
        PROVE  \E c : calls' = [calls EXCEPT ![s] = c] /\ c.op = "calc"
    <3>1. PICK e \in todo :
            calls' = [calls EXCEPT ![s] = [NewCall("calc") EXCEPT
                        !.at = "dog", !.dog = e, !.todo = todo \ {e}]]
      BY <2>1 DEF AskNext
    <3> DEFINE c == [NewCall("calc") EXCEPT !.at = "dog", !.dog = e, !.todo = todo \ {e}]
    <3>2. c.op = "calc" /\ calls' = [calls EXCEPT ![s] = c]
      BY <3>1 DEF NewCall
    <3> HIDE DEF c
    <3> QED
      BY <3>2
  <2> QED
    BY <2>1 DEF Calc, CalcReply, End
<1> QED
  BY <1>0, <1>1, <1>2, <1>3, OtherLevelCall

LEMMA DogLevels ==
    ASSUME Inductive, RequestInv, NEW d \in Dogs, LevelsMatch(d), NEW e \in Dogs, DogStep(e)
    PROVE  LevelsMatch(d)'
<1>0. NetTypeOK /\ MainTypeOK /\ DogTypeOK /\ QueueInv
  BY DEF Inductive, TypeOK
<1>1. CASE DogHandles(e) \/ RejectRequest(e)
  <2>1. toDog[e] # << >> /\ UNCHANGED mainVars /\ SameLevelEntry(d)
    <3>1. toDog[e] # << >> /\ UNCHANGED mainVars
      BY <1>1 DEF DogHandles, DogMiningTypeUpdate, DogLevelUpgrade, DogInfo, RejectRequest
    <3> QED
      BY <1>0, <3>1, LevelEntry
  <2>2. PICK r : r = Head(toDog[e])
    OBVIOUS
  <2>3. PICK s \in AllSlots : s = r.slot
    BY <1>0, <2>1, <2>2, HeadOfQueue
  <2>4. PICK c : c = calls[s]
    OBVIOUS
  <2>5. Asks(c, r) /\ c.dog = e /\ c.at = "dog" /\ c # Idle /\ c \in Call
    <3>1. /\ c \in Call
          /\ r = toDog[e][1] /\ 1 \in 1 .. Len(toDog[e])
          /\ c.dog = e /\ c.at = "dog" /\ c # Idle
      BY <1>0, <2>1, <2>2, <2>3, <2>4, HeadOfQueue
    <3>2. Asks(c, r)
      BY <2>3, <2>4, <3>1 DEF RequestInv
    <3> QED
      BY <3>1, <3>2
  <2>6. ASSUME NEW a, Reply(e, a),
               c.op # "dog_level_upgrade" \/ e # d \/ a # "ok" => dog'[d].level = dog[d].level,
               c.op = "dog_level_upgrade" /\ e = d /\ a = "ok" => dog'[d].level = c.arg
        PROVE  LevelsMatch(d)'
    <3> DEFINE k == [c EXCEPT !.at = "replied", !.reply = a]
    <3>1. /\ k.op = c.op /\ k.at = "replied" /\ k.dog = e /\ k.arg = c.arg /\ k.reply = a
          /\ k # Idle
      BY <2>5 DEF Call, CallRecord, Idle
    <3>2. calls' = [calls EXCEPT ![s] = k]
      BY <1>0, <2>2, <2>3, <2>4, <2>6 DEF Reply, NetTypeOK
    <3> HIDE DEF k
    <3>3. CASE ~(c.op = "dog_level_upgrade" /\ e = d)
      <4>1. ~Levels(s, d)
        BY <2>4, <2>5, <3>3 DEF Levels, Upgrades, Suspended
      <4> QED
        BY <1>0, <2>1, <2>6, <3>1, <3>2, <3>3, <4>1, OtherLevelCall
    <3>4. CASE c.op = "dog_level_upgrade" /\ e = d
      <4>1. Upgrades(s, d)
        BY <2>4, <2>5, <3>4 DEF Upgrades
      <4>2. d \in DOMAIN dogsMap
        BY <4>1, UpgradedIsRegistered
      <4>3. dog[d].level = dogsMap[d].level
        BY <2>4, <2>5, <4>1, <4>2, LevelAgrees DEF Accepted, Suspended
      <4>4. \A t \in AllSlots : ~(Suspended(t, "create_dog", "install") /\ calls[t].dog = d)'
        BY <3>1, <3>2, <3>4, <4>2, NotCreated
      <4>5. Accepted(s, "dog_level_upgrade", d)' <=> a = "ok"
        <5>1. calls'[s] = k
          BY <1>0, <3>2 DEF NetTypeOK
        <5> QED
          BY <3>1, <3>4, <5>1 DEF Accepted, Suspended
      <4>6. a = "ok" => dog'[d].level = k.arg
        BY <2>6, <3>1, <3>4
      <4>7. a # "ok" => dog'[d].level = dogsMap'[d].level
        BY <2>1, <2>6, <4>3 DEF mainVars
      <4> QED
        BY <1>0, <3>2, <4>1, <4>4, <4>5, <4>6, <4>7, LevelCall
    <3> QED
      BY <3>3, <3>4
  <2>7. CASE DogMiningTypeUpdate(e)
    <3>1. r.op = "dog_mining_type_update"
      BY <2>2, <2>7 DEF DogMiningTypeUpdate
    <3>2. c.op # "dog_level_upgrade"
      BY <2>5, <3>1 DEF Asks, TypeUpdateRequest, LevelRequest, InfoRequest
    <3>3. dog'[d].level = dog[d].level
      <4>1. dog \in [Dogs -> DogContext]
        BY <1>0 DEF DogTypeOK
      <4>2. dog' = dog \/ dog' = [dog EXCEPT ![e] = TypeUpdate(dog[e], r.type, r.arg)]
        BY <2>2, <2>7 DEF DogMiningTypeUpdate
      <4>3. TypeUpdate(dog[e], r.type, r.arg).level = dog[e].level
        BY <4>1 DEF TypeUpdate, DogContext
      <4> QED
        BY <4>1, <4>2, <4>3
    <3> QED
      BY <2>6, <2>7, <3>2, <3>3 DEF DogMiningTypeUpdate
  <2>8. CASE DogLevelUpgrade(e)
    <3>1. r.op = "dog_level_upgrade"
      BY <2>2, <2>8 DEF DogLevelUpgrade
    <3>2. c.op = "dog_level_upgrade" /\ r.arg = c.arg
      BY <2>5, <3>1 DEF Asks, TypeUpdateRequest, LevelRequest, InfoRequest
    <3>3. Reply(e, "ok") /\ dog' = [dog EXCEPT ![e] = LevelUpgrade(@, r.arg)]
      BY <2>2, <2>8 DEF DogLevelUpgrade
    <3>4. dog'[d].level = IF e = d THEN c.arg ELSE dog[d].level
      BY <1>0, <3>2, <3>3 DEF LevelUpgrade, DogTypeOK, DogContext
    <3> QED
      BY <2>6, <3>2, <3>3, <3>4
  <2>9. CASE DogInfo(e)
    <3>1. r.op = "dog_info"
      BY <2>2, <2>9 DEF DogInfo
    <3>2. c.op # "dog_level_upgrade"
      BY <2>5, <3>1 DEF Asks, TypeUpdateRequest, LevelRequest, InfoRequest
    <3> QED
      BY <2>6, <2>9, <3>2 DEF DogInfo
  <2>10. CASE RejectRequest(e)
    BY <2>6, <2>10 DEF RejectRequest
  <2> QED
    BY <1>1, <2>7, <2>8, <2>9, <2>10 DEF DogHandles
<1>2. ASSUME calls' = calls, dog'[d].level = dog[d].level, SameLevelEntry(d)
      PROVE  LevelsMatch(d)'
  <2>1. SameLevelCalls(d)
    BY <1>2 DEF SameLevelCalls
  <2> QED
    BY <1>2, <2>1, SameLevels
<1>3. CASE Tick(e) \/ RejectReport(e) \/ MainUpdateDogState(e)
  <2>1. SameLevelEntry(d)
    BY <1>0, <1>3, LevelEntry DEF Tick, RejectReport, MainUpdateDogState, UpdateDogState
  <2> QED
    BY <1>2, <1>3, <2>1 DEF Tick, RejectReport, MainUpdateDogState
<1>4. ASSUME NEW st \in MiningState, ReportAcknowledged(e, st) PROVE LevelsMatch(d)'
  <2>1. SameLevelEntry(d) /\ calls' = calls
    BY <1>0, <1>4, LevelEntry DEF ReportAcknowledged
  <2>2. dog'[d].level = dog[d].level
    <3>1. dog[e] \in DogContext /\ dog' = [dog EXCEPT ![e] = ApplyReport(@, st)]
      BY <1>0, <1>4 DEF ReportAcknowledged, DogTypeOK
    <3>2. ApplyReport(dog[e], st).level = dog[e].level
      BY <3>1 DEF ApplyReport, StopTimer, StartTimer, DogContext
    <3> QED
      BY <1>0, <3>1, <3>2 DEF DogTypeOK
  <2> QED
    BY <1>2, <2>1, <2>2
<1>5. ASSUME NEW band \in CyclesBand, CyclesChange(e, band) PROVE LevelsMatch(d)'
  <2>1. SameLevelEntry(d) /\ calls' = calls
    BY <1>0, <1>5, LevelEntry DEF CyclesChange, netVars
  <2>2. dog'[d].level = dog[d].level
    BY <1>0, <1>5 DEF CyclesChange, DogTypeOK, DogContext
  <2> QED
    BY <1>2, <2>1, <2>2
<1> QED
  BY <1>1, <1>3, <1>4, <1>5 DEF DogStep

LEMMA NextLevels ==
    ASSUME Inductive, RequestInv, LevelInv, HistoryGrows, [Next]_vars
    PROVE  LevelInv'
<1> SUFFICES ASSUME NEW d \in Dogs, d \notin disturbed' PROVE LevelsMatch(d)'
  BY DEF LevelInv
<1>1. LevelsMatch(d)
  BY DEF LevelInv, HistoryGrows
<1>2. ASSUME UNCHANGED vars PROVE LevelsMatch(d)'
  <2>1. SameLevelCalls(d) /\ UNCHANGED <<mainVars, dog>>
    BY <1>2 DEF vars, netVars, SameLevelCalls
  <2>2. SameLevelEntry(d)
    BY <2>1, LevelEntry DEF Inductive, TypeOK
  <2> QED
    BY <1>1, <2>1, <2>2, SameLevels
<1> QED
  BY <1>1, <1>2, UserLevels, CalcLevels, DogLevels DEF Next

-----------------------------------------------------------------------------
(* Agreement.                                                              *)

LEMMA InitExchange == Init => ExchangeInv /\ LevelInv
<1> SUFFICES ASSUME Init PROVE ExchangeInv /\ LevelInv
    OBVIOUS
<1>1. /\ \A s \in AllSlots : calls[s] = Idle
      /\ \A d \in Dogs : toMain[d] = << >> /\ \A st \in MiningState : replies[d][st] = 0
      /\ DOMAIN dogsMap = {}
  BY DEF Init, MainInit, EmptyMap
<1>2. Len(<< >>) = 0
  OBVIOUS
<1>3. ExchangeInv
  BY <1>1, <1>2 DEF ExchangeInv, Exchanged, OneExchange, Underway, Called
<1>4. LevelInv
  BY <1>1 DEF LevelInv, LevelsMatch, Upgrades, Suspended, Accepted
<1> QED
  BY <1>3, <1>4

LEMMA Agreement ==
    ASSUME Inductive, ModeInv, ExchangeInv, LevelInv
    PROVE  AgreeUnlessDisturbed
<1> SUFFICES ASSUME NEW d \in DOMAIN dogsMap \ disturbed, ~Busy(d) PROVE Agree(d)
  BY DEF AgreeUnlessDisturbed
<1>1. d \in Dogs /\ dogsMap[d] \in DogEntry /\ dog[d] \in DogContext
  BY DEF Inductive, TypeOK, MainTypeOK, DogTypeOK, PartialMap
<1>2. Exchanged(d) /\ LevelsMatch(d)
  BY <1>1 DEF ExchangeInv, LevelInv
<1>3. /\ dog[d].state = dogsMap[d].state
      /\ dog[d].alliance = dogsMap[d].alliance
      /\ SoleMember(d)
  BY <1>1, <1>2, NotBusy, QuietAgrees DEF Inductive, TypeOK
<1>4. dogsMap[d].type = dog[d].type
  BY <1>1, <1>3 DEF ModeInv, ModeCoherent, DogEntry, DogContext, MiningType
<1>5. Upgrading(d) \/ dogsMap[d].level = dog[d].level
  BY <1>2 DEF LevelsMatch, Accepted, Suspended, Upgrading, Upgrades
<1>6. \A p \in DOMAIN pools : d \in pools[p].dogs <=> dog[d].alliance = p
  BY <1>3 DEF SoleMember
<1> QED
  BY <1>3, <1>4, <1>5, <1>6 DEF Agree

\* As long as the exchanges about a dog neither overlap nor fail, the main
\* canister and the dog come out of each with the same mode, alliance and
\* level, and the dog a member of exactly that alliance, whatever the calls
\* about other dogs do in between and however many there are.
THEOREM AgreementHolds == Spec => []AgreeUnlessDisturbed
<1> DEFINE IInv == Inductive /\ ModeInv /\ RequestInv /\ ExchangeInv /\ LevelInv
<1>1. Spec => [](Inductive /\ ModeInv)
  BY RegistrySafe, ModeSafe, PTL
<1>2. Init => RequestInv /\ ExchangeInv /\ LevelInv
  BY InitRequests, InitExchange
<1>3. /\ Inductive /\ ModeInv
      /\ RequestInv /\ ExchangeInv /\ LevelInv
      /\ [Next]_vars
      => RequestInv' /\ ExchangeInv' /\ LevelInv'
  BY NextRequests, NextExchange, NextLevels, NextHistory DEF Inductive
<1>4. Inductive /\ ModeInv /\ ExchangeInv /\ LevelInv => AgreeUnlessDisturbed
  BY Agreement
<1> QED
  BY <1>1, <1>2, <1>3, <1>4, PTL DEF Spec
=============================================================================
