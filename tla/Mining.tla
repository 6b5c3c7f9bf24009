------------------------------- MODULE Mining ------------------------------
(***************************************************************************)
(* The main canister and its dogs, with the calls between them.            *)
(*                                                                         *)
(* A call of a user to the main canister (or a run of its hourly calc) is  *)
(* a record in calls: the local variables that survive its awaits, and     *)
(* where it is suspended.  Between two awaits a canister runs atomically,  *)
(* so every action below is one segment of one handler.  What the Internet *)
(* Computer promises of messages is modelled as it is: requests from one   *)
(* canister to another arrive in the order they were sent (toDog, toMain), *)
(* replies may be processed in any order, and any request may be rejected. *)
(***************************************************************************)
EXTENDS BoneMain, BoneDog, Sequences

CONSTANTS
    Slots,      \* bound: user calls suspended in the main canister at once
    CalcSlots,  \* bound: runs of calc suspended at once
    MaxReports, \* bound: get_ore ticks of one dog suspended on a report
    Budgets     \* bound: the user calls of each kind a behaviour may make, one of these

UserOps == {"create_dog", "create_alliance", "join_alliance",
            "leave_alliance", "dog_level_upgrade"}

ASSUME SlotsAssumption == Slots \cap CalcSlots = {}
ASSUME MaxReportsAssumption == MaxReports \in Nat
ASSUME BudgetAssumption == Budgets \subseteq [UserOps -> Nat]

VARIABLES
    calls,      \* calls[s]: the suspended call in slot s, or Idle
    toDog,      \* toDog[d]: requests of the main canister to dog d, in order
    toMain,     \* toMain[d]: update_dog_state requests of dog d, in order
    replies,    \* replies[d][st]: acknowledged reports not yet processed by d
    left,       \* left[op]: calls that the budget still allows
    collected,  \* history: the upgrade fees taken for each dog
    disturbed   \* history: dogs whose exchanges with the main canister ever
                \* overlapped, or met a failure the code does not repair

netVars == <<calls, toDog, toMain, replies, left>>
vars == <<mainVars, installed, dog, netVars, collected, disturbed>>

AllSlots == Slots \cup CalcSlots

\* op: the handler; at: what it awaits; arg: the alliance or the level asked
\* for; todo: the dogs calc has not asked yet; reply: the answer of the dog.
CallRecord ==
    [op: UserOps \cup {"calc"}, at: {"ledger", "install", "dog", "replied"},
     miner: Miners \cup {None}, dog: Dogs \cup {None}, arg: Nat,
     todo: SUBSET Dogs, reply: {"none", "ok", "err"} \cup MiningState]

\* The fields that the handler c.op has in use.
CallOK(c) ==
    /\ c.op \in {"create_dog", "create_alliance"} => c.miner \in Miners
    /\ c.op = "create_dog" /\ c.at = "install" => c.dog \in Dogs
    /\ c.op \in {"join_alliance", "leave_alliance"} =>
            c.dog \in Dogs /\ c.arg \in PoolIds
    /\ c.op = "dog_level_upgrade" =>
            c.dog \in Dogs /\ c.arg \in SilverDog .. DiamondDog
    /\ c.op = "calc" => c.dog \in Dogs

Call == {c \in CallRecord : CallOK(c)}

Idle == [op |-> "idle"]

NewCall(op) ==
    [op |-> op, at |-> "ledger", miner |-> None, dog |-> None, arg |-> None,
     todo |-> {}, reply |-> "none"]

RequestRecord ==
    [op: {"dog_mining_type_update", "dog_level_upgrade", "dog_info"},
     slot: AllSlots, type: MiningType, arg: Nat]

RequestOK(r) ==
    /\ r.op = "dog_mining_type_update" => r.arg \in PoolIds \cup {None}
    /\ r.op = "dog_level_upgrade" => r.arg \in SilverDog .. DiamondDog

Request == {r \in RequestRecord : RequestOK(r)}

\* Where the fee of an upgrade goes: $BONE to the management canister, the
\* $DOGMI of the last upgrade to the treasury of the DAO.
BlackHole == "aaaaa-aa"
Treasury == "ni4my-zaaaa-aaaaq-aadra-cai"
AcceptUser(level) == IF level = DiamondDog THEN Treasury ELSE BlackHole
Fee == [level: SilverDog .. DiamondDog, to: {BlackHole, Treasury}]

Owned == UNION {minersMap[m] : m \in Miners}

Suspended(s, op, at) ==
    calls[s] # Idle /\ calls[s].op = op /\ calls[s].at = at

-----------------------------------------------------------------------------
(* Exchanges about the mode of a dog, for the history variable.            *)

\* An exchange is open from the moment one side reads or sends the mode of d
\* until the other side's answer is applied.
ModeExchange(c, d) ==
    \/ /\ c.op \in {"join_alliance", "leave_alliance", "calc"}
       /\ c.at \in {"dog", "replied"}
       /\ c.dog = d \/ (c.op = "calc" /\ d \in c.todo)
    \/ c.op = "create_dog" /\ c.at = "install" /\ c.dog = d

Called(s, d) == calls[s] # Idle /\ ModeExchange(calls[s], d)

Busy(d) ==
    \/ toMain[d] # << >>
    \/ \E st \in MiningState : replies[d][st] > 0
    \/ \E s \in AllSlots : Called(s, d)

Upgrades(s, d) ==
    calls[s] # Idle /\ calls[s].op = "dog_level_upgrade" /\ calls[s].dog = d

Upgrading(d) == \E s \in AllSlots : Upgrades(s, d)

DisturbIfBusy(S) == disturbed' = disturbed \cup {d \in S : Busy(d)}

-----------------------------------------------------------------------------
(* Calls of users to the main canister.                                    *)

Begin(s, c) ==
    /\ calls[s] = Idle
    /\ left[c.op] > 0
    /\ calls' = [calls EXCEPT ![s] = c]
    /\ left' = [left EXCEPT ![c.op] = @ - 1]

End(s) == calls' = [calls EXCEPT ![s] = Idle]

Send(d, request) == toDog' = [toDog EXCEPT ![d] = Append(@, request)]

TypeUpdateRequest(s, type, alliance) ==
    [op |-> "dog_mining_type_update", slot |-> s, type |-> type, arg |-> alliance]
LevelRequest(s, level) ==
    [op |-> "dog_level_upgrade", slot |-> s, type |-> "ALONE", arg |-> level]
InfoRequest(s) ==
    [op |-> "dog_info", slot |-> s, type |-> "ALONE", arg |-> None]

\* transfer_amount failed: every handler that charges a fee returns the error.
FeeRefused(s) ==
    /\ calls[s] # Idle /\ calls[s].at = "ledger"
    /\ End(s)
    /\ UNCHANGED <<mainVars, installed, dog, toDog, toMain, replies, left,
                   collected, disturbed>>

CreateDog(s, m) ==
    /\ Begin(s, [NewCall("create_dog") EXCEPT !.miner = m])
    /\ UNCHANGED <<mainVars, installed, dog, toDog, toMain, replies,
                   collected, disturbed>>

\* The fee is paid, the canister created and its wasm installed: the dog runs
\* before the main canister knows it.  (When one of these calls fails the
\* handler traps; for this module that is FeeRefused.)
InstallDog(s) ==
    /\ Suspended(s, "create_dog", "ledger")
    /\ \E d \in Dogs \ installed :
        /\ installed' = installed \cup {d}
        /\ dog' = [dog EXCEPT ![d] = NewDog]
        /\ calls' = [calls EXCEPT ![s].at = "install", ![s].dog = d]
    /\ UNCHANGED <<mainVars, toDog, toMain, replies, left, collected, disturbed>>

CreateDogReply(s) ==
    /\ Suspended(s, "create_dog", "install")
    /\ RegisterDog(calls[s].dog, calls[s].miner)
    /\ End(s)
    /\ UNCHANGED <<installed, dog, toDog, toMain, replies, left, collected,
                   disturbed>>

CreateAlliance(s, m) ==
    /\ Begin(s, [NewCall("create_alliance") EXCEPT !.miner = m])
    /\ UNCHANGED <<mainVars, installed, dog, toDog, toMain, replies,
                   collected, disturbed>>

CreateAlliancePaid(s) ==
    /\ Suspended(s, "create_alliance", "ledger")
    /\ poolCounter < MaxPools
    /\ AddAlliance(calls[s].miner)
    /\ End(s)
    /\ UNCHANGED <<installed, dog, toDog, toMain, replies, left, collected,
                   disturbed>>

\* The id is not looked up before the fee is taken and the dog updated.
JoinAlliance(s, d, p) ==
    /\ d \in Owned
    /\ Begin(s, [NewCall("join_alliance") EXCEPT !.dog = d, !.arg = p])
    /\ UNCHANGED <<mainVars, installed, dog, toDog, toMain, replies,
                   collected, disturbed>>

JoinAlliancePaid(s) ==
    /\ Suspended(s, "join_alliance", "ledger")
    /\ LET c == calls[s] IN
        /\ Send(c.dog, TypeUpdateRequest(s, "POOL", c.arg))
        /\ DisturbIfBusy({c.dog})
    /\ calls' = [calls EXCEPT ![s].at = "dog"]
    /\ UNCHANGED <<mainVars, installed, dog, toMain, replies, left, collected>>

JoinAllianceReply(s) ==
    /\ Suspended(s, "join_alliance", "replied")
    /\ LET c == calls[s] IN
        IF c.reply = "ok"
        THEN /\ JoinPool(c.dog, c.arg)
             /\ disturbed' = IF c.arg \in DOMAIN pools THEN disturbed
                             ELSE disturbed \cup {c.dog}
        ELSE UNCHANGED <<mainVars, disturbed>>
    /\ End(s)
    /\ UNCHANGED <<installed, dog, toDog, toMain, replies, left, collected>>

LeaveAlliance(s, d, p) ==
    /\ d \in Owned
    /\ p \in DOMAIN pools
    /\ d \in pools[p].dogs
    /\ Begin(s, [NewCall("leave_alliance") EXCEPT
                    !.at = "dog", !.dog = d, !.arg = p])
    /\ Send(d, TypeUpdateRequest(s, "ALONE", None))
    /\ DisturbIfBusy({d})
    /\ UNCHANGED <<mainVars, installed, dog, toMain, replies, collected>>

LeaveAllianceReply(s) ==
    /\ Suspended(s, "leave_alliance", "replied")
    /\ IF calls[s].reply = "ok"
       THEN LeavePool(calls[s].dog, calls[s].arg)
       ELSE UNCHANGED mainVars
    /\ End(s)
    /\ UNCHANGED <<installed, dog, toDog, toMain, replies, left, collected,
                   disturbed>>

\* The level asked for is fixed here, before the two awaits.
UpgradeDog(s, d) ==
    /\ d \in DOMAIN dogsMap
    /\ dogsMap[d].state # "STOP"
    /\ dogsMap[d].level # DiamondDog
    /\ Begin(s, [NewCall("dog_level_upgrade") EXCEPT
                    !.dog = d, !.arg = dogsMap[d].level + 1])
    /\ disturbed' = IF Upgrading(d) THEN disturbed \cup {d} ELSE disturbed
    /\ UNCHANGED <<mainVars, installed, dog, toDog, toMain, replies, collected>>

UpgradePaid(s) ==
    /\ Suspended(s, "dog_level_upgrade", "ledger")
    /\ LET c == calls[s] IN
        /\ collected' = [collected EXCEPT ![c.dog] = @ \cup
                            {[level |-> c.arg, to |-> AcceptUser(c.arg)]}]
        /\ Send(c.dog, LevelRequest(s, c.arg))
    /\ calls' = [calls EXCEPT ![s].at = "dog"]
    /\ UNCHANGED <<mainVars, installed, dog, toMain, replies, left, disturbed>>

UpgradeReply(s) ==
    /\ Suspended(s, "dog_level_upgrade", "replied")
    /\ IF calls[s].reply = "ok"
       THEN SetLevel(calls[s].dog, calls[s].arg)
       ELSE UNCHANGED mainVars
    /\ End(s)
    /\ UNCHANGED <<installed, dog, toDog, toMain, replies, left, collected,
                   disturbed>>

-----------------------------------------------------------------------------
(* The hourly calc of the main canister, as far as it touches the dogs.    *)

\* dog_info is asked of one dog after the other, each in the segment that
\* applied the answer of the one before.
AskNext(s, todo) ==
    \E d \in todo :
        /\ calls' = [calls EXCEPT ![s] = [NewCall("calc") EXCEPT
                        !.at = "dog", !.dog = d, !.todo = todo \ {d}]]
        /\ Send(d, InfoRequest(s))

Calc(s) ==
    /\ calls[s] = Idle
    /\ AskNext(s, ActiveDogs)
    /\ DisturbIfBusy(ActiveDogs)
    /\ UNCHANGED <<mainVars, installed, dog, toMain, replies, left, collected>>

\* A failed dog_info yields the default context, whose mining_state is STOP.
CalcReply(s) ==
    /\ Suspended(s, "calc", "replied")
    /\ LET c == calls[s] IN
        /\ IF c.reply \in {"STOP", "err"}
           THEN MarkStopped(c.dog)
           ELSE UNCHANGED mainVars
        /\ disturbed' = IF c.reply = "err" THEN disturbed \cup {c.dog}
                        ELSE disturbed
        /\ IF c.todo = {} THEN End(s) /\ UNCHANGED toDog ELSE AskNext(s, c.todo)
    /\ UNCHANGED <<installed, dog, toMain, replies, left, collected>>

-----------------------------------------------------------------------------
(* Dog canisters.                                                          *)

Reply(d, answer) ==
    /\ toDog' = [toDog EXCEPT ![d] = Tail(@)]
    /\ calls' = [calls EXCEPT ![Head(toDog[d]).slot].at = "replied",
                              ![Head(toDog[d]).slot].reply = answer]

DogMiningTypeUpdate(d) ==
    /\ toDog[d] # << >>
    /\ LET r == Head(toDog[d]) IN
        /\ r.op = "dog_mining_type_update"
        /\ IF TypeUpdateAllowed(dog[d], r.type, r.arg)
           THEN /\ dog' = [dog EXCEPT ![d] = TypeUpdate(@, r.type, r.arg)]
                /\ Reply(d, "ok")
           ELSE Reply(d, "err") /\ UNCHANGED dog
    /\ UNCHANGED <<mainVars, installed, toMain, replies, left, collected, disturbed>>

DogLevelUpgrade(d) ==
    /\ toDog[d] # << >>
    /\ LET r == Head(toDog[d]) IN
        /\ r.op = "dog_level_upgrade"
        /\ dog' = [dog EXCEPT ![d] = LevelUpgrade(@, r.arg)]
    /\ Reply(d, "ok")
    /\ UNCHANGED <<mainVars, installed, toMain, replies, left, collected, disturbed>>

DogInfo(d) ==
    /\ toDog[d] # << >>
    /\ Head(toDog[d]).op = "dog_info"
    /\ Reply(d, dog[d].state)
    /\ UNCHANGED <<mainVars, installed, dog, toMain, replies, left, collected,
                   disturbed>>

\* The system, or a dog without cycles, rejects the request unprocessed.
RejectRequest(d) ==
    /\ toDog[d] # << >>
    /\ Reply(d, "err")
    /\ UNCHANGED <<mainVars, installed, dog, toMain, replies, left, collected,
                   disturbed>>

\* A wrong variant, to be refuted: stop_timer also ends the ticks of get_ore.
TickWhileMining(d) ==
    /\ d \in installed
    /\ dog[d].timers
    /\ Len(toMain[d]) + replies[d]["STOP"] + replies[d]["ACTIVITY"] < MaxReports
    /\ \E st \in MiningState :
        /\ ReportsState(dog[d], st)
        /\ toMain' = [toMain EXCEPT ![d] = Append(@, st)]
    /\ DisturbIfBusy({d})
    /\ UNCHANGED <<mainVars, installed, dog, calls, toDog, replies, left, collected>>

\* get_ore: a tick reports a change of mode.  Ticks do not wait for each
\* other, and mining_state is read again by each.
Tick(d) ==
    /\ d \in installed
    /\ Len(toMain[d]) + replies[d]["STOP"] + replies[d]["ACTIVITY"] < MaxReports
    /\ \E st \in MiningState :
        /\ ReportsState(dog[d], st)
        /\ toMain' = [toMain EXCEPT ![d] = Append(@, st)]
    /\ DisturbIfBusy({d})
    /\ UNCHANGED <<mainVars, installed, dog, calls, toDog, replies, left, collected>>

MainUpdateDogState(d) ==
    /\ toMain[d] # << >>
    /\ UpdateDogState(d, Head(toMain[d]))
    /\ toMain' = [toMain EXCEPT ![d] = Tail(@)]
    /\ replies' = [replies EXCEPT ![d][Head(toMain[d])] = @ + 1]
    /\ UNCHANGED <<installed, dog, calls, toDog, left, collected, disturbed>>

RejectReport(d) ==
    /\ toMain[d] # << >>
    /\ toMain' = [toMain EXCEPT ![d] = Tail(@)]
    /\ UNCHANGED <<mainVars, installed, dog, calls, toDog, replies, left,
                   collected, disturbed>>

ReportAcknowledged(d, st) ==
    /\ replies[d][st] > 0
    /\ replies' = [replies EXCEPT ![d][st] = @ - 1]
    /\ dog' = [dog EXCEPT ![d] = ApplyReport(@, st)]
    /\ UNCHANGED <<mainVars, installed, calls, toDog, toMain, left, collected,
                   disturbed>>

\* Cycles are burnt by mining and added by add_cycles.
CyclesChange(d, band) ==
    /\ d \in installed
    /\ dog[d].cycles # band
    /\ dog' = [dog EXCEPT ![d].cycles = band]
    /\ UNCHANGED <<mainVars, installed, netVars, collected, disturbed>>

-----------------------------------------------------------------------------
Init ==
    /\ MainInit
    /\ installed = {}
    /\ dog = [d \in Dogs |-> NewDog]
    /\ calls = [s \in AllSlots |-> Idle]
    /\ toDog = [d \in Dogs |-> << >>]
    /\ toMain = [d \in Dogs |-> << >>]
    /\ replies = [d \in Dogs |-> [st \in MiningState |-> 0]]
    /\ left \in Budgets
    /\ collected = [d \in Dogs |-> {}]
    /\ disturbed = {}

UserCall(s) ==
    \/ \E m \in Miners : CreateDog(s, m) \/ CreateAlliance(s, m)
    \/ \E d \in Dogs : UpgradeDog(s, d)
    \/ \E d \in Dogs, p \in PoolIds : JoinAlliance(s, d, p) \/ LeaveAlliance(s, d, p)

Resume(s) ==
    \/ FeeRefused(s)
    \/ InstallDog(s) \/ CreateDogReply(s)
    \/ CreateAlliancePaid(s)
    \/ JoinAlliancePaid(s) \/ JoinAllianceReply(s)
    \/ LeaveAllianceReply(s)
    \/ UpgradePaid(s) \/ UpgradeReply(s)

DogHandles(d) == DogMiningTypeUpdate(d) \/ DogLevelUpgrade(d) \/ DogInfo(d)

DogStep(d) ==
    \/ DogHandles(d) \/ RejectRequest(d)
    \/ Tick(d) \/ MainUpdateDogState(d) \/ RejectReport(d)
    \/ \E st \in MiningState : ReportAcknowledged(d, st)
    \/ \E band \in CyclesBand : CyclesChange(d, band)

Next ==
    \/ \E s \in Slots : UserCall(s) \/ Resume(s)
    \/ \E s \in CalcSlots : Calc(s) \/ CalcReply(s)
    \/ \E d \in Dogs : DogStep(d)

Spec == Init /\ [][Next]_vars

\* Timers keep firing, messages and replies are delivered, and a request that
\* is made again and again is not rejected for ever.
Fairness ==
    /\ \A d \in Dogs :
        /\ WF_vars(Tick(d))
        /\ SF_vars(MainUpdateDogState(d))
        /\ WF_vars(DogHandles(d) \/ RejectRequest(d))
        /\ \A st \in MiningState : WF_vars(ReportAcknowledged(d, st))
    /\ \A s \in Slots : WF_vars(Resume(s))
    /\ \A s \in CalcSlots : WF_vars(Calc(s)) /\ WF_vars(CalcReply(s))

FairSpec == Spec /\ Fairness

-----------------------------------------------------------------------------
(* Invariants.                                                             *)

\* Every variable, history variables included, has the type given here.
NetTypeOK ==
    /\ calls \in [AllSlots -> Call \cup {Idle}]
    /\ toDog \in [Dogs -> Seq(Request)]
    /\ toMain \in [Dogs -> Seq(MiningState)]
    /\ replies \in [Dogs -> [MiningState -> Nat]]
    /\ left \in [UserOps -> Nat]

HistoryTypeOK ==
    /\ collected \in [Dogs -> SUBSET Fee]
    /\ disturbed \subseteq Dogs

TypeOK == MainTypeOK /\ DogTypeOK /\ NetTypeOK /\ HistoryTypeOK

\* MINERS_MAP and DOGS_MAP list the same dogs, each under the one miner that
\* owns it, and only installed ones; alliance ids are dense, each alliance is
\* listed under its owner, and has only registered dogs as members.  It does
\* not say that an id listed under a miner is an alliance of that miner, nor
\* that the alliance an entry names exists: that is AllianceListed.  Where
\* verify_ore, calc and get_mining_alliance unwrap one of these lookups, a
\* dangling one would trap them.
RegistryConsistent ==
    /\ \A m \in Miners : \A d \in minersMap[m] :
            d \in DOMAIN dogsMap /\ dogsMap[d].owner = m
    /\ \A d \in DOMAIN dogsMap :
            d \in minersMap[dogsMap[d].owner] /\ d \in installed
    /\ DOMAIN pools = 1 .. poolCounter
    /\ \A p \in DOMAIN pools : /\ pools[p].dogs \subseteq DOMAIN dogsMap
                               /\ p \in minersPools[pools[p].owner]

\* A dog whose entry in the main canister names an alliance is a member of
\* that alliance, however joins, leaves, stops and calc interleave.  (The
\* converse fails: a member's entry may name no alliance.)
AllianceListed ==
    \A d \in DOMAIN dogsMap : dogsMap[d].alliance # None =>
        /\ dogsMap[d].alliance \in DOMAIN pools
        /\ d \in pools[dogsMap[d].alliance].dogs

\* On both sides mining_type is POOL exactly when an alliance is named:
\* timer_dog_mining and the UI read the one, verify_ore the other.
ModeCoherent ==
    /\ \A d \in Dogs : dog[d].type = "POOL" <=> dog[d].alliance # None
    /\ \A d \in DOMAIN dogsMap :
            dogsMap[d].type = "POOL" <=> dogsMap[d].alliance # None

\* A dog that calls itself active has its mining timers running: no order of
\* late start and stop acknowledgements and upgrades leaves it idle for good.
ActiveHasTimers == \A d \in Dogs : dog[d].state = "ACTIVITY" => dog[d].timers

\* Every level a dog has reached, on either side, was paid for, also when
\* upgrades of one dog overlap and their replies are applied out of order.
PaidUpTo(d, level) ==
    \A l \in SilverDog .. level : \E f \in collected[d] : f.level = l

LevelsPaid ==
    /\ \A d \in Dogs : PaidUpTo(d, dog[d].level)
    /\ \A d \in DOMAIN dogsMap : PaidUpTo(d, dogsMap[d].level)

\* Exchanges that do not overlap and do not fail leave the main canister and
\* the dog with the same mode and level, and the dog a member of exactly the
\* alliance it mines for.
Agree(d) ==
    /\ dogsMap[d].state = dog[d].state
    /\ dogsMap[d].type = dog[d].type
    /\ dogsMap[d].alliance = dog[d].alliance
    /\ Upgrading(d) \/ dogsMap[d].level = dog[d].level
    /\ \A p \in DOMAIN pools : d \in pools[p].dogs <=> dog[d].alliance = p

AgreeUnlessDisturbed ==
    \A d \in DOMAIN dogsMap \ disturbed : Busy(d) \/ Agree(d)

-----------------------------------------------------------------------------
(* What makes the invariants inductive.                                    *)

\* Every request on its way to a dog belongs to the call suspended in its
\* slot, and no two to the same call: a reply never reaches a call that does
\* not wait for it.
QueueInv ==
    \A d \in Dogs :
        /\ \A i \in 1 .. Len(toDog[d]) :
                LET s == toDog[d][i].slot IN
                /\ calls[s] # Idle
                /\ calls[s].at = "dog"
                /\ calls[s].dog = d
        /\ \A i, j \in 1 .. Len(toDog[d]) :
                toDog[d][i].slot = toDog[d][j].slot => i = j

\* A dog that is installed but not yet registered belongs to one call of
\* create_dog; the calls about a dog are about a registered one.
CreationInv ==
    /\ \A s \in AllSlots : Suspended(s, "create_dog", "install") =>
            calls[s].dog \in installed \ DOMAIN dogsMap
    /\ \A s, t \in AllSlots :
            /\ Suspended(s, "create_dog", "install")
            /\ Suspended(t, "create_dog", "install")
            /\ calls[s].dog = calls[t].dog
            => s = t
    /\ \A s \in AllSlots :
            calls[s] # Idle /\ calls[s].op \in {"join_alliance", "leave_alliance",
                                             "dog_level_upgrade", "calc"}
            => calls[s].dog \in DOMAIN dogsMap
    /\ \A s \in AllSlots : calls[s] # Idle => calls[s].todo \subseteq DOMAIN dogsMap

\* An upgrade in flight asks for a level whose predecessors are paid, and
\* once past the ledger for a level that is paid itself.
PaymentInv ==
    /\ \A s \in AllSlots :
            calls[s] # Idle /\ calls[s].op = "dog_level_upgrade" =>
                /\ PaidUpTo(calls[s].dog, calls[s].arg - 1)
                /\ calls[s].at # "ledger" => PaidUpTo(calls[s].dog, calls[s].arg)
    /\ \A d \in Dogs : \A i \in 1 .. Len(toDog[d]) :
            toDog[d][i].op = "dog_level_upgrade" => PaidUpTo(d, toDog[d][i].arg)

\* A request on its way to a dog is the one the call in its slot sent.
Asks(c, r) ==
    \/ c.op = "join_alliance" /\ r = TypeUpdateRequest(r.slot, "POOL", c.arg)
    \/ c.op = "leave_alliance" /\ r = TypeUpdateRequest(r.slot, "ALONE", None)
    \/ c.op = "dog_level_upgrade" /\ r = LevelRequest(r.slot, c.arg)
    \/ c.op = "calc" /\ r = InfoRequest(r.slot)

RequestInv ==
    \A d \in Dogs : \A i \in 1 .. Len(toDog[d]) :
        Asks(calls[toDog[d][i].slot], toDog[d][i])

\* The dog did what the call in slot s asks, the main canister not yet.
Accepted(s, op, d) ==
    Suspended(s, op, "replied") /\ calls[s].dog = d /\ calls[s].reply = "ok"

\* No exchange about the mode of d overlaps another.
OneExchange(d) ==
    /\ Len(toMain[d]) <= 1
    /\ \A st \in MiningState : replies[d][st] > 0 =>
            /\ replies[d][st] = 1
            /\ toMain[d] = << >>
            /\ \A other \in MiningState \ {st} : replies[d][other] = 0
    /\ \A s \in AllSlots : Called(s, d) =>
            /\ toMain[d] = << >>
            /\ \A st \in MiningState : replies[d][st] = 0
            /\ \A t \in AllSlots : Called(t, d) => t = s

\* What an exchange was opened on is still so at the dog.
Underway(d) ==
    /\ toMain[d] # << >> => dog[d].state # Head(toMain[d])
    /\ \A s \in AllSlots : Called(s, d) =>
        LET c == calls[s] IN
        /\ c.op = "create_dog" => dog[d].state = "ACTIVITY" /\ dog[d].alliance = None
        /\ c.op = "leave_alliance" /\ c.at = "dog" => dog[d].alliance = c.arg
        /\ c.op = "calc" => dog[d].state = "ACTIVITY"
        /\ c.op = "calc" /\ c.at = "replied" /\ c.dog = d => c.reply # "STOP"

\* The two sides differ only by what one of them has yet to apply.
StatesMatch(d) ==
    /\ \A st \in MiningState : replies[d][st] > 0 =>
            dogsMap[d].state = st /\ dog[d].state # st
    /\ (\A st \in MiningState : replies[d][st] = 0) =>
            dog[d].state = dogsMap[d].state

AlliancesMatch(d) ==
    LET mine == dog[d].alliance
        listed == dogsMap[d].alliance IN
    /\ \A s \in AllSlots :
        /\ Accepted(s, "join_alliance", d) => listed = None /\ mine = calls[s].arg
        /\ Accepted(s, "leave_alliance", d) => listed = calls[s].arg /\ mine = None
    /\ replies[d]["STOP"] > 0 => listed = None
    /\ \/ replies[d]["STOP"] > 0
       \/ \E s \in AllSlots : Accepted(s, "join_alliance", d)
                             \/ Accepted(s, "leave_alliance", d)
       \/ mine = listed

SoleMember(d) ==
    \A p \in DOMAIN pools : d \in pools[p].dogs <=> dogsMap[d].alliance = p

Exchanged(d) ==
    /\ d \notin installed =>
            toMain[d] = << >> /\ \A st \in MiningState : replies[d][st] = 0
    /\ OneExchange(d)
    /\ Underway(d)
    /\ d \in DOMAIN dogsMap => StatesMatch(d) /\ AlliancesMatch(d) /\ SoleMember(d)

ExchangeInv == \A d \in Dogs \ disturbed : Exchanged(d)

\* The same for the level of a dog: one upgrade at a time, and the two sides
\* differ only while the answer to it is on its way.
LevelsMatch(d) ==
    /\ \A s, t \in AllSlots : Upgrades(s, d) /\ Upgrades(t, d) => s = t
    /\ \A s \in AllSlots :
        /\ Suspended(s, "create_dog", "install") /\ calls[s].dog = d =>
                dog[d].level = CopperDog
        /\ Accepted(s, "dog_level_upgrade", d) => dog[d].level = calls[s].arg
    /\ d \in DOMAIN dogsMap =>
        \/ \E s \in AllSlots : Accepted(s, "dog_level_upgrade", d)
        \/ dog[d].level = dogsMap[d].level

LevelInv == \A d \in Dogs \ disturbed : LevelsMatch(d)

-----------------------------------------------------------------------------
(* Properties of behaviours.                                               *)

\* A dog whose cycles stay at or below MAX_CYCLES_SIZE stops for good, and
\* the main canister comes to see it stopped: a report overtaken by a late
\* acknowledgement is made good by the next tick or by calc.
LowCyclesHalt ==
    \A d \in Dogs :
        <>[](d \in installed /\ dog[d].cycles = "low") =>
            <>[](/\ dog[d].state = "STOP"
                 /\ d \in DOMAIN dogsMap => dogsMap[d].state = "STOP")

\* A dog whose cycles stay at or above BASE_CYCLES_SIZE ends up mining for
\* good, whatever stop acknowledgements are still on their way.
HighCyclesMine ==
    \A d \in Dogs :
        <>[](d \in installed /\ dog[d].cycles = "high") =>
            <>[](dog[d].state = "ACTIVITY" /\ dog[d].timers)

\* The dog page shows the state kept by the main canister, and for STOP the
\* text "Mining halted due to low Cycles balance. Please top up!": a dog with
\* enough cycles for good should not be shown as halted for good.
HaltedMeansLowCycles ==
    \A d \in Dogs :
        <>[](d \in DOMAIN dogsMap /\ dog[d].cycles = "high") =>
            []<>(d \in DOMAIN dogsMap /\ dogsMap[d].state = "ACTIVITY")

\* dog_level_upgrade is documented as "Upgrade the dog and collect fees.": it
\* should never leave a dog at a lower level.
UpgradeRaisesLevel ==
    [][\A d \in DOMAIN dogsMap : dogsMap'[d].level >= dogsMap[d].level]_vars
=============================================================================
