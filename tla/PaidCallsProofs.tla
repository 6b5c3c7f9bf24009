-------------------------- MODULE PaidCallsProofs ---------------------------
(***************************************************************************)
(* The safety of PaidCalls for any number of operations in flight, any     *)
(* funds and any amounts.  The argument about money: an operation that     *)
(* nobody has disturbed finds on its token's account and allowance what it *)
(* left there itself.  The one about spinners: of the operations of this   *)
(* mount no two are of one kind, except creations of dogs.                 *)
(***************************************************************************)
EXTENDS PaidCalls, TLAPS

Token(o) == TokenOf(o.kind, o.level)
PriceOf(o) == Price(o.kind, o.amount, o.level)

\* What an operation approves over its price.
Surplus(o) == IF Token(o) = "DOGMI" THEN 50 ELSE 2
Worth(o) ==
    /\ o.approve >= PriceOf(o)
    /\ o.approve < 20000 * 10000 => o.approve <= PriceOf(o) + Surplus(o)

\* What an operation o may rely on, its token's allowance being al and the balance
\* ba, as long as it is undisturbed.
Covered(o, al, ba) ==
    /\ o.kind # "leave_alliance" /\ o.pc # "idle" => Worth(o)
    /\ o.pc \in {"approving", "serving"} => o.kind # "leave_alliance"
    /\ o.clean =>
         /\ o.out # "refused"
         /\ o.pc = "approving" => ba >= Fee[Token(o)] + PriceOf(o)
         /\ o.pc = "calling" /\ o.kind # "leave_alliance" =>
              al = o.approve /\ ba >= PriceOf(o)
         /\ o.pc = "serving" => al = o.approve - PriceOf(o)

OpCovered(s) == Covered(op[s], allowance[Token(op[s])], balance[Token(op[s])])
AllCovered == \A s \in Slots : OpCovered(s)

Shown(s) == op[s].pc # "idle" /\ op[s].here

\* Two operations of one kind started on this mount are creations of dogs.
OneOfAKind ==
    \A s, x \in Slots :
        (Shown(s) /\ Shown(x) /\ op[s].kind = op[x].kind /\ op[s].kind # "create_dog")
            => s = x

Spinners == SpinnerMeansWork /\ DisabledWhileInFlight /\ OneOfAKind

(***************************************************************************)
(* Amounts.                                                                *)
(***************************************************************************)
LEMMA TokenOfToken == ASSUME NEW k, NEW l PROVE TokenOf(k, l) \in Tokens
BY DEF TokenOf, Tokens

LEMMA FeeNat == ASSUME NEW t \in Tokens PROVE Fee[t] \in Nat
BY PaidAssumption

LEMMA PriceNat == ASSUME NEW k, NEW a \in Nat, NEW l PROVE Price(k, a, l) \in Nat
<1>1. "ICP" \in Tokens /\ "BONE" \in Tokens /\ "DOGMI" \in Tokens
  BY DEF Tokens
<1> QED BY <1>1, FeeNat, PaidAssumption DEF Price

\* The level decides on the price through the token alone.
LEMMA PriceByToken ==
  ASSUME NEW k \in Kinds, NEW a \in Nat, NEW l \in 0 .. 4, NEW m \in 0 .. 4,
         TokenOf(k, l) = TokenOf(k, m)
  PROVE  Price(k, a, l) = Price(k, a, m)
<1>1. CASE k = "dog_level_upgrade"
  BY <1>1 DEF TokenOf, Price
<1>2. CASE k # "dog_level_upgrade"
  BY <1>2 DEF Price
<1> QED BY <1>1, <1>2

LEMMA ApprovalNat ==
  ASSUME NEW k, NEW a \in Nat, NEW l PROVE Approval(k, a, l) \in Nat
BY FeeNat DEF Approval, Tokens

\* What the page approves covers what bone_main takes, and little more once the
\* fee is known.
LEMMA ApprovalCovers ==
  ASSUME NEW k \in Kinds \ {"leave_alliance"}, NEW a \in Nat, NEW l \in 0 .. 4
  PROVE  /\ Approval(k, a, l) >= Price(k, a, l)
         /\ Approval(k, a, l) < 20000 * 10000 =>
              Approval(k, a, l) <= Price(k, a, l) + (IF TokenOf(k, l) = "DOGMI" THEN 50 ELSE 2)
<1>1. Fee["ICP"] = 1 /\ Fee["BONE"] \in 0 .. 1 /\ Fee["DOGMI"] \in 0 .. 50
  BY PaidAssumption, FeeNat DEF Tokens
<1>2. CASE k = "create_dog"
  BY <1>1, <1>2 DEF Approval, Price
<1>3. CASE k \in {"create_alliance", "join_alliance"}
  BY <1>1, <1>3 DEF Approval, Price
<1>4. CASE k = "add_cycles"
  BY <1>1, <1>4 DEF Approval, Price
<1>5. CASE k = "dog_level_upgrade" /\ l < 3
  BY <1>1, <1>5 DEF Approval, Price
<1>6. CASE k = "dog_level_upgrade" /\ ~(l < 3)
  <2>1. TokenOf(k, l) = "DOGMI"
    BY <1>6 DEF TokenOf
  <2> QED BY <1>1, <1>6, <2>1 DEF Approval, Price
<1> QED BY <1>2, <1>3, <1>4, <1>5, <1>6 DEF Kinds, MinerKinds, AllianceKinds

(***************************************************************************)
(* Types.                                                                  *)
(***************************************************************************)
\* The conjuncts of TypeOK by what changes together.
PageType ==
    /\ page \in Pages /\ loading \in [Kinds -> BOOLEAN] /\ bar \in BOOLEAN
    /\ modal \in {"none", "upgrade", "cycles", "leave", "join"} /\ dead \subseteq Kinds
FormType ==
    /\ icpfee \in BOOLEAN /\ decimals \in BOOLEAN /\ isshow \in BOOLEAN
    /\ icpwells \in Nat /\ typed \in Nat /\ fine \in BOOLEAN
ListType ==
    /\ listed \in 0 .. 4 /\ asked \in BOOLEAN /\ reads \subseteq Levels
    /\ target \in 0 .. 4 /\ told \in 2 .. 4
LedgerType ==
    /\ level \in Levels
    /\ allowance \in [Tokens -> Nat] /\ balance \in [Tokens -> Nat]
BoundType == offered \subseteq Kinds /\ clicks \in Nat /\ failures \in Nat
OpsType == op \in [Slots -> OpType]

LEMMA TypeParts ==
    TypeOK <=> PageType /\ FormType /\ ListType /\ LedgerType /\ BoundType /\ OpsType
BY DEF TypeOK, PageType, FormType, ListType, LedgerType, BoundType, OpsType

LEMMA NextTypeParts ==
    TypeOK' <=> PageType' /\ FormType' /\ ListType' /\ LedgerType' /\ BoundType' /\ OpsType'
BY DEF TypeOK, PageType, FormType, ListType, LedgerType, BoundType, OpsType

LEMMA OpParts ==
  ASSUME NEW o \in OpType
  PROVE  /\ o.pc \in {"idle", "approving", "calling", "serving", "answered"}
         /\ o.kind \in Kinds /\ o.here \in BOOLEAN /\ o.amount \in Nat /\ o.approve \in Nat
         /\ o.level \in 0 .. 4 /\ o.next \in 0 .. 4 /\ o.clean \in BOOLEAN
         /\ o.out \in {"none", "ok", "err", "refused", "thrown"}
BY DEF OpType

LEMMA NoOpType == NoOp \in OpType
BY DEF NoOp, OpType, Kinds, MinerKinds, NoLevel

LEMMA OpsExcept ==
  ASSUME OpsType, NEW s \in Slots, NEW k \in OpType, op' = [op EXCEPT ![s] = k]
  PROVE  OpsType'
BY DEF OpsType

\* What the steps of the operations make of one of them.
LEMMA OpUpdates ==
  ASSUME NEW o \in OpType
  PROVE  /\ [o EXCEPT !.here = FALSE] \in OpType
         /\ [o EXCEPT !.clean = FALSE] \in OpType
         /\ [o EXCEPT !.pc = "calling"] \in OpType
         /\ [o EXCEPT !.pc = "calling", !.clean = FALSE] \in OpType
         /\ \A q \in {"none", "ok", "err", "refused", "thrown"} :
                [o EXCEPT !.pc = "answered", !.out = q] \in OpType
         /\ \A c \in BOOLEAN :
                [o EXCEPT !.pc = "answered", !.out = "refused", !.clean = c] \in OpType
         /\ \A c \in BOOLEAN, n \in 0 .. 4 :
                [o EXCEPT !.pc = "serving", !.clean = c, !.next = n] \in OpType
BY DEF OpType

LEMMA OpsTouched ==
  ASSUME OpsType, NEW s \in Slots, NEW t, NEW k \in OpType, op' = Touched(s, t, k)
  PROVE  OpsType'
<1>1. ASSUME NEW x \in Slots PROVE op'[x] \in OpType
  <2>1. op[x] \in OpType
    BY DEF OpsType
  <2>2. op'[x] = k \/ op'[x] = op[x] \/ op'[x] = [op[x] EXCEPT !.clean = FALSE]
    BY DEF Touched
  <2> QED BY <2>1, <2>2, OpUpdates
<1>2. op' = [x \in Slots |-> op'[x]]
  BY DEF Touched
<1> QED BY <1>1, <1>2 DEF OpsType

LEMMA FreeSlots == Free \subseteq Slots
<1>1. CASE {s \in Slots : op[s].pc = "idle"} = {}
  BY <1>1 DEF Free
<1>2. CASE {s \in Slots : op[s].pc = "idle"} # {}
  <2>1. PICK s \in Slots : op[s].pc = "idle"
    BY <1>2
  <2>2. (CHOOSE x \in {z \in Slots : op[z].pc = "idle"} : TRUE)
            \in {z \in Slots : op[z].pc = "idle"}
    BY <2>1
  <2> QED BY <1>2, <2>2, Zenon DEF Free
<1> QED BY <1>1, <1>2

LEMMA InitTypes == Init => TypeOK
<1> SUFFICES ASSUME Init PROVE TypeOK
  OBVIOUS
<1>1. PageType
  BY DEF Init, PageType, Pages
<1>2. FormType
  BY DEF Init, FormType
<1>3. ListType
  BY DEF Init, ListType, NoLevel
<1>4. PICK plan \in Plans : level = plan.level /\ balance = plan.funds
                          /\ offered = plan.kinds /\ clicks = plan.clicks
  BY DEF Init
<1>5. plan \in [kinds : SUBSET Kinds, clicks : Nat, funds : [Tokens -> Nat], level : Levels]
  BY PaidAssumption
<1>6. LedgerType
  BY <1>4, <1>5 DEF Init, LedgerType
<1>7. BoundType
  BY <1>4, <1>5 DEF Init, BoundType
<1>8. OpsType
  BY NoOpType DEF Init, OpsType
<1> QED BY <1>1, <1>2, <1>3, <1>6, <1>7, <1>8, TypeParts

LEMMA ReasonBoolean == ASSUME FormType, NEW a PROVE Reason(a) \in BOOLEAN
<1>1. (a = 0 \/ a > icpwells) \in BOOLEAN
  OBVIOUS
<1> QED BY <1>1, Zenon DEF Reason, FormType

\* The user and the answers to the page's own requests.
LEMMA InputTypes == TypeOK /\ Input => TypeOK'
<1> SUFFICES ASSUME TypeOK, Input PROVE TypeOK'
  OBVIOUS
<1>0. PageType /\ FormType /\ ListType /\ LedgerType /\ BoundType /\ OpsType
  BY TypeParts
<1>1. SUFFICES PageType' /\ FormType' /\ ListType' /\ LedgerType' /\ BoundType' /\ OpsType'
  BY NextTypeParts
<1>2. CASE InputAmountChange
  <2>1. PICK a \in Amounts : typed' = a /\ isshow' = Reason(a)
    BY <1>2 DEF InputAmountChange
  <2>2. isshow' \in BOOLEAN
    BY <1>0, <2>1, ReasonBoolean
  <2>3. fine' \in BOOLEAN
    <3>1. (typed' > 0) \in BOOLEAN
      OBVIOUS
    <3>2. fine' \in {FALSE, typed' > 0}
      BY <1>2 DEF InputAmountChange
    <3> QED BY <3>1, <3>2, Zenon
  <2>4. typed' \in Nat
    BY <2>1, PaidAssumption
  <2> QED
    BY <1>0, <1>2, <2>2, <2>3, <2>4 DEF InputAmountChange, ui, list, upgrade, ledgers, bounds,
       PageType, FormType, ListType, LedgerType, BoundType, OpsType
<1>3. CASE BtnMax
  <2>1. PICK a : /\ a = (IF icpwells = 0 THEN 0 ELSE icpwells - Fee["ICP"])
                 /\ typed' = a /\ isshow' = Reason(a)
    BY <1>3 DEF BtnMax
  <2>2. isshow' \in BOOLEAN
    BY <1>0, <2>1, ReasonBoolean
  <2>3. a \in Nat
    BY <1>0, <2>1, PaidAssumption DEF FormType
  <2> QED
    BY <1>0, <1>3, <2>1, <2>2, <2>3 DEF BtnMax, ui, list, upgrade, ledgers, bounds,
       PageType, FormType, ListType, LedgerType, BoundType, OpsType
<1>4. CASE BtnTopUp \/ OpenLeaveModal \/ BtnJoinModal
  BY <1>0, <1>4 DEF BtnTopUp, OpenLeaveModal, BtnJoinModal, OpenModal, form, list, upgrade,
     ledgers, bounds, PageType, FormType, ListType, LedgerType, BoundType, OpsType
<1>5. CASE GoOfTable \/ GoOfPhone
  BY <1>0, <1>5 DEF GoOfTable, GoOfPhone, OpenTopUpModal, OpenModal, form, list, ledgers,
     bounds, Diamond, NoLevel, PageType, FormType, ListType, LedgerType, BoundType, OpsType
<1>6. CASE CloseModal \/ HandleMessageClose
  BY <1>0, <1>6 DEF CloseModal, HandleMessageClose, form, list, upgrade, ledgers, bounds,
     PageType, FormType, ListType, LedgerType, BoundType, OpsType
<1>7. CASE BtnUpdateDead \/ BtnBuyFraction
  BY <1>0, <1>7 DEF BtnUpdateDead, BtnBuyFraction, DeadEnd, form, list, upgrade, ledgers, bounds,
     Kinds, MinerKinds, PageType, FormType, ListType, LedgerType, BoundType, OpsType
<1>8. ASSUME NEW p \in Pages, Navigate(p)
      PROVE  PageType' /\ FormType' /\ ListType' /\ LedgerType' /\ BoundType' /\ OpsType'
  <2>1. OpsType'
    <3>1. \A s \in Slots : [op[s] EXCEPT !.here = FALSE] \in OpType
      BY <1>0, OpUpdates DEF OpsType
    <3> QED BY <1>8, <3>1 DEF Navigate, OpsType
  <2>2. asked' \in BOOLEAN
    BY <1>8, Zenon DEF Navigate
  <2>3. PageType' /\ FormType' /\ LedgerType' /\ BoundType'
    BY <1>0, <1>8 DEF Navigate, ledgers, bounds, PageType, FormType, LedgerType, BoundType
  <2>4. ListType'
    BY <1>0, <1>8, <2>2 DEF Navigate, NoLevel, ListType
  <2> QED
    BY <2>1, <2>3, <2>4
<1> QED BY <1>2, <1>3, <1>4, <1>5, <1>6, <1>7, <1>8 DEF Input

LEMMA LoadTypes == TypeOK /\ Loads => TypeOK'
<1> SUFFICES ASSUME TypeOK, Loads PROVE TypeOK'
  OBVIOUS
<1>0. PageType /\ FormType /\ ListType /\ LedgerType /\ BoundType /\ OpsType
  BY TypeParts
<1>1. SUFFICES PageType' /\ FormType' /\ ListType' /\ LedgerType' /\ BoundType' /\ OpsType'
  BY NextTypeParts
<1>2. CASE FeeLoads \/ DecimalsLoad \/ BalanceLoads
  <2>1. balance["ICP"] \in Nat
    BY <1>0 DEF LedgerType, Tokens
  <2> QED
    BY <1>0, <1>2, <2>1 DEF FeeLoads, DecimalsLoad, BalanceLoads, ui, list, upgrade, ledgers,
       bounds, PageType, FormType, ListType, LedgerType, BoundType, OpsType
<1>3. CASE DogInfoRead \/ DogInfoAnswer
  <2>1. ListType'
    <3>1. Levels \subseteq 0 .. 4
      BY DEF Levels
    <3>2. CASE DogInfoRead
      BY <1>0, <3>2 DEF DogInfoRead, ListType, LedgerType, upgrade
    <3>3. CASE DogInfoAnswer
      BY <1>0, <3>1, <3>3 DEF DogInfoAnswer, ListType, upgrade
    <3> QED BY <1>3, <3>2, <3>3
  <2> QED
    BY <1>0, <1>3, <2>1 DEF DogInfoRead, DogInfoAnswer, ui, form, ledgers, bounds,
       PageType, FormType, LedgerType, BoundType, OpsType
<1> QED BY <1>2, <1>3 DEF Loads

LEMMA StartTypes ==
  ASSUME TypeOK, NEW s \in Slots, NEW k \in Kinds, NEW pc \in {"approving", "calling"},
         NEW a \in Nat, NEW l \in 0 .. 4, Start(s, k, pc, a, l)
  PROVE  TypeOK'
<1>0. PageType /\ FormType /\ ListType /\ LedgerType /\ BoundType /\ OpsType
  BY TypeParts
<1>1. SUFFICES PageType' /\ FormType' /\ ListType' /\ LedgerType' /\ BoundType' /\ OpsType'
  BY NextTypeParts
<1> DEFINE o == [pc |-> pc, kind |-> k, here |-> TRUE, amount |-> a,
                 approve |-> Approval(k, a, l), level |-> l,
                 next |-> NoLevel, clean |-> Affordable(k, a, l), out |-> "none"]
<1>2. o \in OpType
  <2>1. Approval(k, a, l) \in Nat
    BY ApprovalNat
  <2>2. Affordable(k, a, l) \in BOOLEAN
    BY DEF Affordable
  <2> QED BY <2>1, <2>2 DEF OpType, NoLevel
<1>3. op' = [op EXCEPT ![s] = o]
  BY DEF Start
<1> HIDE DEF o
<1>4. OpsType'
  BY <1>0, <1>2, <1>3, OpsExcept
<1> QED
  BY <1>0, <1>4 DEF Start, form, list, upgrade, ledgers,
     PageType, FormType, ListType, LedgerType, BoundType

LEMMA ClickTypes == ASSUME TypeOK, NEW s \in Slots, Click(s) PROVE TypeOK'
<1>0. typed \in Nat /\ target \in 0 .. 4 /\ NoLevel \in 0 .. 4 /\ 0 \in Nat
  BY DEF TypeOK, NoLevel
<1>1. {"create_dog", "add_cycles", "dog_level_upgrade", "leave_alliance", "create_alliance",
       "join_alliance"} \subseteq Kinds
  BY DEF Kinds, MinerKinds, AllianceKinds
<1>2. CASE BtnCreateDog(s)
  BY <1>0, <1>1, <1>2, StartTypes DEF BtnCreateDog
<1>3. CASE BtnBuyAmount(s)
  BY <1>0, <1>1, <1>3, StartTypes DEF BtnBuyAmount
<1>4. CASE BtnUpdate(s)
  BY <1>0, <1>1, <1>4, StartTypes DEF BtnUpdate
<1>5. CASE BtnLeave(s)
  BY <1>0, <1>1, <1>5, StartTypes DEF BtnLeave
<1>6. CASE BtnCreateAlliance(s)
  BY <1>0, <1>1, <1>6, StartTypes DEF BtnCreateAlliance
<1>7. CASE BtnJoin(s)
  BY <1>0, <1>1, <1>7, StartTypes DEF BtnJoin
<1> QED BY <1>2, <1>3, <1>4, <1>5, <1>6, <1>7 DEF Click

\* The answers to an operation.
LEMMA ApprovalTypes ==
  ASSUME TypeOK, NEW s \in Slots, ApproveOk(s) \/ ApproveErr(s) \/ ApproveRejected(s)
  PROVE  TypeOK'
<1>0. PageType /\ FormType /\ ListType /\ LedgerType /\ BoundType /\ OpsType
  BY TypeParts
<1>1. SUFFICES PageType' /\ FormType' /\ ListType' /\ LedgerType' /\ BoundType' /\ OpsType'
  BY NextTypeParts
<1>2. op[s] \in OpType /\ Mine(s) \in Tokens /\ op[s].approve \in Nat
  BY <1>0, TokenOfToken, OpParts DEF OpsType, Mine
<1>3. Approve(s) => LedgerType'
  <2> SUFFICES ASSUME Approve(s) PROVE LedgerType'
    OBVIOUS
  <2>1. PICK t \in Tokens : t = Mine(s)
    BY <1>2
  <2>2. Fee[t] \in Nat /\ balance[t] \in Nat /\ balance[t] >= Fee[t]
    BY <1>0, <2>1, FeeNat DEF Approve, LedgerType
  <2> QED BY <1>0, <1>2, <2>1, <2>2 DEF Approve, LedgerType
<1>4. UNCHANGED ledgers => LedgerType'
  BY <1>0 DEF ledgers, LedgerType
<1>5. CASE ApproveOk(s)
  <2>1. OpsType'
    BY <1>0, <1>2, <1>5, OpUpdates, OpsTouched DEF ApproveOk
  <2> QED
    BY <1>0, <1>3, <1>5, <2>1 DEF ApproveOk, ui, form, list, upgrade, bounds,
       PageType, FormType, ListType, BoundType
<1>6. CASE ApproveErr(s)
  <2>1. op' = [op EXCEPT ![s] = [op[s] EXCEPT !.pc = "calling", !.clean = FALSE]]
    BY <1>0, <1>6 DEF ApproveErr, OpsType, OpType
  <2>2. OpsType'
    BY <1>0, <1>2, <2>1, OpUpdates, OpsExcept
  <2> QED
    BY <1>0, <1>4, <1>6, <2>2 DEF ApproveErr, Fails, ui, form, list, upgrade, bounds,
       PageType, FormType, ListType, BoundType
<1>7. CASE ApproveRejected(s)
  <2>1. OpsType'
    BY <1>0, <1>7, NoOpType, OpsTouched DEF ApproveRejected
  <2>2. PageType'
    <3>1. op[s].kind \in Kinds
      BY <1>2, OpParts
    <3> QED BY <1>0, <1>7, <3>1 DEF ApproveRejected, PageType
  <2> QED
    BY <1>0, <1>3, <1>4, <1>7, <2>1, <2>2 DEF ApproveRejected, Fails, form, list, upgrade,
       bounds, FormType, ListType, BoundType
<1> QED BY <1>5, <1>6, <1>7

LEMMA MainTypes ==
  ASSUME TypeOK, NEW s \in Slots, MainRefuses(s) \/ MainCharges(s) \/ MainServes(s)
  PROVE  TypeOK'
<1>0. PageType /\ FormType /\ ListType /\ LedgerType /\ BoundType /\ OpsType
  BY TypeParts
<1>1. SUFFICES PageType' /\ FormType' /\ ListType' /\ LedgerType' /\ BoundType' /\ OpsType'
  BY NextTypeParts
<1>2. op[s] \in OpType
  BY <1>0 DEF OpsType
<1>3. CASE MainRefuses(s)
  <2>1. PICK q \in {"err", "thrown"} :
             op' = [op EXCEPT ![s].pc = "answered", ![s].out = q]
    BY <1>3 DEF MainRefuses
  <2>2. op' = [op EXCEPT ![s] = [op[s] EXCEPT !.pc = "answered", !.out = q]]
    BY <1>0, <2>1 DEF OpsType, OpType
  <2>3. OpsType'
    BY <1>0, <1>2, <2>2, OpUpdates, OpsExcept
  <2> QED
    BY <1>0, <1>3, <2>3 DEF MainRefuses, Fails, ui, form, list, upgrade, ledgers, bounds,
       PageType, FormType, ListType, LedgerType, BoundType
<1>4. CASE MainCharges(s)
  <2>1. PICK t \in Tokens, p \in Nat, same \in BOOLEAN :
             /\ t = TokenOf(op[s].kind, level)
             /\ p = Price(op[s].kind, op[s].amount, level)
             /\ same = (op[s].clean /\ t = Mine(s))
    <3>1. TokenOf(op[s].kind, level) \in Tokens
      BY TokenOfToken
    <3>2. Price(op[s].kind, op[s].amount, level) \in Nat
      BY <1>2, OpParts, PriceNat
    <3> QED BY <3>1, <3>2, Zenon
  <2>2. CASE /\ allowance[t] >= p /\ balance[t] >= p
             /\ allowance' = [allowance EXCEPT ![t] = @ - p]
             /\ balance' = [balance EXCEPT ![t] = @ - p]
             /\ op' = Touched(s, t, [op[s] EXCEPT !.pc = "serving", !.clean = same,
                                     !.next = IF op[s].kind = "dog_level_upgrade"
                                              THEN level + 1 ELSE NoLevel])
    <3>1. LedgerType'
      BY <1>0, <1>4, <2>2 DEF LedgerType, MainCharges
    <3>2. PICK n \in 0 .. 4 : n = (IF op[s].kind = "dog_level_upgrade"
                                   THEN level + 1 ELSE NoLevel)
      <4>1. op[s].kind = "dog_level_upgrade" => level \in 1 .. 3
        BY <1>0, <1>4 DEF MainCharges, RefusedUnpaid, LedgerType, Levels, Diamond
      <4> QED BY <4>1 DEF NoLevel
    <3>3. [op[s] EXCEPT !.pc = "serving", !.clean = same, !.next = n] \in OpType
      BY <1>2, OpUpdates
    <3>4. OpsType'
      BY <1>0, <2>2, <3>2, <3>3, OpsTouched
    <3> QED
      BY <1>0, <1>4, <3>1, <3>4 DEF MainCharges, ui, form, list, upgrade, bounds,
         PageType, FormType, ListType, BoundType
  <2>3. CASE /\ op' = [op EXCEPT ![s].pc = "answered", ![s].out = "refused",
                                 ![s].clean = same]
             /\ UNCHANGED <<allowance, balance>>
    <3>1. op' = [op EXCEPT ![s] = [op[s] EXCEPT !.pc = "answered", !.out = "refused",
                                               !.clean = same]]
      BY <1>0, <2>3 DEF OpsType, OpType
    <3>2. OpsType'
      BY <1>0, <1>2, <3>1, OpUpdates, OpsExcept
    <3> QED
      BY <1>0, <1>4, <2>3, <3>2 DEF MainCharges, ui, form, list, upgrade, bounds,
         PageType, FormType, ListType, LedgerType, BoundType
  <2> QED BY <1>4, <2>1, <2>2, <2>3, Zenon DEF MainCharges
<1>5. CASE MainServes(s)
  <2>1. PICK q \in {"ok", "err", "thrown"} :
             op' = [op EXCEPT ![s].pc = "answered", ![s].out = q]
    BY <1>5 DEF MainServes
  <2>2. op' = [op EXCEPT ![s] = [op[s] EXCEPT !.pc = "answered", !.out = q]]
    BY <1>0, <2>1 DEF OpsType, OpType
  <2>3. OpsType'
    BY <1>0, <1>2, <2>2, OpUpdates, OpsExcept
  <2>4. LedgerType'
    <3>1. op[s].next # NoLevel => op[s].next \in Levels
      BY <1>2, OpParts DEF NoLevel, Levels
    <3> QED BY <1>0, <1>5, <3>1 DEF MainServes, LedgerType
  <2> QED
    BY <1>0, <1>5, <2>3, <2>4 DEF MainServes, Fails, ui, form, list, upgrade, bounds,
       PageType, FormType, ListType, BoundType
<1> QED BY <1>3, <1>4, <1>5

LEMMA FinishTypes == ASSUME TypeOK, NEW s \in Slots, Finish(s) PROVE TypeOK'
<1>0. PageType /\ FormType /\ ListType /\ LedgerType /\ BoundType /\ OpsType
  BY TypeParts
<1>1. SUFFICES PageType' /\ FormType' /\ ListType' /\ LedgerType' /\ BoundType' /\ OpsType'
  BY NextTypeParts
<1>2. OpsType'
  BY <1>0, NoOpType, OpsExcept DEF Finish, Settle
<1>3. asked' \in BOOLEAN
  BY <1>0, Zenon DEF Finish, Settle, ListType
<1>4. loading' \in [Kinds -> BOOLEAN]
  <2>1. \A k \in Kinds : (loading[k] /\ k \notin Lowered(op[s].kind)) \in BOOLEAN
    OBVIOUS
  <2> QED BY <1>0, <2>1 DEF Finish, Settle, PageType
<1> QED
  BY <1>0, <1>2, <1>3, <1>4 DEF Finish, Settle, ledgers, bounds, form, upgrade,
     PageType, FormType, ListType, LedgerType, BoundType

LEMMA NextTypes == TypeOK /\ [Next]_vars => TypeOK'
<1> SUFFICES ASSUME TypeOK, [Next]_vars PROVE TypeOK'
  OBVIOUS
<1>1. CASE Input \/ Loads
  BY <1>1, InputTypes, LoadTypes
<1>2. ASSUME NEW s \in Slots, Click(s) \/ Answer(s) PROVE TypeOK'
  BY <1>2, ClickTypes, ApprovalTypes, MainTypes, FinishTypes DEF Answer
<1>3. CASE UNCHANGED vars
  BY <1>3 DEF vars, ui, form, list, upgrade, ledgers, bounds, TypeOK
<1>4. Free \subseteq Slots
  BY FreeSlots
<1> QED BY <1>1, <1>2, <1>3, <1>4 DEF Next

(***************************************************************************)
(* Money.                                                                  *)
(***************************************************************************)
LEMMA InitCovered == Init => AllCovered
BY DEF Init, AllCovered, OpCovered, Covered, NoOp

\* Only the kind and the level decide on a token, and with the amount on a price.
LEMMA SameMoney ==
  ASSUME NEW o, NEW k, k.kind = o.kind, k.level = o.level, k.amount = o.amount
  PROVE  Token(k) = Token(o) /\ PriceOf(k) = PriceOf(o) /\ Surplus(k) = Surplus(o)
BY DEF Token, PriceOf, Surplus

\* A step of one operation that moves no money.
LEMMA CoveredStill ==
  ASSUME TypeOK, AllCovered, NEW s \in Slots, NEW k, op' = [op EXCEPT ![s] = k],
         UNCHANGED <<allowance, balance, icpfee>>,
         Covered(k, allowance[Token(k)], balance[Token(k)])
  PROVE  AllCovered'
<1>1. ASSUME NEW x \in Slots
      PROVE  Covered(op'[x], allowance'[Token(op'[x])], balance'[Token(op'[x])])
  <2>1. CASE x = s
    BY <2>1 DEF TypeOK
  <2>2. CASE x # s
    BY <2>2 DEF TypeOK, AllCovered, OpCovered
  <2> QED BY <2>1, <2>2
<1>2. ASSUME NEW x \in Slots PROVE OpCovered(x)'
  BY <1>1 DEF OpCovered
<1> QED BY <1>2 DEF AllCovered

\* One that moves token t and disturbs the others on it.
LEMMA CoveredTouched ==
  ASSUME TypeOK, AllCovered, NEW s \in Slots, NEW t \in Tokens, NEW k,
         op' = Touched(s, t, k),
         \A u \in Tokens \ {t} : allowance'[u] = allowance[u] /\ balance'[u] = balance[u],
         Covered(k, allowance'[Token(k)], balance'[Token(k)])
  PROVE  AllCovered'
<1>1. ASSUME NEW x \in Slots
      PROVE  Covered(op'[x], allowance'[Token(op'[x])], balance'[Token(op'[x])])
  <2>0. PICK o \in OpType : o = op[x]
    BY DEF TypeOK
  <2>1. Covered(o, allowance[Token(o)], balance[Token(o)])
    BY <2>0 DEF AllCovered, OpCovered
  <2>2. CASE x = s
    BY <2>2 DEF Touched
  <2>3. CASE x # s /\ o.pc # "idle" /\ Mine(x) = t
    <3> DEFINE m == [o EXCEPT !.clean = FALSE]
    <3>1. op'[x] = m
      BY <2>0, <2>3 DEF Touched
    <3>2. /\ m.kind = o.kind /\ m.level = o.level /\ m.amount = o.amount
          /\ m.pc = o.pc /\ m.approve = o.approve /\ m.clean = FALSE
      BY DEF OpType
    <3> HIDE DEF m
    <3>3. Covered(m, allowance'[Token(m)], balance'[Token(m)])
      BY <2>1, <3>2, SameMoney DEF Covered, Worth
    <3> QED BY <3>1, <3>3
  <2>4. CASE x # s /\ o.pc # "idle" /\ Mine(x) # t
    <3>1. op'[x] = o
      BY <2>0, <2>4 DEF Touched
    <3>2. Token(o) \in Tokens \ {t}
      BY <2>0, <2>4, TokenOfToken DEF Token, Mine
    <3> QED BY <2>1, <3>1, <3>2
  <2>5. CASE x # s /\ o.pc = "idle"
    <3>1. op'[x] = o
      BY <2>0, <2>5 DEF Touched
    <3>2. o.clean => o.out # "refused"
      BY <2>1 DEF Covered
    <3> QED BY <2>5, <3>1, <3>2 DEF Covered
  <2> QED BY <2>2, <2>3, <2>4, <2>5
<1>2. ASSUME NEW x \in Slots PROVE OpCovered(x)'
  BY <1>1 DEF OpCovered
<1> QED BY <1>2 DEF AllCovered

\* The steps that touch neither operations nor ledgers.
LEMMA CoveredSame ==
  ASSUME AllCovered, UNCHANGED <<op, allowance, balance>> PROVE AllCovered'
BY DEF AllCovered, OpCovered

LEMMA InputCovered == ASSUME TypeOK, AllCovered, Input \/ Loads PROVE AllCovered'
<1>1. ASSUME NEW p \in Pages, Navigate(p) PROVE AllCovered'
  <2>1. ASSUME NEW x \in Slots
        PROVE  Covered(op'[x], allowance'[Token(op'[x])], balance'[Token(op'[x])])
    <3>0. PICK o \in OpType : o = op[x]
      BY DEF TypeOK
    <3>1. Covered(o, allowance[Token(o)], balance[Token(o)])
      BY <3>0 DEF AllCovered, OpCovered
    <3> DEFINE m == [o EXCEPT !.here = FALSE]
    <3>2. op'[x] = m /\ UNCHANGED <<allowance, balance>>
      BY <1>1, <3>0 DEF Navigate, ledgers
    <3>3. /\ m.kind = o.kind /\ m.level = o.level /\ m.amount = o.amount
          /\ m.pc = o.pc /\ m.approve = o.approve /\ m.clean = o.clean /\ m.out = o.out
      BY DEF OpType
    <3> HIDE DEF m
    <3>4. Covered(m, allowance[Token(m)], balance[Token(m)])
      BY <3>1, <3>3, SameMoney DEF Covered, Worth
    <3> QED BY <3>2, <3>4
  <2>2. ASSUME NEW x \in Slots PROVE OpCovered(x)'
    BY <2>1 DEF OpCovered
  <2> QED BY <2>2 DEF AllCovered
<1>2. CASE InputAmountChange \/ BtnMax \/ BtnTopUp \/ OpenLeaveModal \/ BtnJoinModal
  BY <1>2, CoveredSame DEF InputAmountChange, BtnMax, BtnTopUp, OpenLeaveModal, BtnJoinModal,
     OpenModal, ledgers
<1>3. CASE GoOfTable \/ GoOfPhone \/ CloseModal \/ HandleMessageClose
  BY <1>3, CoveredSame DEF GoOfTable, GoOfPhone, OpenTopUpModal, OpenModal, CloseModal,
     HandleMessageClose, ledgers
<1>4. CASE BtnUpdateDead \/ BtnBuyFraction
  BY <1>4, CoveredSame DEF BtnUpdateDead, BtnBuyFraction, DeadEnd, ledgers
<1>5. CASE Loads
  BY <1>5, CoveredSame DEF Loads, FeeLoads, DecimalsLoad, BalanceLoads, DogInfoRead,
     DogInfoAnswer, ledgers
<1> QED BY <1>1, <1>2, <1>3, <1>4, <1>5 DEF Input

\* What is approved covers the price, and who can pay when it starts is undisturbed.
LEMMA StartCovered ==
  ASSUME TypeOK, AllCovered, NEW s \in Slots, NEW k \in Kinds,
         NEW pc \in {"approving", "calling"}, NEW a \in Nat, NEW l \in 0 .. 4,
         Start(s, k, pc, a, l), k = "leave_alliance" <=> pc = "calling"
  PROVE  AllCovered'
<1> DEFINE o == [pc |-> pc, kind |-> k, here |-> TRUE, amount |-> a,
                 approve |-> Approval(k, a, l), level |-> l,
                 next |-> NoLevel, clean |-> Affordable(k, a, l), out |-> "none"]
<1>1. op' = [op EXCEPT ![s] = o] /\ UNCHANGED <<allowance, balance, icpfee>>
  BY DEF Start, ledgers, form
<1>2. /\ o.pc = pc /\ o.kind = k /\ o.amount = a /\ o.level = l /\ o.out = "none"
      /\ o.approve = Approval(k, a, l) /\ o.clean = Affordable(k, a, l)
  OBVIOUS
<1> HIDE DEF o
<1>3. Token(o) = TokenOf(k, l) /\ PriceOf(o) = Price(k, a, l)
  BY <1>2 DEF Token, PriceOf
<1>4. k # "leave_alliance" => Worth(o)
  BY <1>2, <1>3, ApprovalCovers DEF Worth, Surplus
<1>5. o.clean => balance[Token(o)] >= Fee[Token(o)] + PriceOf(o)
  BY <1>2, <1>3 DEF Affordable
<1>6. Covered(o, allowance[Token(o)], balance[Token(o)])
  BY <1>2, <1>4, <1>5 DEF Covered
<1> QED BY <1>1, <1>6, CoveredStill

LEMMA ClickCovered == ASSUME TypeOK, AllCovered, NEW s \in Slots, Click(s) PROVE AllCovered'
<1>0. typed \in Nat /\ target \in 0 .. 4 /\ NoLevel \in 0 .. 4 /\ 0 \in Nat
  BY DEF TypeOK, NoLevel
<1>1. {"create_dog", "add_cycles", "dog_level_upgrade", "leave_alliance", "create_alliance",
       "join_alliance"} \subseteq Kinds
  BY DEF Kinds, MinerKinds, AllianceKinds
<1>2. CASE BtnCreateDog(s)
  BY <1>0, <1>1, <1>2, StartCovered DEF BtnCreateDog
<1>3. CASE BtnBuyAmount(s)
  BY <1>0, <1>1, <1>3, StartCovered DEF BtnBuyAmount
<1>4. CASE BtnUpdate(s)
  BY <1>0, <1>1, <1>4, StartCovered DEF BtnUpdate
<1>5. CASE BtnLeave(s)
  BY <1>0, <1>1, <1>5, StartCovered DEF BtnLeave
<1>6. CASE BtnCreateAlliance(s)
  BY <1>0, <1>1, <1>6, StartCovered DEF BtnCreateAlliance
<1>7. CASE BtnJoin(s)
  BY <1>0, <1>1, <1>7, StartCovered DEF BtnJoin
<1> QED BY <1>2, <1>3, <1>4, <1>5, <1>6, <1>7 DEF Click

\* An approval leaves the allowance it names and takes its own fee from the account.
LEMMA ApprovalCovered ==
  ASSUME TypeOK, AllCovered, NEW s \in Slots, ApproveOk(s) \/ ApproveErr(s) \/ ApproveRejected(s)
  PROVE  AllCovered'
<1>0. PICK o \in OpType : o = op[s]
  BY DEF TypeOK
<1>1. Covered(o, allowance[Token(o)], balance[Token(o)])
  BY <1>0 DEF AllCovered, OpCovered
<1>2. PICK t \in Tokens : t = Mine(s)
  BY TokenOfToken DEF Mine
<1>3. Token(o) = t
  BY <1>0, <1>2 DEF Token, Mine
<1>4. /\ Fee[t] \in Nat /\ balance[t] \in Nat /\ o.approve \in Nat /\ PriceOf(o) \in Nat
      /\ allowance \in [Tokens -> Nat] /\ balance \in [Tokens -> Nat]
  BY FeeNat, OpParts, PriceNat DEF TypeOK, PriceOf
<1>5. Approve(s) => /\ allowance' = [allowance EXCEPT ![t] = o.approve]
                    /\ balance' = [balance EXCEPT ![t] = @ - Fee[t]]
  BY <1>0, <1>2 DEF Approve
<1>6. Approve(s) => \A u \in Tokens \ {t} :
                        allowance'[u] = allowance[u] /\ balance'[u] = balance[u]
  BY <1>4, <1>5
<1>7. CASE ApproveOk(s)
  <2> DEFINE k == [o EXCEPT !.pc = "calling"]
  <2>1. op' = Touched(s, t, k)
    BY <1>0, <1>2, <1>7 DEF ApproveOk
  <2>2. /\ k.kind = o.kind /\ k.level = o.level /\ k.amount = o.amount
        /\ k.pc = "calling" /\ k.approve = o.approve /\ k.clean = o.clean /\ k.out = o.out
    BY DEF OpType
  <2> HIDE DEF k
  <2>3. allowance'[t] = o.approve /\ balance'[t] = balance[t] - Fee[t]
    BY <1>4, <1>5, <1>7 DEF ApproveOk
  <2>4. o.pc = "approving"
    BY <1>0, <1>7 DEF ApproveOk
  <2>5. Token(k) = t /\ PriceOf(k) = PriceOf(o) /\ (Worth(o) => Worth(k))
    BY <1>3, <2>2, SameMoney DEF Worth
  <2>6. Covered(k, allowance'[t], balance'[t])
    BY <1>1, <1>3, <1>4, <2>2, <2>3, <2>4, <2>5 DEF Covered
  <2> QED BY <1>6, <1>7, <2>1, <2>5, <2>6, CoveredTouched DEF ApproveOk
<1>8. CASE ApproveErr(s)
  <2> DEFINE k == [o EXCEPT !.pc = "calling", !.clean = FALSE]
  <2>1. op' = [op EXCEPT ![s] = k] /\ UNCHANGED <<allowance, balance, icpfee>>
    BY <1>0, <1>8 DEF ApproveErr, ledgers, form, TypeOK, OpType
  <2>2. /\ k.kind = o.kind /\ k.level = o.level /\ k.amount = o.amount
        /\ k.pc = "calling" /\ k.approve = o.approve /\ k.clean = FALSE
    BY DEF OpType
  <2> HIDE DEF k
  <2>3. o.pc = "approving"
    BY <1>0, <1>8 DEF ApproveErr
  <2>4. Covered(k, allowance[Token(k)], balance[Token(k)])
    BY <1>1, <2>2, <2>3, SameMoney DEF Covered, Worth
  <2> QED BY <2>1, <2>4, CoveredStill
<1>9. CASE ApproveRejected(s)
  <2>1. op' = Touched(s, t, NoOp)
    BY <1>2, <1>9 DEF ApproveRejected
  <2>2. \A u \in Tokens \ {t} : allowance'[u] = allowance[u] /\ balance'[u] = balance[u]
    BY <1>6, <1>9 DEF ApproveRejected, ledgers
  <2>3. Covered(NoOp, allowance'[Token(NoOp)], balance'[Token(NoOp)])
    BY DEF Covered, NoOp
  <2> QED BY <2>1, <2>2, <2>3, CoveredTouched
<1> QED BY <1>7, <1>8, <1>9

\* A charge takes the price of the level the dog has: that of an undisturbed
\* operation is what it approved for, if the token is.
LEMMA ChargeCovered ==
  ASSUME TypeOK, AllCovered, NEW s \in Slots, MainCharges(s)
  PROVE  AllCovered'
<1>0. PICK o \in OpType : o = op[s]
  BY DEF TypeOK
<1>1. Covered(o, allowance[Token(o)], balance[Token(o)])
  BY <1>0 DEF AllCovered, OpCovered
<1>2. PICK t \in Tokens, p \in Nat, same \in BOOLEAN :
           /\ t = TokenOf(o.kind, level) /\ p = Price(o.kind, o.amount, level)
           /\ same = (o.clean /\ t = Token(o))
  <2>1. TokenOf(o.kind, level) \in Tokens
    BY TokenOfToken
  <2>2. Price(o.kind, o.amount, level) \in Nat
    BY OpParts, PriceNat
  <2> QED BY <2>1, <2>2, Zenon
<1>3. same => /\ p = PriceOf(o) /\ o.clean /\ t = Token(o)
  <2> SUFFICES ASSUME same PROVE p = PriceOf(o) /\ o.clean /\ t = Token(o)
    OBVIOUS
  <2>1. o.clean /\ t = Token(o)
    BY <1>2
  <2>2. o.kind \in Kinds /\ o.amount \in Nat /\ o.level \in 0 .. 4 /\ level \in 0 .. 4
    BY OpParts DEF TypeOK, Levels
  <2>3. Price(o.kind, o.amount, level) = Price(o.kind, o.amount, o.level)
    <3>1. TokenOf(o.kind, level) = TokenOf(o.kind, o.level)
      BY <1>2, <2>1 DEF Token
    <3> QED BY <2>2, <3>1, PriceByToken
  <2> QED BY <1>2, <2>1, <2>3 DEF PriceOf
<1>4. /\ o.pc = "calling" /\ o.kind # "leave_alliance"
      /\ allowance \in [Tokens -> Nat] /\ balance \in [Tokens -> Nat]
      /\ o.approve \in Nat /\ PriceOf(o) \in Nat
  BY <1>0, OpParts, PriceNat DEF MainCharges, TypeOK, PriceOf
<1>5. same => /\ allowance[t] = o.approve /\ balance[t] >= p /\ o.approve >= p
  BY <1>1, <1>3, <1>4 DEF Covered, Worth
<1>6. Worth(o)
  BY <1>1, <1>4 DEF Covered
<1>7. CASE /\ allowance[t] >= p /\ balance[t] >= p
           /\ allowance' = [allowance EXCEPT ![t] = @ - p]
           /\ balance' = [balance EXCEPT ![t] = @ - p]
           /\ op' = Touched(s, t, [o EXCEPT !.pc = "serving", !.clean = same,
                                   !.next = IF o.kind = "dog_level_upgrade"
                                            THEN level + 1 ELSE NoLevel])
  <2>1. PICK n : n = (IF o.kind = "dog_level_upgrade" THEN level + 1 ELSE NoLevel)
    OBVIOUS
  <2> DEFINE k == [o EXCEPT !.pc = "serving", !.clean = same, !.next = n]
  <2>2. op' = Touched(s, t, k)
    BY <1>7, <2>1
  <2>3. /\ k.kind = o.kind /\ k.level = o.level /\ k.amount = o.amount
        /\ k.pc = "serving" /\ k.approve = o.approve /\ k.clean = same /\ k.out = o.out
    BY DEF OpType
  <2> HIDE DEF k
  <2>4. allowance'[t] = allowance[t] - p
    BY <1>4, <1>7
  <2>5. \A u \in Tokens \ {t} : allowance'[u] = allowance[u] /\ balance'[u] = balance[u]
    BY <1>4, <1>7
  <2>6. Token(k) = Token(o) /\ PriceOf(k) = PriceOf(o) /\ Worth(k)
    BY <1>6, <2>3, SameMoney DEF Worth
  <2>7. same => allowance'[Token(k)] = k.approve - PriceOf(k)
    BY <1>3, <1>5, <2>3, <2>4, <2>6
  <2>8. same => k.out # "refused"
    BY <1>1, <1>3, <2>3 DEF Covered
  <2>9. Covered(k, allowance'[Token(k)], balance'[Token(k)])
    BY <1>4, <2>3, <2>6, <2>7, <2>8 DEF Covered
  <2> QED BY <2>2, <2>5, <2>9, CoveredTouched
<1>8. CASE /\ ~(allowance[t] >= p /\ balance[t] >= p)
           /\ op' = [op EXCEPT ![s].pc = "answered", ![s].out = "refused", ![s].clean = same]
           /\ UNCHANGED <<allowance, balance>>
  <2>1. ~same
    BY <1>4, <1>5, <1>8
  <2> DEFINE k == [o EXCEPT !.pc = "answered", !.out = "refused", !.clean = same]
  <2>2. op' = [op EXCEPT ![s] = k]
    BY <1>0, <1>8 DEF TypeOK, OpType
  <2>3. /\ k.kind = o.kind /\ k.level = o.level /\ k.amount = o.amount
        /\ k.pc = "answered" /\ k.approve = o.approve /\ k.clean = same
    BY DEF OpType
  <2> HIDE DEF k
  <2>4. Covered(k, allowance[Token(k)], balance[Token(k)])
    BY <1>6, <2>1, <2>3, SameMoney DEF Covered, Worth
  <2>5. UNCHANGED icpfee
    BY DEF MainCharges, form
  <2> QED BY <1>8, <2>2, <2>4, <2>5, CoveredStill
<1> QED BY <1>0, <1>2, <1>7, <1>8, Zenon DEF MainCharges, Mine, Token

LEMMA AnswerCovered ==
  ASSUME TypeOK, AllCovered, NEW s \in Slots, MainRefuses(s) \/ MainServes(s)
  PROVE  AllCovered'
<1>0. PICK o \in OpType : o = op[s]
  BY DEF TypeOK
<1>1. Covered(o, allowance[Token(o)], balance[Token(o)])
  BY <1>0 DEF AllCovered, OpCovered
<1>2. PICK q \in {"ok", "err", "thrown"} :
           op' = [op EXCEPT ![s].pc = "answered", ![s].out = q]
  BY DEF MainRefuses, MainServes
<1> DEFINE k == [o EXCEPT !.pc = "answered", !.out = q]
<1>3. op' = [op EXCEPT ![s] = k] /\ UNCHANGED <<allowance, balance, icpfee>>
  BY <1>0, <1>2 DEF MainRefuses, MainServes, ledgers, form, TypeOK, OpType
<1>4. /\ k.kind = o.kind /\ k.level = o.level /\ k.amount = o.amount
      /\ k.pc = "answered" /\ k.approve = o.approve /\ k.out = q
  BY DEF OpType
<1> HIDE DEF k
<1>5. o.pc # "idle"
  BY <1>0 DEF MainRefuses, MainServes
<1>6. Covered(k, allowance[Token(k)], balance[Token(k)])
  BY <1>1, <1>4, <1>5, SameMoney DEF Covered, Worth
<1> QED BY <1>3, <1>6, CoveredStill

LEMMA FinishCovered ==
  ASSUME TypeOK, AllCovered, NEW s \in Slots, Finish(s) PROVE AllCovered'
<1>1. op' = [op EXCEPT ![s] = NoOp] /\ UNCHANGED <<allowance, balance, icpfee>>
  BY DEF Finish, Settle, ledgers, form
<1>2. Covered(NoOp, allowance[Token(NoOp)], balance[Token(NoOp)])
  BY DEF Covered, NoOp
<1> QED BY <1>1, <1>2, CoveredStill

LEMMA NextCovered == TypeOK /\ AllCovered /\ [Next]_vars => AllCovered'
<1> SUFFICES ASSUME TypeOK, AllCovered, [Next]_vars PROVE AllCovered'
  OBVIOUS
<1>1. CASE Input \/ Loads
  BY <1>1, InputCovered
<1>2. ASSUME NEW s \in Slots, Click(s) \/ Answer(s) PROVE AllCovered'
  BY <1>2, ClickCovered, ApprovalCovered, ChargeCovered, AnswerCovered, FinishCovered DEF Answer
<1>3. CASE UNCHANGED vars
  BY <1>3, CoveredSame DEF vars, ledgers
<1>4. Free \subseteq Slots
  BY FreeSlots
<1> QED BY <1>1, <1>2, <1>3, <1>4 DEF Next

(***************************************************************************)
(* Spinners.                                                               *)
(***************************************************************************)
LEMMA InitSpinners == Init => Spinners
BY DEF Init, Spinners, SpinnerMeansWork, DisabledWhileInFlight, OneOfAKind, Shown, NoOp

\* The operations in flight are the same, with the same kinds and mounts.
SameOps ==
    \A x \in Slots : /\ op'[x].kind = op[x].kind /\ op'[x].here = op[x].here
                     /\ op'[x].pc = "idle" <=> op[x].pc = "idle"

\* A step of operations that go on, and a handler that gives up.
LEMMA SpinnersKeep ==
  ASSUME TypeOK, Spinners, SameOps, dead \subseteq dead',
         \A k \in Kinds : loading[k] => loading'[k],
         \A k \in Kinds : loading'[k] => loading[k] \/ k \in dead'
  PROVE  Spinners'
<1>1. SpinnerMeansWork'
  BY DEF Spinners, SpinnerMeansWork, SameOps
<1>2. \A s \in Slots : op[s].kind \in Kinds
  BY OpParts DEF TypeOK
<1>3. DisabledWhileInFlight'
  BY <1>2 DEF Spinners, DisabledWhileInFlight, SameOps
<1>4. OneOfAKind'
  BY DEF Spinners, OneOfAKind, SameOps, Shown
<1> QED BY <1>1, <1>3, <1>4 DEF Spinners

LEMMA SpinnersSame ==
  ASSUME TypeOK, Spinners, UNCHANGED <<op, loading, dead>> PROVE Spinners'
<1>1. SameOps
  BY DEF SameOps
<1> QED BY <1>1, SpinnersKeep

\* A new operation, whose button was enabled.
LEMMA SpinnersStart ==
  ASSUME TypeOK, Spinners, NEW s \in Slots, NEW k \in Kinds, ~loading[k], op[s].pc = "idle",
         NEW o, o.kind = k, o.here = TRUE, o.pc # "idle",
         op' = [op EXCEPT ![s] = o], loading' = [loading EXCEPT ![k] = TRUE], dead' = dead
  PROVE  Spinners'
<1>0. \A x \in Slots : op'[x] = IF x = s THEN o ELSE op[x]
  BY DEF TypeOK
<1>1. \A j \in Kinds : loading'[j] = IF j = k THEN TRUE ELSE loading[j]
  BY DEF TypeOK
<1>2. SpinnerMeansWork'
  BY <1>0, <1>1 DEF Spinners, SpinnerMeansWork
<1>3. \A x \in Slots : op[x].kind \in Kinds
  BY OpParts DEF TypeOK
<1>4. DisabledWhileInFlight'
  <2> SUFFICES ASSUME NEW x \in Slots, op'[x].pc # "idle", op'[x].here,
                      op'[x].kind # "create_dog"
               PROVE  loading'[op'[x].kind]
    BY DEF DisabledWhileInFlight
  <2>1. CASE x = s
    BY <1>0, <1>1, <2>1
  <2>2. CASE x # s
    <3>1. op'[x] = op[x]
      BY <1>0, <2>2
    <3>2. loading[op[x].kind]
      BY <3>1 DEF Spinners, DisabledWhileInFlight
    <3> QED BY <1>1, <1>3, <3>1, <3>2
  <2> QED BY <2>1, <2>2
<1>5. OneOfAKind'
  <2>1. \A x \in Slots : Shown(x) /\ op[x].kind = k => k = "create_dog"
    BY DEF Spinners, DisabledWhileInFlight, Shown
  <2> QED BY <1>0, <2>1 DEF Spinners, OneOfAKind, Shown
<1> QED BY <1>2, <1>4, <1>5 DEF Spinners

\* The end of an operation: if the page is still there its spinner goes, and that of
\* "Create a Dog Miner" may.
LEMMA SpinnersEnd ==
  ASSUME TypeOK, Spinners, NEW s \in Slots, op[s].pc # "idle", NEW lowered,
         NEW ended \in OpType, ended.pc = "idle", op'[s] = ended,
         op[s].kind \in lowered, lowered \subseteq {op[s].kind, "create_dog"},
         \A x \in Slots \ {s} : /\ op'[x].kind = op[x].kind /\ op'[x].here = op[x].here
                                /\ op'[x].pc = op[x].pc,
         \A k \in Kinds : loading'[k] <=> loading[k] /\ ~(op[s].here /\ k \in lowered),
         dead' = dead
  PROVE  Spinners'
<1>1. SpinnerMeansWork'
  <2> SUFFICES ASSUME NEW k \in Kinds, loading'[k], k \notin dead
               PROVE  \E x \in Slots : op'[x].pc # "idle" /\ op'[x].kind = k /\ op'[x].here
    BY DEF SpinnerMeansWork
  <2>1. PICK x \in Slots : op[x].pc # "idle" /\ op[x].kind = k /\ op[x].here
    BY DEF Spinners, SpinnerMeansWork
  <2>2. x # s
    BY <2>1
  <2> QED BY <2>1, <2>2
<1>2. \A x \in Slots : op[x].kind \in Kinds
  BY OpParts DEF TypeOK
<1>3. DisabledWhileInFlight'
  <2> SUFFICES ASSUME NEW x \in Slots, op'[x].pc # "idle", op'[x].here,
                      op'[x].kind # "create_dog"
               PROVE  loading'[op'[x].kind]
    BY DEF DisabledWhileInFlight
  <2>1. x # s /\ Shown(x) /\ op'[x].kind = op[x].kind
    BY DEF Shown
  <2>2. loading[op[x].kind]
    BY <2>1 DEF Spinners, DisabledWhileInFlight, Shown
  <2>3. op[s].here => op[x].kind # op[s].kind
    BY <2>1 DEF Spinners, OneOfAKind, Shown
  <2> QED BY <1>2, <2>1, <2>2, <2>3
<1>4. OneOfAKind'
  BY DEF Spinners, OneOfAKind, Shown
<1> QED BY <1>1, <1>3, <1>4 DEF Spinners

LEMMA InputSpinners == ASSUME TypeOK, Spinners, Input \/ Loads PROVE Spinners'
<1>1. ASSUME NEW p \in Pages, Navigate(p) PROVE Spinners'
  <2>1. \A x \in Slots : ~op'[x].here
    <3>1. \A x \in Slots : [op[x] EXCEPT !.here = FALSE].here = FALSE
      BY OpParts DEF TypeOK, OpType
    <3> QED BY <1>1, <3>1 DEF Navigate
  <2>2. \A k \in Kinds : ~loading'[k]
    BY <1>1 DEF Navigate
  <2> QED
    BY <2>1, <2>2 DEF Spinners, SpinnerMeansWork, DisabledWhileInFlight, OneOfAKind, Shown
<1>2. CASE InputAmountChange \/ BtnMax \/ BtnTopUp \/ OpenLeaveModal \/ BtnJoinModal
  BY <1>2, SpinnersSame DEF InputAmountChange, BtnMax, BtnTopUp, OpenLeaveModal, BtnJoinModal,
     OpenModal, ui
<1>3. CASE GoOfTable \/ GoOfPhone \/ CloseModal \/ HandleMessageClose
  BY <1>3, SpinnersSame DEF GoOfTable, GoOfPhone, OpenTopUpModal, OpenModal, CloseModal,
     HandleMessageClose
<1>4. ASSUME NEW k \in Kinds, DeadEnd(k) PROVE Spinners'
  <2>1. SameOps
    BY <1>4 DEF DeadEnd, SameOps
  <2>2. \A j \in Kinds : loading'[j] = IF j = k THEN TRUE ELSE loading[j]
    BY <1>4 DEF DeadEnd, TypeOK
  <2> QED BY <1>4, <2>1, <2>2, SpinnersKeep DEF DeadEnd
<1>5. CASE BtnUpdateDead \/ BtnBuyFraction
  BY <1>4, <1>5 DEF BtnUpdateDead, BtnBuyFraction, Kinds, MinerKinds
<1>6. CASE Loads
  BY <1>6, SpinnersSame DEF Loads, FeeLoads, DecimalsLoad, BalanceLoads, DogInfoRead,
     DogInfoAnswer, ui
<1> QED BY <1>1, <1>2, <1>3, <1>5, <1>6 DEF Input

LEMMA StartSpinners ==
  ASSUME TypeOK, Spinners, NEW s \in Slots, NEW k \in Kinds,
         NEW pc \in {"approving", "calling"}, NEW a, NEW l,
         Start(s, k, pc, a, l), ~loading[k]
  PROVE  Spinners'
<1> DEFINE o == [pc |-> pc, kind |-> k, here |-> TRUE, amount |-> a,
                 approve |-> Approval(k, a, l), level |-> l,
                 next |-> NoLevel, clean |-> Affordable(k, a, l), out |-> "none"]
<1>1. /\ op' = [op EXCEPT ![s] = o] /\ op[s].pc = "idle" /\ dead' = dead
      /\ loading' = [loading EXCEPT ![k] = TRUE]
  BY DEF Start
<1>2. o.kind = k /\ o.here = TRUE /\ o.pc # "idle"
  OBVIOUS
<1> HIDE DEF o
<1> QED BY <1>1, <1>2, SpinnersStart

LEMMA ClickSpinners == ASSUME TypeOK, Spinners, NEW s \in Slots, Click(s) PROVE Spinners'
<1>1. {"create_dog", "add_cycles", "dog_level_upgrade", "leave_alliance", "create_alliance",
       "join_alliance"} \subseteq Kinds
  BY DEF Kinds, MinerKinds, AllianceKinds
<1>2. CASE BtnCreateDog(s)
  BY <1>1, <1>2, StartSpinners DEF BtnCreateDog, CreateAMiner
<1>3. CASE BtnBuyAmount(s)
  BY <1>1, <1>3, StartSpinners DEF BtnBuyAmount, AddCyclesModal
<1>4. CASE BtnUpdate(s)
  BY <1>1, <1>4, StartSpinners DEF BtnUpdate, UpgradeModal
<1>5. CASE BtnLeave(s)
  BY <1>1, <1>5, StartSpinners DEF BtnLeave, LeaveModal
<1>6. CASE BtnCreateAlliance(s)
  BY <1>1, <1>6, StartSpinners DEF BtnCreateAlliance, CreateAnAlliance
<1>7. CASE BtnJoin(s)
  BY <1>1, <1>7, StartSpinners DEF BtnJoin, JoinModal
<1> QED BY <1>2, <1>3, <1>4, <1>5, <1>6, <1>7 DEF Click

\* Disturbing the others leaves them where they are.
LEMMA TouchedOthers ==
  ASSUME TypeOK, NEW s \in Slots, NEW t, NEW k, op' = Touched(s, t, k)
  PROVE  /\ op'[s] = k
         /\ \A x \in Slots \ {s} : /\ op'[x].kind = op[x].kind /\ op'[x].here = op[x].here
                                   /\ op'[x].pc = op[x].pc
<1>1. op'[s] = k
  BY DEF Touched
<1>2. ASSUME NEW x \in Slots \ {s}
      PROVE  op'[x].kind = op[x].kind /\ op'[x].here = op[x].here /\ op'[x].pc = op[x].pc
  <2>1. PICK o \in OpType : o = op[x]
    BY DEF TypeOK
  <2>2. op'[x] = o \/ op'[x] = [o EXCEPT !.clean = FALSE]
    BY <2>1 DEF Touched
  <2> DEFINE m == [o EXCEPT !.clean = FALSE]
  <2>3. m.kind = o.kind /\ m.here = o.here /\ m.pc = o.pc
    BY DEF OpType
  <2> HIDE DEF m
  <2>4. op'[x] = o \/ op'[x] = m
    BY <2>2 DEF m
  <2> QED BY <2>1, <2>3, <2>4
<1> QED BY <1>1, <1>2

LEMMA AnswerSpinners == ASSUME TypeOK, Spinners, NEW s \in Slots, Answer(s) PROVE Spinners'
<1>0. PICK o \in OpType : o = op[s]
  BY DEF TypeOK
<1>1. ASSUME NEW k, NEW t, k.kind = o.kind, k.here = o.here, k.pc # "idle", o.pc # "idle",
             op' = Touched(s, t, k) \/ op' = [op EXCEPT ![s] = k],
             UNCHANGED <<loading, dead>>
      PROVE  Spinners'
  <2>1. SameOps
    <3>1. CASE op' = Touched(s, t, k)
      BY <1>0, <1>1, <3>1, TouchedOthers DEF SameOps
    <3>2. CASE op' = [op EXCEPT ![s] = k]
      BY <1>0, <1>1, <3>2 DEF SameOps, TypeOK
    <3> QED BY <1>1, <3>1, <3>2
  <2> QED BY <1>1, <2>1, SpinnersKeep
<1>2. CASE ApproveOk(s)
  <2> DEFINE k == [o EXCEPT !.pc = "calling"]
  <2>1. op' = Touched(s, Mine(s), k) /\ o.pc # "idle" /\ UNCHANGED <<loading, dead>>
    BY <1>0, <1>2 DEF ApproveOk, ui
  <2>2. k.kind = o.kind /\ k.here = o.here /\ k.pc # "idle"
    BY DEF OpType
  <2> HIDE DEF k
  <2> QED BY <1>1, <2>1, <2>2
<1>3. CASE ApproveErr(s)
  <2> DEFINE k == [o EXCEPT !.pc = "calling", !.clean = FALSE]
  <2>1. op' = [op EXCEPT ![s] = k] /\ o.pc # "idle" /\ UNCHANGED <<loading, dead>>
    BY <1>0, <1>3 DEF ApproveErr, ui, TypeOK, OpType
  <2>2. k.kind = o.kind /\ k.here = o.here /\ k.pc # "idle"
    BY DEF OpType
  <2> HIDE DEF k
  <2> QED BY <1>1, <2>1, <2>2
<1>4. CASE MainCharges(s)
  <2>1. PICK same \in BOOLEAN : same = (o.clean /\ TokenOf(o.kind, level) = Mine(s))
    BY Zenon
  <2>2. PICK n : n = (IF o.kind = "dog_level_upgrade" THEN level + 1 ELSE NoLevel)
    OBVIOUS
  <2> DEFINE k == [o EXCEPT !.pc = "serving", !.clean = same, !.next = n]
             r == [o EXCEPT !.pc = "answered", !.out = "refused", !.clean = same]
  <2>3. /\ o.pc # "idle" /\ UNCHANGED <<loading, dead>>
        /\ \/ op' = Touched(s, TokenOf(o.kind, level), k)
           \/ op' = [op EXCEPT ![s].pc = "answered", ![s].out = "refused", ![s].clean = same]
    BY <1>0, <1>4, <2>1, <2>2 DEF MainCharges, ui
  <2>4. op' = [op EXCEPT ![s].pc = "answered", ![s].out = "refused", ![s].clean = same]
            => op' = [op EXCEPT ![s] = r]
    BY <1>0 DEF TypeOK, OpType
  <2>5. /\ k.kind = o.kind /\ k.here = o.here /\ k.pc # "idle"
        /\ r.kind = o.kind /\ r.here = o.here /\ r.pc # "idle"
    BY DEF OpType
  <2> HIDE DEF k, r
  <2>6. PICK t : t = TokenOf(o.kind, level)
    OBVIOUS
  <2> QED BY <1>1, <2>3, <2>4, <2>5, <2>6
<1>5. CASE MainRefuses(s) \/ MainServes(s)
  <2>1. PICK q \in {"ok", "err", "thrown"} :
             op' = [op EXCEPT ![s].pc = "answered", ![s].out = q]
    BY <1>5 DEF MainRefuses, MainServes
  <2> DEFINE k == [o EXCEPT !.pc = "answered", !.out = q]
  <2>2. op' = [op EXCEPT ![s] = k] /\ o.pc # "idle" /\ UNCHANGED <<loading, dead>>
    BY <1>0, <1>5, <2>1 DEF MainRefuses, MainServes, ui, TypeOK, OpType
  <2>3. k.kind = o.kind /\ k.here = o.here /\ k.pc # "idle"
    BY DEF OpType
  <2> HIDE DEF k
  <2> QED BY <1>1, <2>2, <2>3
<1>6. CASE ApproveRejected(s)
  <2>1. /\ op'[s] = NoOp
        /\ \A x \in Slots \ {s} : /\ op'[x].kind = op[x].kind /\ op'[x].here = op[x].here
                                  /\ op'[x].pc = op[x].pc
    BY <1>6, TouchedOthers DEF ApproveRejected
  <2>2. \A j \in Kinds : loading'[j] <=> loading[j] /\ ~(op[s].here /\ j \in {o.kind})
    BY <1>0, <1>6 DEF ApproveRejected, TypeOK
  <2>3. op[s].pc # "idle" /\ dead' = dead
    BY <1>6 DEF ApproveRejected
  <2>4. NoOp \in OpType /\ NoOp.pc = "idle"
    BY NoOpType DEF NoOp
  <2> QED BY <1>0, <2>1, <2>2, <2>3, <2>4, SpinnersEnd
<1>7. CASE Finish(s)
  <2>1. op' = [op EXCEPT ![s] = NoOp] /\ op[s].pc # "idle" /\ dead' = dead
    BY <1>7 DEF Finish, Settle
  <2>2. /\ op'[s] = NoOp
        /\ \A x \in Slots \ {s} : /\ op'[x].kind = op[x].kind /\ op'[x].here = op[x].here
                                  /\ op'[x].pc = op[x].pc
    BY <2>1 DEF TypeOK
  <2>3. PICK lowered : lowered = Lowered(o.kind)
    OBVIOUS
  <2>4. o.kind \in lowered /\ lowered \subseteq {o.kind, "create_dog"}
    BY <2>3 DEF Lowered
  <2>5. \A j \in Kinds : loading'[j] <=> loading[j] /\ ~(op[s].here /\ j \in lowered)
    BY <1>0, <1>7, <2>3 DEF Finish, Settle, TypeOK
  <2>6. NoOp \in OpType /\ NoOp.pc = "idle"
    BY NoOpType DEF NoOp
  <2> QED BY <1>0, <2>1, <2>2, <2>4, <2>5, <2>6, SpinnersEnd
<1> QED BY <1>2, <1>3, <1>4, <1>5, <1>6, <1>7 DEF Answer

LEMMA NextSpinners == TypeOK /\ Spinners /\ [Next]_vars => Spinners'
<1> SUFFICES ASSUME TypeOK, Spinners, [Next]_vars PROVE Spinners'
  OBVIOUS
<1>1. CASE Input \/ Loads
  BY <1>1, InputSpinners
<1>2. ASSUME NEW s \in Slots, Click(s) \/ Answer(s) PROVE Spinners'
  BY <1>2, ClickSpinners, AnswerSpinners
<1>3. CASE UNCHANGED vars
  BY <1>3, SpinnersSame DEF vars, ui
<1>4. Free \subseteq Slots
  BY FreeSlots
<1> QED BY <1>1, <1>2, <1>3, <1>4 DEF Next

(***************************************************************************)
(* The theorems.                                                           *)
(***************************************************************************)
\* Page, form, list, operations, ledgers and bounds keep their types: no balance and
\* no allowance falls below zero, and the dog has no level beyond Diamond (the
\* arithmetic of DogMiner.tsx:255-276 and bone_main's transfer_from).
THEOREM PaidTypesHold == Spec => []TypeOK
<1>1. Init => TypeOK
  BY InitTypes
<1>2. TypeOK /\ [Next]_vars => TypeOK'
  BY NextTypes
<1> QED BY <1>1, <1>2, PTL DEF Spec

\* What every operation in flight may rely on, for any number of them.
THEOREM AllCoveredHolds == Spec => []AllCovered
<1>1. Init => AllCovered
  BY InitCovered
<1>2. TypeOK /\ AllCovered /\ [Next]_vars => AllCovered'
  BY NextCovered
<1> QED BY <1>1, <1>2, PaidTypesHold, PTL DEF Spec

\* bone_main refuses the payment of an operation only if another one moved its token
\* in between, its approval failed, the wallet could not pay when it was started, or
\* the dog had another level by then: what the pages approve always covers what
\* bone_main takes (DogMiner.tsx:133, 273, 330-337 and DogAlliance.tsx:74, 213).
THEOREM RefusalsExplained == Spec => []RefusedOnlyIfDisturbed
<1>1. AllCovered => RefusedOnlyIfDisturbed
  BY DEF AllCovered, OpCovered, Covered, RefusedOnlyIfDisturbed
<1> QED BY <1>1, AllCoveredHolds, PTL

\* An undisturbed operation leaves at most a fee's worth approved, whatever amount was
\* typed, once the fee is known (DogMiner.tsx:273).
THEOREM LittleLeftApproved == Spec => []NothingMuchLeft
<1>1. TypeOK /\ AllCovered => NothingMuchLeft
  <2> SUFFICES ASSUME TypeOK, AllCovered, NEW s \in Slots,
                      op[s].pc = "serving", op[s].clean, Known(s)
               PROVE  allowance[Mine(s)] <= IF Mine(s) = "DOGMI" THEN 50 ELSE 2
    BY DEF NothingMuchLeft
  <2>1. PICK o \in OpType : o = op[s]
    BY DEF TypeOK
  <2>2. Covered(o, allowance[Token(o)], balance[Token(o)])
    BY <2>1 DEF AllCovered, OpCovered
  <2>3. Mine(s) = Token(o) /\ o.approve < 20000 * 10000
    BY <2>1 DEF Mine, Token, Known
  <2>4. /\ o.approve \in Nat /\ PriceOf(o) \in Nat
    BY OpParts, PriceNat DEF PriceOf
  <2>5. allowance[Token(o)] = o.approve - PriceOf(o) /\ o.approve <= PriceOf(o) + Surplus(o)
    BY <2>1, <2>2, <2>3 DEF Covered, Worth
  <2>6. Surplus(o) = IF Token(o) = "DOGMI" THEN 50 ELSE 2
    BY DEF Surplus
  <2> QED BY <2>3, <2>4, <2>5, <2>6
<1> QED BY <1>1, PaidTypesHold, AllCoveredHolds, PTL

\* The spinners and the buttons tell the truth of this mount, however many operations
\* run and wherever the user went in between.
THEOREM SpinnersHold == Spec => []Spinners
<1>1. Init => Spinners
  BY InitSpinners
<1>2. TypeOK /\ Spinners /\ [Next]_vars => Spinners'
  BY NextSpinners
<1> QED BY <1>1, <1>2, PaidTypesHold, PTL DEF Spec

\* A spinner turns only for an operation of this mount, or because its handler gave
\* up halfway (DogMiner.tsx:273-276, 336-343).
THEOREM SpinnersTrue == Spec => []SpinnerMeansWork
<1>1. Spinners => SpinnerMeansWork
  BY DEF Spinners
<1> QED BY <1>1, SpinnersHold, PTL

\* No operation of this mount runs twice at once, except for creations of dogs, whose
\* spinner the end of an upgrade lowers (DogMiner.tsx:380).
THEOREM ButtonsDisabled == Spec => [](DisabledWhileInFlight /\ OneOfAKind)
<1>1. Spinners => DisabledWhileInFlight /\ OneOfAKind
  BY DEF Spinners
<1> QED BY <1>1, SpinnersHold, PTL
=============================================================================
