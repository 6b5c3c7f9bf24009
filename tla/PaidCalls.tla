----------------------------- MODULE PaidCalls -----------------------------
(***************************************************************************)
(* The paid operations of the pages Dog Miner (DogMiner.tsx) and Dog       *)
(* Alliance (DogAlliance.tsx): the page asks a token's ledger to approve   *)
(* an amount for bone_main, then calls bone_main, which takes its price    *)
(* with transfer_from.  All operations of a wallet share one allowance per *)
(* token, and an approval overwrites it.                                   *)
(*                                                                         *)
(* One connected wallet and one dog of it are followed.  Going to the      *)
(* other page unmounts the component: its spinners and its progress bar    *)
(* are gone, but the calls it made go on.  Amounts are in 10^-4 ICP,       *)
(* 10^-1 BONE and 1 DOGMI; the one smallest unit the pages add (plus(1))   *)
(* is below that.                                                          *)
(***************************************************************************)
EXTENDS Integers, FiniteSets

CONSTANTS
    Slots,          \* bound: operations in flight at once
    Plans,          \* bound: what a user may start with and start in a run: the kinds
                    \* of operations, how many, the funds and the dog's level
    MaxFailures,    \* bound: approvals and calls that fail for reasons of their own
    Amounts,        \* ICP amounts the user may type
    Fee             \* the transfer fee of each ledger

Tokens == {"ICP", "BONE", "DOGMI"}
MinerKinds == {"create_dog", "add_cycles", "dog_level_upgrade", "leave_alliance"}
AllianceKinds == {"create_alliance", "join_alliance"}
Kinds == MinerKinds \cup AllianceKinds
Pages == {"Miner", "Alliance"}
Levels == 1 .. 4            \* Copper, Silver, Gold, Diamond
Diamond == 4
NoLevel == 0

ASSUME PaidAssumption ==
    /\ IsFiniteSet(Slots) /\ MaxFailures \in Nat
    /\ Plans \subseteq [kinds : SUBSET Kinds, clicks : Nat, funds : [Tokens -> Nat],
                        level : Levels]
    /\ Amounts \subseteq Nat
    /\ Fee \in [Tokens -> Nat]
    /\ Fee["ICP"] = 1 /\ Fee["BONE"] <= 1 /\ Fee["DOGMI"] <= 50

VARIABLES
    page,       \* the page mounted
    loading,    \* the spinner of each button of this mount
    bar,        \* the progress bar of this mount (SnackbarProgress, messageOpen)
    modal,      \* the modal open on this mount, which covers the page
    icpfee,     \* the ICP fee has been loaded by this mount
    decimals,   \* dogmidecimals has been loaded by this mount
    icpwells,   \* the ICP balance the add-cycles modal shows
    typed,      \* addcyclesamount
    fine,       \* addcyclesamount has more decimals than ICP
    isshow,     \* "Confirm" is replaced by a reason
    listed,     \* the level of the dog in dog_infos
    asked,      \* a dog_info of this mount is on its way to bone_main
    reads,      \* the levels answers of dog_info on their way back carry
    target,     \* curbtnitem: the level of the row the upgrade modal was opened on
    told,       \* updataname: the level the upgrade modal announces
    op,         \* the operation in each slot
    dead,       \* history: the buttons of this mount whose handler has thrown or
                \* returned after it had raised its spinner
    level,      \* the dog's level in bone_main
    allowance,  \* what bone_main may take of each token
    balance,    \* what the wallet holds of each token
    offered,    \* bound: the kinds of operations the user starts
    clicks,     \* bound: how many more
    failures

form == <<icpfee, decimals, icpwells, typed, fine, isshow>>
list == <<listed, asked, reads>>
upgrade == <<target, told>>
ui == <<page, loading, bar, modal, dead>>
ledgers == <<level, allowance, balance>>
bounds == <<offered, clicks>>
vars == <<ui, form, list, upgrade, op, ledgers, bounds, failures>>

NoOp == [pc |-> "idle", kind |-> "leave_alliance", here |-> FALSE, amount |-> 0,
         approve |-> 0, level |-> NoLevel, next |-> NoLevel, clean |-> TRUE,
         out |-> "none"]

Init ==
    /\ page = "Miner"
    /\ loading = [k \in Kinds |-> FALSE] /\ bar = FALSE /\ modal = "none"
    /\ icpfee = FALSE /\ decimals = FALSE
    /\ icpwells = 0 /\ typed = 0 /\ fine = FALSE /\ isshow = TRUE
    /\ listed = NoLevel /\ asked = TRUE /\ reads = {}
    /\ target = NoLevel /\ told = 2
    /\ op = [s \in Slots |-> NoOp] /\ dead = {}
    /\ allowance = [t \in Tokens |-> 0]
    /\ \E plan \in Plans :
         /\ level = plan.level /\ balance = plan.funds
         /\ offered = plan.kinds /\ clicks = plan.clicks
    /\ failures = 0

(***************************************************************************)
(* Amounts.                                                                *)
(***************************************************************************)
\* The token of an operation; an upgrade approves by the level it was opened on.
TokenOf(k, l) ==
    CASE k \in {"create_dog", "add_cycles"} -> "ICP"
      [] k = "dog_level_upgrade" /\ l >= 3 -> "DOGMI"
      [] OTHER -> "BONE"

\* A wrong variant, to be refuted: the price without the ledger's fee.
ApprovalOfPrice(k, a, l) ==
    CASE k = "create_dog" -> 10000
      [] k = "add_cycles" -> a
      [] OTHER -> 100

\* A wrong variant, to be refuted: every upgrade approves the DOGMI amount.
ApprovalInDefaults(k, a, l) ==
    CASE k = "create_dog" -> 10002
      [] k = "create_alliance" -> 2010
      [] OTHER -> 1000050

\* What the page approves.
Approval(k, a, l) ==
    CASE k = "create_dog" -> 10002
      [] k = "create_alliance" -> 2001
      [] k = "join_alliance" -> 101
      [] k = "add_cycles" -> IF icpfee THEN a + 2 * Fee["ICP"] ELSE a + 20000 * 10000
      [] k = "dog_level_upgrade" /\ l < 3 -> 1001
      [] OTHER -> 1000050

\* What bone_main takes, the ledger's fee included.  It reads the dog's level
\* itself, and takes one ICP fee less than the amount of an add_cycles.
Price(k, a, l) ==
    CASE k = "create_dog" -> 10000 + Fee["ICP"]
      [] k = "create_alliance" -> 2000 + Fee["BONE"]
      [] k = "join_alliance" -> 100 + Fee["BONE"]
      [] k = "add_cycles" -> (a - 1) + Fee["ICP"]
      [] k = "dog_level_upgrade" /\ l < 3 -> 1000 + Fee["BONE"]
      [] OTHER -> 1000000 + Fee["DOGMI"]

\* The button under the amount: "Confirm" only for an amount up to the balance shown.
\* The effect runs when the amount changes, not when the balance does.
Reason(a) == IF a = typed THEN isshow ELSE a = 0 \/ a > icpwells

(***************************************************************************)
(* The page: inputs, modals, mounts.                                       *)
(***************************************************************************)
InputAmountChange ==
    /\ modal = "cycles"
    /\ \E a \in Amounts : typed' = a /\ isshow' = Reason(a)
    /\ fine' \in {FALSE, typed' > 0}
    /\ UNCHANGED <<ui, icpfee, decimals, icpwells, list, upgrade, op, ledgers, bounds, failures>>

\* A wrong variant, to be refuted: the fee is taken from an empty balance too.
MaxOfNothing ==
    /\ modal = "cycles"
    /\ LET a == icpwells - Fee["ICP"]
       IN  typed' = a /\ isshow' = Reason(a)
    /\ fine' = FALSE
    /\ UNCHANGED <<ui, icpfee, decimals, icpwells, list, upgrade, op, ledgers, bounds, failures>>

\* The balance less one fee, which the approval itself will cost.
BtnMax ==
    /\ modal = "cycles"
    /\ icpwells = 0 \/ icpfee
    /\ LET a == IF icpwells = 0 THEN 0 ELSE icpwells - Fee["ICP"]
       IN  typed' = a /\ isshow' = Reason(a)
    /\ fine' = FALSE
    /\ UNCHANGED <<ui, icpfee, decimals, icpwells, list, upgrade, op, ledgers, bounds, failures>>

OpenModal(m, k) == /\ modal = "none" /\ modal' = m /\ k \in offered
                   /\ UNCHANGED <<page, loading, bar, dead, form, list, op, ledgers, bounds, failures>>

BtnTopUp == page = "Miner" /\ listed # NoLevel /\ OpenModal("cycles", "add_cycles") /\ UNCHANGED upgrade
OpenLeaveModal == page = "Miner" /\ listed # NoLevel /\ OpenModal("leave", "leave_alliance") /\ UNCHANGED upgrade
BtnJoinModal == page = "Alliance" /\ OpenModal("join", "join_alliance") /\ UNCHANGED upgrade

\* For a Diamond dog the modal keeps the text of the row it was opened on before.
OpenTopUpModal ==
    /\ page = "Miner" /\ listed # NoLevel
    /\ OpenModal("upgrade", "dog_level_upgrade")
    /\ target' = listed
    /\ told' = IF listed < Diamond THEN listed + 1 ELSE told

\* The table hides GO on a Diamond dog, the list for phones does not.
GoOfTable == listed # Diamond /\ OpenTopUpModal
GoOfPhone == OpenTopUpModal

CloseModal ==
    /\ modal # "none" /\ modal' = "none"
    /\ UNCHANGED <<page, loading, bar, dead, form, list, upgrade, op, ledgers, bounds, failures>>

\* A fresh component: everything it holds starts anew, and it asks for the dogs.
Navigate(p) ==
    /\ p # page /\ page' = p
    /\ loading' = [k \in Kinds |-> FALSE] /\ bar' = FALSE /\ modal' = "none"
    /\ icpfee' = FALSE /\ decimals' = FALSE
    /\ icpwells' = 0 /\ typed' = 0 /\ fine' = FALSE /\ isshow' = TRUE
    /\ dead' = {}
    /\ listed' = NoLevel /\ asked' = (p = "Miner") /\ reads' = {}
    /\ target' = NoLevel /\ told' = 2
    /\ op' = [s \in Slots |-> [op[s] EXCEPT !.here = FALSE]]
    /\ UNCHANGED <<ledgers, bounds, failures>>

\* The mount's own requests are answered, in any order (those that matter to what
\* the user starts).
FeeLoads ==
    /\ page = "Miner" /\ "add_cycles" \in offered /\ ~icpfee /\ icpfee' = TRUE
    /\ UNCHANGED <<ui, decimals, icpwells, typed, fine, isshow, list, upgrade, op, ledgers, bounds, failures>>
DecimalsLoad ==
    /\ page = "Miner" /\ "dog_level_upgrade" \in offered /\ ~decimals /\ decimals' = TRUE
    /\ UNCHANGED <<ui, icpfee, icpwells, typed, fine, isshow, list, upgrade, op, ledgers, bounds, failures>>
BalanceLoads ==
    /\ page = "Miner" /\ "add_cycles" \in offered /\ icpwells = 0 /\ icpwells' = balance["ICP"]
    /\ UNCHANGED <<ui, icpfee, decimals, typed, fine, isshow, list, upgrade, op, ledgers, bounds, failures>>

\* dog_info: bone_main reads the level, the answer comes back later.
DogInfoRead ==
    /\ asked /\ asked' = FALSE /\ reads' = reads \cup {level}
    /\ UNCHANGED <<ui, form, listed, upgrade, op, ledgers, bounds, failures>>
DogInfoAnswer ==
    /\ \E l \in reads : listed' = l /\ reads' = reads \ {l}
    /\ UNCHANGED <<ui, form, asked, upgrade, op, ledgers, bounds, failures>>

(***************************************************************************)
(* The buttons: a LoadingButton is disabled while its spinner turns, and   *)
(* "Confirm" under an amount while a reason is shown in its place.         *)
(***************************************************************************)
CreateAMiner == page = "Miner" /\ modal = "none" /\ ~loading["create_dog"]
AddCyclesModal == modal = "cycles" /\ ~loading["add_cycles"] /\ ~isshow
UpgradeModal == modal = "upgrade" /\ ~loading["dog_level_upgrade"]
LeaveModal == modal = "leave" /\ ~loading["leave_alliance"]
CreateAnAlliance == page = "Alliance" /\ modal = "none" /\ ~loading["create_alliance"]
JoinModal == modal = "join" /\ ~loading["join_alliance"]

(***************************************************************************)
(* Starting an operation.                                                  *)
(***************************************************************************)
\* Nothing stands in the way of this operation when it starts: the balance
\* covers the approval's fee and the price.
Affordable(k, a, l) ==
    balance[TokenOf(k, l)] >= Fee[TokenOf(k, l)] + Price(k, a, l)

\* handleButtonClick(true) and the button's own spinner.
Start(s, k, pc, a, l) ==
    /\ op[s].pc = "idle" /\ clicks > 0 /\ k \in offered
    /\ op' = [op EXCEPT ![s] = [pc |-> pc, kind |-> k, here |-> TRUE, amount |-> a,
                                approve |-> Approval(k, a, l), level |-> l,
                                next |-> NoLevel, clean |-> Affordable(k, a, l),
                                out |-> "none"]]
    /\ loading' = [loading EXCEPT ![k] = TRUE] /\ bar' = TRUE
    /\ clicks' = clicks - 1
    /\ UNCHANGED <<page, modal, dead, form, list, upgrade, ledgers, offered, failures>>

BtnCreateDog(s) ==
    /\ CreateAMiner
    /\ Start(s, "create_dog", "approving", 0, NoLevel)

\* A handler that throws or returns after it has raised bar and spinner.
DeadEnd(k) ==
    /\ loading' = [loading EXCEPT ![k] = TRUE] /\ bar' = TRUE /\ dead' = dead \cup {k}
    /\ UNCHANGED <<page, modal, form, list, upgrade, op, ledgers, bounds, failures>>

BtnBuyAmount(s) ==
    /\ AddCyclesModal /\ ~fine
    /\ Start(s, "add_cycles", "approving", typed, NoLevel)

\* BigInt throws on the fraction that is left, outside of the catch.
BtnBuyFraction == AddCyclesModal /\ fine /\ DeadEnd("add_cycles")

\* 1000050 DOGMI in the 18 decimals that are assumed until the ledger's are known
\* are written with an exponent, which BigInt does not read.
Unwritable == target = Diamond - 1 /\ ~decimals

BtnUpdate(s) ==
    /\ UpgradeModal /\ target # Diamond /\ ~Unwritable
    /\ Start(s, "dog_level_upgrade", "approving", 0, target)

\* The dead ends of btnupdata: it returns for a Diamond dog, and throws on an
\* amount that BigInt does not read.
BtnUpdateDead ==
    /\ UpgradeModal /\ (target = Diamond \/ Unwritable)
    /\ DeadEnd("dog_level_upgrade")

BtnLeave(s) ==
    /\ LeaveModal
    /\ Start(s, "leave_alliance", "calling", 0, NoLevel)

BtnCreateAlliance(s) ==
    /\ CreateAnAlliance
    /\ Start(s, "create_alliance", "approving", 0, NoLevel)

BtnJoin(s) ==
    /\ JoinModal
    /\ Start(s, "join_alliance", "approving", 0, NoLevel)

\* The progress bar has a cross and goes neither by itself nor by a click elsewhere.
ProgressBar == bar
HandleMessageClose ==
    /\ ProgressBar /\ bar' = FALSE
    /\ UNCHANGED <<page, loading, modal, dead, form, list, upgrade, op, ledgers, bounds, failures>>

(***************************************************************************)
(* The ledger's answer to the approval.                                    *)
(***************************************************************************)
Mine(s) == TokenOf(op[s].kind, op[s].level)
Fails == failures < MaxFailures /\ failures' = failures + 1

\* After a step on token t the other operations on t are not undisturbed any more.
Touched(s, t, new) ==
    [x \in Slots |->
        IF x = s THEN new
        ELSE IF op[x].pc # "idle" /\ Mine(x) = t THEN [op[x] EXCEPT !.clean = FALSE]
        ELSE op[x]]

\* An approval costs its fee and replaces the allowance.
Approve(s) ==
    LET t == Mine(s)
    IN  /\ balance[t] >= Fee[t]
        /\ balance' = [balance EXCEPT ![t] = @ - Fee[t]]
        /\ allowance' = [allowance EXCEPT ![t] = op[s].approve]
        /\ UNCHANGED level

\* No page looks into the answer: an Err of the ledger goes on like an Ok.
ApproveOk(s) ==
    /\ op[s].pc = "approving"
    /\ Approve(s)
    /\ op' = Touched(s, Mine(s), [op[s] EXCEPT !.pc = "calling"])
    /\ UNCHANGED <<ui, form, list, upgrade, bounds, failures>>

ApproveErr(s) ==
    /\ op[s].pc = "approving"
    /\ \/ balance[Mine(s)] < Fee[Mine(s)] /\ UNCHANGED failures
       \/ Fails
    /\ op' = [op EXCEPT ![s].pc = "calling", ![s].clean = FALSE]
    /\ UNCHANGED <<ui, form, list, upgrade, ledgers, bounds>>

\* The wallet refuses or the answer is lost: the catch of the page.  A lost
\* answer leaves the approval behind.
ApproveRejected(s) ==
    /\ op[s].pc = "approving" /\ Fails
    /\ Approve(s) \/ UNCHANGED ledgers
    /\ op' = Touched(s, Mine(s), NoOp)
    /\ IF op[s].here
       THEN /\ loading' = [loading EXCEPT ![op[s].kind] = FALSE] /\ bar' = FALSE
            /\ modal' = IF op[s].kind = "add_cycles" /\ modal = "cycles" THEN "none" ELSE modal
       ELSE UNCHANGED <<loading, bar, modal>>
    /\ UNCHANGED <<page, dead, form, list, upgrade, bounds>>

(***************************************************************************)
(* bone_main takes its price and does the work.                            *)
(***************************************************************************)
\* Checks of bone_main that come before the payment.
RefusedUnpaid(s) ==
    \/ op[s].kind = "add_cycles" /\ op[s].amount <= 3
    \/ op[s].kind = "dog_level_upgrade" /\ level = Diamond

MainRefuses(s) ==
    /\ op[s].pc = "calling"
    /\ \/ RefusedUnpaid(s) /\ UNCHANGED failures
       \/ Fails
    /\ \E o \in {"err", "thrown"} :
          /\ o = "thrown" => failures' # failures
          /\ op' = [op EXCEPT ![s].pc = "answered", ![s].out = o]
    /\ UNCHANGED <<ui, form, list, upgrade, ledgers, bounds>>

\* transfer_from with the price of the level the dog has by now.
MainCharges(s) ==
    /\ op[s].pc = "calling" /\ op[s].kind # "leave_alliance" /\ ~RefusedUnpaid(s)
    /\ LET t == TokenOf(op[s].kind, level)
           p == Price(op[s].kind, op[s].amount, level)
           same == op[s].clean /\ t = Mine(s)
       IN  IF allowance[t] >= p /\ balance[t] >= p
           THEN /\ allowance' = [allowance EXCEPT ![t] = @ - p]
                /\ balance' = [balance EXCEPT ![t] = @ - p]
                /\ op' = Touched(s, t, [op[s] EXCEPT !.pc = "serving", !.clean = same,
                                        !.next = IF op[s].kind = "dog_level_upgrade"
                                                 THEN level + 1 ELSE NoLevel])
           ELSE /\ op' = [op EXCEPT ![s].pc = "answered", ![s].out = "refused",
                                     ![s].clean = same]
                /\ UNCHANGED <<allowance, balance>>
    /\ UNCHANGED <<ui, form, list, upgrade, level, bounds, failures>>

MainServes(s) ==
    /\ \/ op[s].pc = "serving"
       \/ op[s].pc = "calling" /\ op[s].kind = "leave_alliance"
    /\ \/ /\ op' = [op EXCEPT ![s].pc = "answered", ![s].out = "ok"]
          /\ level' = IF op[s].next # NoLevel THEN op[s].next ELSE level
          /\ UNCHANGED failures
       \/ /\ Fails
          /\ \E o \in {"err", "thrown"} : op' = [op EXCEPT ![s].pc = "answered", ![s].out = o]
          /\ level' = level \/ (op[s].next # NoLevel /\ level' = op[s].next)
    /\ UNCHANGED <<ui, form, list, upgrade, allowance, balance, bounds>>

(***************************************************************************)
(* The page handles bone_main's answer.                                    *)
(***************************************************************************)
\* A wrong variant, to be refuted: the end of one operation lowers every spinner.
LoweredAll(k) == Kinds

\* What an operation's finally lowers: an upgrade lowers the spinner of
\* "Create a Dog Miner" as well.
Lowered(k) == IF k = "dog_level_upgrade" THEN {k, "create_dog"} ELSE {k}

\* A success closes the modal of its kind, except for the creations.
ModalOf(k) ==
    CASE k = "add_cycles" -> "cycles" [] k = "dog_level_upgrade" -> "upgrade"
      [] k = "leave_alliance" -> "leave" [] k = "join_alliance" -> "join"
      [] OTHER -> "none"

\* req_get_dogs of the Miner page: after a success, and after an Err of add_cycles.
Refreshes(k, o) ==
    \/ k \in {"create_dog", "dog_level_upgrade", "leave_alliance"} /\ o = "ok"
    \/ k = "add_cycles" /\ o \in {"err", "refused"}

\* On a component that is gone every set of a state is void.
Settle(s, lowered) ==
    /\ op[s].pc = "answered"
    /\ op' = [op EXCEPT ![s] = NoOp]
    /\ IF op[s].here
       THEN /\ loading' = [k \in Kinds |-> loading[k] /\ k \notin lowered]
            /\ bar' = FALSE
            /\ modal' = IF op[s].out = "ok" /\ modal = ModalOf(op[s].kind) THEN "none" ELSE modal
            /\ asked' = (asked \/ Refreshes(op[s].kind, op[s].out))
       ELSE UNCHANGED <<loading, bar, modal, asked>>
    /\ UNCHANGED <<page, dead, form, listed, reads, upgrade, ledgers, bounds, failures>>

\* A wrong variant, to be refuted: an error leaves the spinner.
LowerOnSuccess(s) == Settle(s, IF op[s].out = "ok" THEN Lowered(op[s].kind) ELSE {})

\* A wrong variant, to be refuted: a call that throws is not caught.
FinishUncaught(s) == op[s].out # "thrown" /\ Settle(s, Lowered(op[s].kind))

Finish(s) == Settle(s, Lowered(op[s].kind))

Input ==
    \/ InputAmountChange \/ BtnMax
    \/ BtnTopUp \/ OpenLeaveModal \/ BtnJoinModal \/ GoOfTable \/ GoOfPhone \/ CloseModal
    \/ HandleMessageClose \/ BtnUpdateDead \/ BtnBuyFraction
    \/ \E p \in Pages : Navigate(p)
Loads == FeeLoads \/ DecimalsLoad \/ BalanceLoads \/ DogInfoRead \/ DogInfoAnswer
Click(s) ==
    \/ BtnCreateDog(s) \/ BtnBuyAmount(s) \/ BtnUpdate(s) \/ BtnLeave(s)
    \/ BtnCreateAlliance(s) \/ BtnJoin(s)
Answer(s) ==
    \/ ApproveOk(s) \/ ApproveErr(s) \/ ApproveRejected(s)
    \/ MainRefuses(s) \/ MainCharges(s) \/ MainServes(s) \/ Finish(s)

\* It makes no difference which free slot an operation takes.
Free ==
    LET S == {s \in Slots : op[s].pc = "idle"}
    IN  IF S = {} THEN {} ELSE {CHOOSE s \in S : TRUE}

Next ==
    \/ Input \/ Loads
    \/ \E s \in Free : Click(s)
    \/ \E s \in Slots : Answer(s)

\* The ledgers and bone_main answer every call.  Nothing is assumed of the user.
Spec == Init /\ [][Next]_vars /\ \A s \in Slots : WF_vars(Answer(s))

(***************************************************************************)
(* Properties.                                                             *)
(***************************************************************************)
\* The type invariant of the pages, the operations and the ledgers
\* (the state of DogMiner.tsx:96-110, 220-256 and DogAlliance.tsx:55-57).
OpType ==
    [pc : {"idle", "approving", "calling", "serving", "answered"}, kind : Kinds,
     here : BOOLEAN, amount : Nat, approve : Nat, level : 0 .. 4, next : 0 .. 4,
     clean : BOOLEAN, out : {"none", "ok", "err", "refused", "thrown"}]
TypeOK ==
    /\ page \in Pages /\ loading \in [Kinds -> BOOLEAN] /\ bar \in BOOLEAN
    /\ modal \in {"none", "upgrade", "cycles", "leave", "join"}
    /\ icpfee \in BOOLEAN /\ decimals \in BOOLEAN /\ isshow \in BOOLEAN /\ asked \in BOOLEAN
    /\ icpwells \in Nat /\ typed \in Nat /\ fine \in BOOLEAN /\ dead \subseteq Kinds
    /\ listed \in 0 .. 4 /\ reads \subseteq Levels /\ target \in 0 .. 4 /\ told \in 2 .. 4
    /\ level \in Levels
    /\ op \in [Slots -> OpType]
    /\ allowance \in [Tokens -> Nat] /\ balance \in [Tokens -> Nat]
    /\ offered \subseteq Kinds /\ clicks \in Nat /\ failures \in Nat

\* bone_main finds its price approved and on the account, unless the wallet
\* could not pay when the user clicked, the approval failed, another
\* operation moved the same token in between, or the dog had another level
\* (the amounts of DogMiner.tsx:133, 273, 330-337 and DogAlliance.tsx:74, 213
\* against the prices of bone_main).
RefusedOnlyIfDisturbed ==
    \A s \in Slots : op[s].out = "refused" => ~op[s].clean

\* An undisturbed operation leaves next to nothing approved, unless it approved
\* before the fee was known (DogMiner.tsx:273).
Known(s) == op[s].approve < 20000 * 10000
NothingMuchLeft ==
    \A s \in Slots :
        (op[s].pc = "serving" /\ op[s].clean /\ Known(s))
            => allowance[Mine(s)] <= IF Mine(s) = "DOGMI" THEN 50 ELSE 2

\* A spinner turns only for an operation of this mount, or because its handler
\* gave up halfway (DogMiner.tsx:273-276, 336-343).
SpinnerMeansWork ==
    \A k \in Kinds :
        loading[k] =>
            \/ \E s \in Slots : op[s].pc # "idle" /\ op[s].kind = k /\ op[s].here
            \/ k \in dead

\* The button of an operation in flight is disabled: the same operation runs
\* twice only if the page was left in between, or for "Create a Dog Miner",
\* whose spinner the end of an upgrade lowers (DogMiner.tsx:380).
DisabledWhileInFlight ==
    \A s \in Slots :
        (op[s].pc # "idle" /\ op[s].here /\ op[s].kind # "create_dog")
            => loading[op[s].kind]

\* Whatever fails (the finally and catch blocks of DogMiner.tsx:150-175, 291-317,
\* 427-431 and DogAlliance.tsx:91-154, 232), once the user starts nothing more every
\* spinner stops for good, unless its handler gave up halfway.
SpinnersStop == <>[](\A k \in Kinds : loading[k] => k \in dead)
=============================================================================
