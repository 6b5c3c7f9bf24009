------------------------------ MODULE Treasury ------------------------------
(***************************************************************************)
(* The ICP of the main canister (bone_main: create_dog, add_main_cycles,   *)
(* add_cycles, to_mint_transfer).  Its handlers take ICP from users into   *)
(* one account and send it on in several transfers, each after an await    *)
(* and each of which may fail; handlers of several users interleave.       *)
(* Amounts are in units of the ledger's fee, 10 000 e8s.  A call stands    *)
(* for its execution and for the handler's resumption, which sends the     *)
(* next; a transfer the ledger takes for a duplicate is one that fails.    *)
(***************************************************************************)
EXTENDS Integers, FiniteSets, Functions

CONSTANTS
    Slots,          \* bound: handlers suspended at once
    TopUps,         \* bound: the amounts users give to add_cycles
    MaxCalls,       \* bound: calls of users
    MaxFailures     \* bound: calls of main that fail

TreasuryAssumption ==
    /\ IsFiniteSet(Slots) /\ TopUps \subseteq Nat
    /\ MaxCalls \in Nat /\ MaxFailures \in Nat

LedgerFee == 1
CreateFee == 10000      \* create_dog_fee
DaoShare == 300
DogShare == 6790
MainShare == 2910
LeastTopUp == 3         \* add_cycles takes more than this

VARIABLES
    balance,        \* main's ICP on the ledger
    call,           \* call[s]: the handler suspended in s, what it awaits, the amount it keeps
    kept,           \* history: ICP that handlers which failed left with main
    calls, failures

vars == <<balance, call, kept, calls, failures>>

Awaits == {"idle", "price", "install", "balance", "dao", "mintDog", "notifyDog",
           "mintMain", "notifyMain", "deposit", "mint", "notify"}
Idle == [awaits |-> "idle", amount |-> 0]
Suspended(pc, n) == [awaits |-> pc, amount |-> n]

Init ==
    /\ balance = 0 /\ kept = 0
    /\ call = [s \in Slots |-> Idle]
    /\ calls = 0 /\ failures = 0

GoesOn(s, next) == call' = [call EXCEPT ![s] = next]
Take(n) == balance' = balance + n
HasFunds(n) == balance >= n


\* A wrong variant, to be refuted: the fee that the ledger adds is forgotten.
SendPlusFee(n) ==
    IF HasFunds(n + LedgerFee) THEN balance' = balance - (n + LedgerFee) /\ UNCHANGED kept
    ELSE kept' = kept + n /\ UNCHANGED balance

\* A transfer of n less the fee; the ledger refuses what main does not have.
Send(n) ==
    IF HasFunds(n) THEN balance' = balance - n /\ UNCHANGED kept
    ELSE kept' = kept + n /\ UNCHANGED balance

\* What fails moves nothing; the ICP stays with main for good.
Fails(n) ==
    /\ failures < MaxFailures /\ failures' = failures + 1
    /\ kept' = kept + n /\ UNCHANGED <<balance, calls>>

(***************************************************************************)
(* create_dog.                                                             *)
(***************************************************************************)
CreateDog(s) ==
    /\ call[s] = Idle
    /\ calls < MaxCalls /\ calls' = calls + 1
    /\ GoesOn(s, Suspended("price", CreateFee))
    /\ UNCHANGED <<balance, kept, failures>>

CreateDogPaid(s) ==
    /\ call[s].awaits = "price"
    /\ \/ /\ Take(CreateFee) /\ GoesOn(s, Suspended("install", 0))
          /\ UNCHANGED <<kept, calls, failures>>
       \/ Fails(0) /\ GoesOn(s, Idle)

\* create_canister, canister_status, install_code: the handler traps if one fails.
Installed(s) ==
    /\ call[s].awaits = "install"
    /\ \/ GoesOn(s, Suspended("balance", 0)) /\ UNCHANGED <<balance, kept, calls, failures>>
       \/ Fails(CreateFee) /\ GoesOn(s, Idle)

\* add_main_cycles: the balance is main's, not what is left of this user's fee.
Enough == HasFunds(CreateFee)

AddMainCycles(s) ==
    /\ call[s].awaits = "balance"
    /\ \/ /\ GoesOn(s, IF Enough THEN Suspended("dao", 0) ELSE Idle)
          /\ kept' = (IF Enough THEN kept ELSE kept + CreateFee)
          /\ UNCHANGED <<balance, calls, failures>>
       \/ Fails(CreateFee) /\ GoesOn(s, Idle)      \* unwrap() of a rejection

\* The results of the transfers are dropped: whatever fails, the next is made.
DaoPaid(s) ==
    /\ call[s].awaits = "dao" /\ GoesOn(s, Suspended("mintDog", DogShare))
    /\ (Send(DaoShare) /\ UNCHANGED <<calls, failures>>) \/ Fails(DaoShare)

\* to_mint_transfer: what a transfer that failed would have minted is not asked for.
MintTransfer(s, pc, notify, afterwards) ==
    /\ call[s].awaits = pc
    /\ LET n == call[s].amount
       IN  \/ Send(n) /\ GoesOn(s, Suspended(notify, n)) /\ UNCHANGED <<calls, failures>>
           \/ Fails(n) /\ GoesOn(s, afterwards)

\* notify_top_up: a failure leaves the ICP with the cycles minting canister.
MintCycles(s, notify, afterwards) ==
    /\ call[s].awaits = notify /\ GoesOn(s, afterwards)
    /\ UNCHANGED <<balance, kept, calls, failures>>

MainNext == Suspended("mintMain", MainShare)

(***************************************************************************)
(* add_cycles.                                                             *)
(***************************************************************************)
\* A wrong variant, to be refuted: one fee is thought to be left over.
LargeEnoughForOne(amount) == amount >= LedgerFee

LargeEnough(amount) == amount > LeastTopUp

\* What main takes of the amount the user named.
Deposit(amount) == amount - LedgerFee

AddCycles(s) ==
    /\ call[s] = Idle
    /\ calls < MaxCalls /\ calls' = calls + 1
    /\ \E amount \in TopUps :
         /\ LargeEnough(amount)
         /\ GoesOn(s, Suspended("deposit", Deposit(amount)))
    /\ UNCHANGED <<balance, kept, failures>>

AddCyclesPaid(s) ==
    /\ call[s].awaits = "deposit"
    /\ LET n == call[s].amount
       IN  \/ /\ Take(n) /\ GoesOn(s, Suspended("mint", n))
              /\ UNCHANGED <<kept, calls, failures>>
           \/ Fails(0) /\ GoesOn(s, Idle)

Answer(s) ==
    \/ CreateDogPaid(s) \/ Installed(s) \/ AddMainCycles(s) \/ DaoPaid(s)
    \/ MintTransfer(s, "mintDog", "notifyDog", MainNext) \/ MintCycles(s, "notifyDog", MainNext)
    \/ MintTransfer(s, "mintMain", "notifyMain", Idle) \/ MintCycles(s, "notifyMain", Idle)
    \/ AddCyclesPaid(s)
    \/ MintTransfer(s, "mint", "notify", Idle) \/ MintCycles(s, "notify", Idle)

Next == \E s \in Slots : CreateDog(s) \/ AddCycles(s) \/ Answer(s)

\* Every call is answered.
Progress == \E s \in Slots : Answer(s)
Spec == Init /\ [][Next]_vars /\ WF_vars(Progress)

(***************************************************************************)
(* Properties.                                                             *)
(***************************************************************************)
\* The type invariant: amounts are Nat in the code, a negative one traps.
TypeOK ==
    /\ balance \in Nat /\ kept \in Nat
    /\ call \in [Slots -> [awaits : Awaits, amount : Nat]]

\* What a suspended handler has taken and will still send.
OwedBy(c) ==
    CASE c.awaits \in {"install", "balance", "dao"} -> CreateFee
      [] c.awaits = "mintDog" -> DogShare + MainShare
      [] c.awaits \in {"notifyDog", "mintMain"} -> MainShare
      [] c.awaits = "mint" -> c.amount
      [] OTHER -> 0
Owed == [s \in Slots |-> OwedBy(call[s])]

\* No handler spends what another took, and none but one that failed leaves anything:
\* main's ICP is what suspended handlers owe and what failures left (main.rs:117-146,
\* 273, 340-360), whatever overlaps.
Balanced == balance = SumFunction(Owed) + kept

\* What was taken is enough to be sent on: a difference below zero would trap after
\* the user has paid (main.rs:118, 135).
WorthSending == \A s \in Slots : call[s].awaits = "mint" => call[s].amount > LedgerFee

\* Handlers end.
Settled == call = [s \in Slots |-> Idle]
=============================================================================
