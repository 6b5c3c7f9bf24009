----------------------------- MODULE SendTokens -----------------------------
(***************************************************************************)
(* The page Wallet (Wallet.tsx): one card with the balance of each token,  *)
(* and the modal that sends a token.  The modal works on copies of balance *)
(* and fee taken when it is opened; cards are filled by the mount and by   *)
(* their sync buttons, and do not follow the connected user.  Amounts are  *)
(* in units of the token.                                                  *)
(***************************************************************************)
EXTENDS Integers, FiniteSets

CONSTANTS
    Users,
    Tokens,
    Queries,        \* bound: balance queries in flight at once
    MaxBalance,     \* bound: what an account holds of a token, and what is typed
    Fee,            \* the fee of the ledgers
    DefaultFees,    \* the tokens whose ledger charges the fee the page starts with
    FineAmounts,    \* whether the user may type more decimals than the token has
    MaxQueries,     \* bound: balance queries in a run
    MaxSends,       \* bound: transfers in a run
    MaxFailures,    \* bound: calls that fail for reasons of their own
    None

SendAssumption ==
    /\ IsFiniteSet(Users) /\ IsFiniteSet(Tokens) /\ IsFiniteSet(Queries)
    /\ MaxBalance \in Nat /\ Fee \in Nat /\ DefaultFees \subseteq Tokens
    /\ FineAmounts \in BOOLEAN /\ MaxQueries \in Nat /\ MaxSends \in Nat /\ MaxFailures \in Nat
    /\ None \notin Users \cup Tokens \cup Nat \cup {"Ok", "Err", "thrown"}

VARIABLES
    userId,
    funds,          \* the ledgers: what each user holds of each token
    wells,          \* the figure of each card: whose it is and how much, or None
    feeKnown,       \* the tokens whose fee has been loaded
    mount,          \* the request of the mount for each token: "pending", "asked", or
                    \* "missed" because no wallet was connected by then
    query,          \* the balance queries in flight
    modal,          \* openModalVal
    curselectwall, curfee, curBalance,  \* the modal's token, its copies of fee and balance
    amount, toamount,
    fine,           \* the amount has more decimals than the token
    isshow,         \* a reason is shown in place of "Confirm"
    sending,        \* the transfer in flight, or None: openbuyAmountLoding is up while it is
    answer,         \* the ledger's answer to it, or None
    stuck,          \* openbuyAmountLoding is up with no transfer in flight
    crashed,        \* the effect threw: React has taken the page down
    queries, sends, failures

cards == <<wells, mount, query, queries>>
form == <<modal, curselectwall, curfee, curBalance, amount, fine, toamount, isshow>>
transfer == <<sending, answer, stuck>>
vars == <<userId, funds, feeKnown, cards, form, transfer, crashed, sends, failures>>

NoQuery == [pc |-> "idle", t |-> None, of |-> None, bal |-> 0]
Addresses == {"principal", "account", "neither"}    \* what isValid... tell apart; "" is none

(***************************************************************************)
(* What the page shows.                                                    *)
(***************************************************************************)
Card(t) ==
    IF userId = None THEN "*********" ELSE IF wells[t] = None THEN "skeleton" ELSE "balance"

\* The effect on amount and toamount: the button below the form.  It reads the
\* modal's balance only once both are filled in.
Blocked(a, to) ==
    \/ a = 0 \/ to = ""
    \/ a > curBalance.bal
    \/ to \notin {"account", "principal"}
Throws(a, to) == a # 0 /\ to # "" /\ curBalance = None

Init ==
    /\ userId \in Users
    /\ \E u \in Users : funds = [x \in Users |-> [t \in Tokens |-> IF x = u THEN MaxBalance ELSE 0]]
    /\ wells = [t \in Tokens |-> None] /\ feeKnown = {}
    /\ mount = [t \in Tokens |-> "pending"]
    /\ query = [q \in Queries |-> NoQuery]
    /\ modal = FALSE /\ curselectwall = None /\ curfee = 0 /\ curBalance = None
    /\ amount = 0 /\ fine = FALSE /\ toamount = "" /\ isshow = TRUE
    /\ sending = None /\ answer = None /\ stuck = FALSE /\ crashed = FALSE
    /\ queries = 0 /\ sends = 0 /\ failures = 0

(***************************************************************************)
(* Balances and fees.                                                      *)
(***************************************************************************)
\* The bound on queries leaves one for each request of the mount.
Spare == queries + Cardinality({t \in Tokens : mount[t] = "pending"}) < MaxQueries

Ask(t) ==
    /\ queries < MaxQueries /\ queries' = queries + 1
    /\ \E q \in Queries :
         /\ query[q].pc = "idle"
         /\ query' = [query EXCEPT ![q] = [NoQuery EXCEPT !.pc = "asked", !.t = t, !.of = userId]]

\* The timer of the mount, once the decimals of a token have come: its card is
\* filled.  Without a user Principal.fromText throws, and nothing is asked any more.
ReqDecimals(t) ==
    /\ ~crashed /\ mount[t] = "pending"
    /\ IF userId = None
       THEN mount' = [mount EXCEPT ![t] = "missed"] /\ UNCHANGED <<query, queries>>
       ELSE mount' = [mount EXCEPT ![t] = "asked"] /\ Ask(t)
    /\ UNCHANGED <<userId, funds, wells, feeKnown, form, transfer, crashed, sends, failures>>

\* The sync button of a card.
BtnUpdata(t) ==
    /\ ~crashed /\ ~modal /\ userId # None
    /\ wells' = [wells EXCEPT ![t] = None]
    /\ Spare /\ Ask(t)
    /\ UNCHANGED <<userId, funds, mount, feeKnown, form, transfer, crashed, sends, failures>>

\* The ledger reads the balance; the answer comes later and in any order.
LedgerReads(q) ==
    /\ query[q].pc = "asked"
    /\ query' = [query EXCEPT ![q].pc = "answered", ![q].bal = funds[query[q].of][query[q].t]]
    /\ UNCHANGED <<userId, funds, wells, mount, queries, feeKnown, form, transfer, crashed, sends,
                   failures>>

Show(q) ==
    /\ query[q].pc = "answered"
    /\ wells' = [wells EXCEPT ![query[q].t] = [of |-> query[q].of, bal |-> query[q].bal]]
    /\ query' = [query EXCEPT ![q] = NoQuery]
    /\ UNCHANGED <<userId, funds, mount, queries, feeKnown, form, transfer, crashed, sends, failures>>

QueryRejected(q) ==
    /\ query[q].pc # "idle"
    /\ failures < MaxFailures /\ failures' = failures + 1
    /\ query' = [query EXCEPT ![q] = NoQuery]
    /\ UNCHANGED <<userId, funds, wells, mount, queries, feeKnown, form, transfer, crashed, sends>>

FeeLoads(t) ==
    /\ t \notin feeKnown /\ feeKnown' = feeKnown \cup {t}
    /\ UNCHANGED <<userId, funds, cards, form, transfer, crashed, sends, failures>>

\* The wallet changes its user; no effect of this page watches appStore.userId.
SwitchUser ==
    /\ \E u \in Users \cup {None} : u # userId /\ userId' = u
    /\ UNCHANGED <<funds, feeKnown, cards, form, transfer, crashed, sends, failures>>

(***************************************************************************)
(* The modal.                                                              *)
(***************************************************************************)
PageFee(t) == IF t \in feeKnown \cup DefaultFees THEN Fee ELSE Fee + 1

OpenSendAmountModal(t) ==
    /\ ~crashed /\ ~modal /\ modal' = TRUE
    /\ amount' = 0 /\ fine' = FALSE /\ toamount' = "" /\ isshow' = TRUE
    /\ curselectwall' = t /\ curfee' = PageFee(t) /\ curBalance' = wells[t]
    /\ UNCHANGED <<userId, funds, feeKnown, cards, transfer, crashed, sends, failures>>

HandleAdSentIcp ==
    /\ modal /\ modal' = FALSE
    /\ UNCHANGED <<userId, funds, feeKnown, cards, curselectwall, curfee, curBalance, amount,
                   fine, toamount, isshow, transfer, crashed, sends, failures>>

\* A set of amount or toamount, and the effect that follows a change.
Enter(a, to) ==
    /\ ~crashed /\ modal
    /\ amount' = a /\ toamount' = to
    /\ IF a = amount /\ to = toamount THEN UNCHANGED <<isshow, crashed, modal>>
       ELSE IF Throws(a, to) THEN crashed' = TRUE /\ modal' = FALSE /\ isshow' = isshow
       ELSE isshow' = Blocked(a, to) /\ UNCHANGED <<crashed, modal>>
    /\ UNCHANGED <<userId, funds, feeKnown, cards, curselectwall, curfee, curBalance,
                   transfer, sends, failures>>

\* Any number is accepted, with however many decimals.
InputAmountChange ==
    \E a \in 0 .. MaxBalance : Enter(a, toamount) /\ fine' \in {FALSE, FineAmounts /\ a > 0}
InputTo == \E to \in Addresses \cup {""} : Enter(amount, to) /\ fine' = fine

\* A wrong variant, to be refuted: the whole balance.
MaxWithoutFee == curBalance # None /\ Enter(curBalance.bal, toamount) /\ fine' = FALSE

\* The balance less the fee, both as of the opening: less than nothing for a
\* balance below the fee, and the effect does not refuse that.
BtnMax ==
    /\ Enter(IF curBalance # None /\ curBalance.bal # 0 THEN curBalance.bal - curfee ELSE 0, toamount)
    /\ fine' = FALSE

(***************************************************************************)
(* The transfer.                                                           *)
(***************************************************************************)
\* Fresh: the figure the modal shows is what this user has, and covers the fee.
Fresh ==
    /\ curBalance # None
    /\ curBalance = [of |-> userId, bal |-> funds[userId][curselectwall]]
    /\ curselectwall \in feeKnown \cup DefaultFees
    /\ amount + Fee <= curBalance.bal

\* The modal: the button sends once, and not while a reason is shown on it.
SendModal == modal /\ ~isshow /\ sending = None /\ ~stuck

\* A wrong variant, to be refuted: the fee is added to what is sent.
SetAmountAndFee ==
    /\ SendModal
    /\ userId # None /\ toamount = "principal" /\ ~fine
    /\ sends < MaxSends /\ sends' = sends + 1
    /\ sending' = [t |-> curselectwall, by |-> userId, amount |-> amount + curfee,
                   fee |-> PageFee(curselectwall), fresh |-> Fresh]
    /\ answer' = None /\ stuck' = stuck
    /\ UNCHANGED <<userId, funds, feeKnown, cards, form, crashed, failures>>

\* "Confirm": an account id passed the form, and throws here, before anything is done.
BtnSetAmount ==
    /\ SendModal
    /\ userId # None /\ toamount = "principal" /\ ~fine
    /\ sends < MaxSends /\ sends' = sends + 1
    /\ sending' = [t |-> curselectwall, by |-> userId, amount |-> amount,
                   fee |-> PageFee(curselectwall), fresh |-> Fresh]
    /\ answer' = None /\ stuck' = stuck
    /\ UNCHANGED <<userId, funds, feeKnown, cards, form, crashed, failures>>

\* BigInt throws on the fraction that is left, after the spinner was raised and
\* before the try that would lower it.
BtnSetFraction ==
    /\ SendModal
    /\ userId # None /\ toamount = "principal" /\ fine
    /\ stuck' = TRUE
    /\ UNCHANGED <<userId, funds, feeKnown, cards, form, sending, answer, crashed, sends, failures>>

\* The ledger refuses a wrong fee and an amount the account does not hold.
LedgerTransfers ==
    /\ sending # None /\ answer = None /\ sending.amount >= 0
    /\ IF sending.fee = Fee /\ funds[sending.by][sending.t] >= sending.amount + Fee
       THEN /\ answer' = "Ok"
            /\ funds' = [funds EXCEPT ![sending.by][sending.t] = @ - sending.amount - Fee]
       ELSE answer' = "Err" /\ UNCHANGED funds
    /\ UNCHANGED <<userId, feeKnown, cards, form, sending, stuck, crashed, sends, failures>>

\* The wallet refuses, or the answer is lost after the transfer or before it; an
\* amount below 0 is no Nat, and its encoding always throws.
TransferThrown ==
    /\ sending # None /\ answer # "thrown"
    /\ IF sending.amount < 0 THEN UNCHANGED failures
       ELSE failures < MaxFailures /\ failures' = failures + 1
    /\ answer' = "thrown"
    /\ UNCHANGED <<userId, funds, feeKnown, cards, form, sending, stuck, crashed, sends>>

\* A success closes whatever modal is open by now; no card is asked for anew.
Finally ==
    /\ sending # None /\ answer # None
    /\ modal' = (modal /\ answer # "Ok")
    /\ sending' = None /\ answer' = None
    /\ UNCHANGED <<userId, funds, feeKnown, cards, curselectwall, curfee, curBalance, amount,
                   fine, toamount, isshow, stuck, crashed, sends, failures>>

Answers(q) == LedgerReads(q) \/ Show(q) \/ QueryRejected(q)
Transfer == LedgerTransfers \/ TransferThrown \/ Finally
Next ==
    \/ \E t \in Tokens : ReqDecimals(t) \/ BtnUpdata(t) \/ FeeLoads(t) \/ OpenSendAmountModal(t)
    \/ \E q \in Queries : Answers(q)
    \/ SwitchUser \/ HandleAdSentIcp \/ InputAmountChange \/ InputTo \/ BtnMax
    \/ BtnSetAmount \/ BtnSetFraction \/ Transfer

\* The timer fires; the ledgers answer, or the calls are rejected.
Progress == Transfer \/ (\E t \in Tokens : ReqDecimals(t)) \/ \E q \in Queries : Answers(q)
Spec == Init /\ [][Next]_vars /\ WF_vars(Progress)

(***************************************************************************)
(* Properties.                                                             *)
(***************************************************************************)
Figure == [of : Users, bal : Nat] \cup {None}

\* The type invariant: the state of Wallet.tsx:38-43, 104-110, 212-214, 231-233.
TypeOK ==
    /\ userId \in Users \cup {None}
    /\ funds \in [Users -> [Tokens -> Nat]]
    /\ wells \in [Tokens -> Figure] /\ feeKnown \subseteq Tokens
    /\ query \in [Queries -> [pc : {"idle", "asked", "answered"}, t : Tokens \cup {None},
                              of : Users \cup {None}, bal : Nat]]
    /\ mount \in [Tokens -> {"pending", "asked", "missed"}]
    /\ modal \in BOOLEAN /\ isshow \in BOOLEAN /\ crashed \in BOOLEAN
    /\ curselectwall \in Tokens \cup {None} /\ curfee \in Nat /\ curBalance \in Figure
    /\ amount \in Int /\ fine \in BOOLEAN /\ stuck \in BOOLEAN /\ toamount \in Addresses \cup {""}
    /\ sending \in {None} \cup [t : Tokens, by : Users, amount : Int, fee : Nat, fresh : BOOLEAN]
    /\ answer \in {None, "Ok", "Err", "thrown"}

\* A transfer of no more than balance less fee is refused only if the figures the
\* modal was opened with were not those of the account any more, or it went with
\* the default fee (Wallet.tsx:115-122, 256-275 against the checks of the ledger).
RefusedOnlyIfStale == (sending # None /\ sending.fresh) => answer # "Err"

\* Pressing Max asks for an amount the shown balance covers, fee included.
MaxLeavesFee ==
    (BtnMax /\ ~crashed' /\ amount' > 0 /\ curfee = Fee) => amount' + Fee <= curBalance.bal

\* What comes again and again: every card has its figure, unless a query failed, the
\* page is gone, or its timer fired while no wallet was connected: then only the sync
\* button fills the card (Wallet.tsx:71-103, 276-288).
Settled ==
    \A t \in Tokens :
        Card(t) = "skeleton" => mount[t] = "missed" \/ failures > 0 \/ crashed
=============================================================================
