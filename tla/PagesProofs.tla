---------------------------- MODULE PagesProofs ----------------------------
(***************************************************************************)
(* More proofs about the parts of Parts: the feed of ores, the wallet page *)
(* and its figures, the two lists, the rankings and the pages of the log.  *)
(* What each part's invariant says is told where it is defined; that a     *)
(* part's invariant always holds while the part is open is its lemma       *)
(* ...Hold.  The theorems join the parts: WalletAlwaysTrue,                *)
(* StepsAlwaysTrue, ListsAlwaysTrue, DashboardAlwaysTrue, TypesAlwaysOK.   *)
(***************************************************************************)
EXTENDS PartsProofs

(***************************************************************************)
(* The feed of a dog: a find has a number, and is in the queue or among    *)
(* those sent, never both.                                                 *)
(***************************************************************************)
Numbers(fs) == {f.no : f \in fs}

FeedInv ==
    /\ Feed!TypeOK
    /\ c5 \in [Verifies -> [pc : {"idle", "sent", "answered"}, ores : SUBSET Feed!Find,
                            answer : Feed!Pair]]
    /\ \A f \in Feed!Queued \cup c7 : f.no <= c6
    /\ Numbers(Feed!Queued) \cap Numbers(c7) = {}

LEMMA FeedInit == Feed!Init => FeedInv
<1> SUFFICES ASSUME Feed!Init PROVE FeedInv
  OBVIOUS
<1> USE DEF Feed!Init
<1>1. Difficulties \subseteq Nat
  BY PartsAssumption DEF PartsAssumption, Feed!FeedAssumption
<1>2. c1 \in Feed!Pair /\ c2 \in Feed!Pair
  <2>1. ASSUME NEW c \in [ore : {1}, difficulty : Difficulties] PROVE c \in Feed!Pair
    <3>1. c.ore \in Nat /\ c.difficulty \in Nat
      <4>1. c.ore \in {1} /\ c.difficulty \in Difficulties
        BY ZenonT(30)
      <4>2. c.ore = 1
        BY <4>1
      <4>3. c.difficulty \in Nat
        BY <1>1, <4>1
      <4>4. c.ore \in Nat
        BY <4>2
      <4> QED
        BY <4>3, <4>4
    <3> QED
      BY <3>1 DEF Feed!Pair
  <2> QED
    BY <2>1
<1>3. Feed!NoPair \in Feed!Pair
  BY DEF Feed!NoPair, Feed!Pair
<1>4. c5 \in [Verifies -> [pc : {"idle", "sent", "answered"}, ores : SUBSET Feed!Find,
                            answer : Feed!Pair]]
  BY <1>3 DEF Feed!NoVerify
<1>5. c4 \in [Ticks -> [pc : {"idle", "asked", "answered"}, copy : Feed!Pair, answer : Feed!Pair]]
  BY <1>3 DEF Feed!NoTick
<1>6. Feed!Queued = {} /\ c7 = {} /\ c3 \in Seq(Feed!Find) /\ c6 \in Nat
  BY DEF Feed!Queued
<1>7. Feed!TypeOK
  BY <1>2, <1>4, <1>5, <1>6 DEF Feed!TypeOK
<1> QED
  BY <1>4, <1>6, <1>7 DEF FeedInv, Numbers

LEMMA FeedTypes ==
    ASSUME FeedInv, Feed!Next
    PROVE  /\ Feed!TypeOK'
           /\ (c5 \in [Verifies -> [pc : {"idle", "sent", "answered"}, ores : SUBSET Feed!Find,
                            answer : Feed!Pair]])'
<1> DEFINE VT == [pc : {"idle", "sent", "answered"}, ores : SUBSET Feed!Find, answer : Feed!Pair]
           TT == [pc : {"idle", "asked", "answered"}, copy : Feed!Pair, answer : Feed!Pair]
<1>1. /\ c1 \in Feed!Pair /\ c2 \in Feed!Pair /\ c3 \in Seq(Feed!Find)
      /\ c7 \subseteq Feed!Find /\ c6 \in Nat
      /\ c4 \in [Ticks -> TT] /\ c5 \in [Verifies -> VT]
  BY DEF FeedInv, Feed!TypeOK
<1>2. Difficulties \subseteq Nat
  BY PartsAssumption DEF PartsAssumption, Feed!FeedAssumption
<1>3. Feed!NoPair \in Feed!Pair /\ Feed!NoTick \in TT /\ Feed!NoVerify \in VT
  BY DEF Feed!NoPair, Feed!Pair, Feed!NoTick, Feed!NoVerify
<1>4. SUFFICES /\ c1' \in Feed!Pair /\ c2' \in Feed!Pair /\ c3' \in Seq(Feed!Find)
               /\ c7' \subseteq Feed!Find /\ c6' \in Nat
               /\ c4' \in [Ticks -> TT] /\ c5' \in [Verifies -> VT]
  BY DEF Feed!TypeOK
<1>5. ASSUME NEW t \in Ticks, Feed!GetOre(t) \/ Feed!TickLost(t)
      PROVE  /\ c1' \in Feed!Pair /\ c2' \in Feed!Pair /\ c3' \in Seq(Feed!Find)
             /\ c7' \subseteq Feed!Find /\ c6' \in Nat
             /\ c4' \in [Ticks -> TT] /\ c5' \in [Verifies -> VT]
  <2>1. CASE Feed!Tick(t)
    <3>1. [Feed!NoTick EXCEPT !.pc = "asked", !.copy = c2] \in TT
      BY <1>1, <1>3
    <3> QED
      BY <1>1, <2>1, <3>1 DEF Feed!Tick
  <2>2. CASE Feed!MainGetOre(t)
    BY <1>1, <2>2 DEF Feed!MainGetOre
  <2>3. CASE Feed!Fetch(t)
    <3>1. Feed!Fetched(c4[t].copy, c4[t].answer) \in Feed!Pair
      BY <1>1 DEF Feed!Fetched, Feed!Pair
    <3> QED
      BY <1>1, <1>3, <2>3, <3>1 DEF Feed!Fetch
  <2>4. CASE Feed!TickLost(t)
    BY <1>1, <1>3, <2>4 DEF Feed!TickLost
  <2> QED
    BY <1>5, <2>1, <2>2, <2>3, <2>4 DEF Feed!GetOre
<1>6. ASSUME NEW v \in Verifies, Feed!VerifyOre(v) \/ Feed!VerifyFailed(v)
      PROVE  /\ c1' \in Feed!Pair /\ c2' \in Feed!Pair /\ c3' \in Seq(Feed!Find)
             /\ c7' \subseteq Feed!Find /\ c6' \in Nat
             /\ c4' \in [Ticks -> TT] /\ c5' \in [Verifies -> VT]
  <2>1. CASE Feed!VerifyOres(v)
    <3> DEFINE found == {f \in Feed!Queued : Feed!Matches(f, c2)}
    <3>1. found \subseteq Feed!Find
      BY <1>1 DEF Feed!Queued
    <3>2. [Feed!NoVerify EXCEPT !.pc = "sent", !.ores = found] \in VT
      BY <1>3, <3>1
    <3>3. \/ c5' = c5 /\ c7' = c7
          \/ /\ c5' = [c5 EXCEPT ![v] = [Feed!NoVerify EXCEPT !.pc = "sent", !.ores = found]]
             /\ c7' = c7 \cup found
      BY <2>1 DEF Feed!VerifyOres
    <3>4. c3' = <<>> /\ UNCHANGED <<c1, c2, c4, c6>>
      BY <2>1 DEF Feed!VerifyOres, Feed!LeftAfter
    <3> HIDE DEF found
    <3>5. c7' \subseteq Feed!Find
      BY <1>1, <3>1, <3>3
    <3>6. c5' = c5 \/ \E x \in VT : c5' = [c5 EXCEPT ![v] = x]
      BY <3>2, <3>3
    <3> HIDE DEF VT
    <3>7. c5' \in [Verifies -> VT]
      BY <1>1, <3>6
    <3>8. c3' \in Seq(Feed!Find)
      BY <3>4
    <3> QED
      BY <1>1, <3>4, <3>5, <3>7, <3>8
  <2>2. CASE Feed!MainVerifies(v)
    <3>1. UNCHANGED <<c2, c3, c4, c6, c7>>
      BY <2>2 DEF Feed!MainVerifies
    <3>2. /\ c1' = c1 \/ c1' = [c1 EXCEPT !.ore = @ + 1]
          /\ \/ c5' = [c5 EXCEPT ![v].pc = "answered", ![v].answer = c1']
             \/ c5' = [c5 EXCEPT ![v].pc = "answered"]
      BY <2>2 DEF Feed!MainVerifies
    <3>3. c1' \in Feed!Pair
      BY <1>1, <3>2 DEF Feed!Pair
    <3>4. c5' \in [Verifies -> VT]
      BY <1>1, <3>2, <3>3
    <3> QED
      BY <1>1, <3>1, <3>3, <3>4
  <2>3. CASE Feed!Verified(v)
    BY <1>1, <1>3, <2>3 DEF Feed!Verified
  <2>4. CASE Feed!VerifyFailed(v)
    BY <1>1, <1>3, <2>4 DEF Feed!VerifyFailed
  <2> QED
    BY <1>6, <2>1, <2>2, <2>3, <2>4 DEF Feed!VerifyOre
<1>7. CASE Feed!Mine
  <2>1. PICK n \in Difficulties : c3' = <<[no |-> c6', ore |-> c2.ore, prefix |-> n]>> \o c3
    BY <1>7 DEF Feed!Mine
  <2>2. c6' = c6 + 1 /\ UNCHANGED <<c1, c2, c4, c5, c7>>
    BY <1>7 DEF Feed!Mine
  <2>3. [no |-> c6', ore |-> c2.ore, prefix |-> n] \in Feed!Find
    BY <1>1, <1>2, <2>1, <2>2 DEF Feed!Find, Feed!Pair
  <2> QED
    BY <1>1, <2>1, <2>2, <2>3
<1>8. CASE Feed!MainMoves
  <2>1. c1' \in [ore : {c1.ore, c1.ore + 1}, difficulty : Difficulties]
    BY <1>8 DEF Feed!MainMoves
  <2>2. c1.ore \in Nat
    BY <1>1 DEF Feed!Pair
  <2>3. c1'.ore \in Nat /\ c1'.difficulty \in Nat
    <3>1. c1'.ore \in {c1.ore, c1.ore + 1} /\ c1'.difficulty \in Difficulties
      BY <2>1, ZenonT(30)
    <3>2. c1'.ore \in Nat
      BY <2>2, <3>1
    <3>3. c1'.difficulty \in Nat
      BY <1>2, <3>1
    <3> QED
      BY <3>2, <3>3
  <2>4. c1' \in Feed!Pair
    BY <2>1, <2>3 DEF Feed!Pair
  <2> QED
    BY <1>1, <1>8, <2>4 DEF Feed!MainMoves
<1> QED
  BY <1>5, <1>6, <1>7, <1>8 DEF Feed!Next

LEMMA FeedStep ==
    ASSUME FeedInv, Feed!Next
    PROVE  FeedInv' /\ Feed!SentOnce
<1>1. Feed!TypeOK
      /\ c5 \in [Verifies -> [pc : {"idle", "sent", "answered"}, ores : SUBSET Feed!Find,
                            answer : Feed!Pair]]
      /\ (\A f \in Feed!Queued \cup c7 : f.no <= c6)
      /\ \A f \in Feed!Queued, g \in c7 : f.no # g.no
  BY DEF FeedInv, Numbers
<1>2. c6 \in Nat /\ c3 \in Seq(Feed!Find) /\ c7 \subseteq Feed!Find
  BY <1>1 DEF Feed!TypeOK
<1>3. SUFFICES /\ \A f \in Feed!Queued' \cup c7' : f.no <= c6'
               /\ \A f \in Feed!Queued', g \in c7' : f.no # g.no
               /\ Feed!SentOnce
  BY FeedTypes DEF FeedInv, Numbers
<1>4. CASE \E v \in Verifies : Feed!VerifyOres(v)
  <2>1. PICK v \in Verifies : Feed!VerifyOres(v)
    BY <1>4
  <2> DEFINE found == {f \in Feed!Queued : Feed!Matches(f, c2)}
  <2>2. c3' = <<>> /\ c6' = c6
    BY <2>1 DEF Feed!VerifyOres, Feed!LeftAfter
  <2>3. Feed!Queued' = {}
    BY <2>2 DEF Feed!Queued
  <2>4. \/ c5' = c5 /\ c7' = c7
        \/ /\ c5' = [c5 EXCEPT ![v] = [Feed!NoVerify EXCEPT !.pc = "sent", !.ores = found]]
           /\ c7' = c7 \cup found
    BY <2>1 DEF Feed!VerifyOres
  <2>5. found \subseteq Feed!Queued /\ found \cap c7 = {}
    BY <1>1
  <2> HIDE DEF found
  <2>6. [Feed!NoVerify EXCEPT !.pc = "sent", !.ores = found].ores = found
    BY DEF Feed!NoVerify
  <2>7. ASSUME NEW w \in Verifies, c5'[w].ores # c5[w].ores PROVE c5'[w].ores = found
    BY <1>1, <2>4, <2>6, <2>7
  <2>8. Feed!SentOnce
    BY <2>5, <2>7 DEF Feed!SentOnce
  <2> QED
    BY <1>1, <2>2, <2>3, <2>4, <2>5, <2>8
<1>5. CASE Feed!Mine
  <2>1. PICK n \in Difficulties : c3' = <<[no |-> c6', ore |-> c2.ore, prefix |-> n]>> \o c3
    BY <1>5 DEF Feed!Mine
  <2>2. c6' = c6 + 1 /\ UNCHANGED <<c5, c7>>
    BY <1>5 DEF Feed!Mine
  <2> DEFINE new == [no |-> c6', ore |-> c2.ore, prefix |-> n]
  <2>3. Feed!Queued' \subseteq Feed!Queued \cup {new}
    <3> SUFFICES ASSUME NEW i \in 1 .. Len(c3') PROVE c3'[i] \in Feed!Queued \cup {new}
      BY DEF Feed!Queued
    <3> HIDE DEF new
    <3>1. c3' = <<new>> \o c3
      BY <2>1 DEF new
    <3>2. CASE i = 1
      BY <1>2, <3>1, <3>2
    <3>3. CASE i # 1
      <4>1. Len(c3') = Len(c3) + 1 /\ i - 1 \in 1 .. Len(c3) /\ c3'[i] = c3[i - 1]
        BY <1>2, <3>1, <3>3
      <4> QED
        BY <4>1 DEF Feed!Queued
    <3> QED
      BY <3>2, <3>3
  <2>4. new.no = c6 + 1
    BY <2>2
  <2>5. \A f \in Feed!Queued \cup c7 : f.no \in Nat
    <3>1. ASSUME NEW i \in 1 .. Len(c3) PROVE c3[i] \in Feed!Find
      BY <1>2
    <3>2. Feed!Queued \cup c7 \subseteq Feed!Find
      BY <1>2, <3>1 DEF Feed!Queued
    <3>3. \A f \in Feed!Find : f.no \in Nat
      BY DEF Feed!Find
    <3> QED
      BY <3>2, <3>3
  <2> HIDE DEF new
  <2>6. \A x \in Nat : x <= c6 => x <= c6 + 1 /\ x # c6 + 1
    BY <1>2
  <2>7. Feed!SentOnce
    BY <2>2 DEF Feed!SentOnce
  <2>8. ASSUME NEW f \in Feed!Queued' \cup c7' PROVE f.no <= c6'
    <3>1. f \in Feed!Queued \cup c7 \/ f = new
      BY <2>2, <2>3
    <3> QED
      BY <1>1, <1>2, <2>2, <2>4, <2>5, <2>6, <3>1
  <2>9. ASSUME NEW f \in Feed!Queued', NEW g \in c7' PROVE f.no # g.no
    <3>1. g \in c7 /\ (f \in Feed!Queued \/ f = new)
      BY <2>2, <2>3
    <3> QED
      BY <1>1, <2>4, <2>5, <2>6, <3>1
  <2> QED
    BY <2>7, <2>8, <2>9
<1>6. ASSUME ~(\E v \in Verifies : Feed!VerifyOres(v)), ~Feed!Mine
      PROVE  /\ UNCHANGED <<c3, c6, c7>>
             /\ \A v \in Verifies : c5'[v].ores # c5[v].ores => c5'[v].ores = {}
  <2>1. ASSUME NEW v \in Verifies,
               Feed!MainVerifies(v) \/ Feed!Verified(v) \/ Feed!VerifyFailed(v)
        PROVE  /\ UNCHANGED <<c3, c6, c7>>
               /\ \A w \in Verifies : c5'[w].ores # c5[w].ores => c5'[w].ores = {}
    <3>1. UNCHANGED <<c3, c6, c7>>
      BY <2>1 DEF Feed!MainVerifies, Feed!Verified, Feed!VerifyFailed
    <3>2. CASE Feed!MainVerifies(v)
      <4>1. \/ c5' = [c5 EXCEPT ![v].pc = "answered", ![v].answer = c1']
            \/ c5' = [c5 EXCEPT ![v].pc = "answered"]
        BY <3>2 DEF Feed!MainVerifies
      <4> QED
        BY <1>1, <3>1, <4>1
    <3>3. CASE Feed!Verified(v) \/ Feed!VerifyFailed(v)
      <4>1. c5' = [c5 EXCEPT ![v] = Feed!NoVerify]
        BY <3>3 DEF Feed!Verified, Feed!VerifyFailed
      <4>2. Feed!NoVerify.ores = {}
        BY DEF Feed!NoVerify
      <4> QED
        BY <1>1, <3>1, <4>1, <4>2
    <3> QED
      BY <2>1, <3>2, <3>3
  <2>2. ASSUME NEW t \in Ticks, Feed!GetOre(t) \/ Feed!TickLost(t)
        PROVE  UNCHANGED <<c3, c5, c6, c7>>
    BY <2>2 DEF Feed!GetOre, Feed!TickLost, Feed!Tick, Feed!MainGetOre, Feed!Fetch
  <2>3. Feed!MainMoves => UNCHANGED <<c3, c5, c6, c7>>
    BY DEF Feed!MainMoves
  <2> QED
    BY <1>6, <2>1, <2>2, <2>3 DEF Feed!Next, Feed!VerifyOre
<1>7. CASE ~(\E v \in Verifies : Feed!VerifyOres(v)) /\ ~Feed!Mine
  <2>1. Feed!Queued' = Feed!Queued
    BY <1>6, <1>7 DEF Feed!Queued
  <2> QED
    BY <1>1, <1>6, <1>7, <2>1 DEF Feed!SentOnce
<1> QED
  BY <1>4, <1>5, <1>7

LEMMA FeedHolds == Spec => [](open = "feed" => FeedInv)
<1> DEFINE Inv == open = "feed" => FeedInv
<1>1. Init => Inv
  BY FeedInit DEF Init
<1>2. Inv /\ [Next]_state => Inv'
  <2> SUFFICES ASSUME Inv, [Next]_state, open' = "feed" PROVE FeedInv'
    OBVIOUS
  <2>1. open = "feed" /\ FeedInv
    BY StaysOpen
  <2>2. Feed!Next \/ UNCHANGED <<c1, c2, c3, c4, c5, c6, c7, c8, c9>>
    BY <2>1 DEF Next, state
  <2>3. CASE UNCHANGED <<c1, c2, c3, c4, c5, c6, c7, c8, c9>>
    BY <2>1, <2>3 DEF FeedInv, Feed!TypeOK, Feed!Queued, Numbers
  <2> QED
    BY <2>1, <2>2, <2>3, FeedStep
<1> QED
  BY <1>1, <1>2, PTL DEF Spec

(***************************************************************************)
(* The wallet.  What a fresh transfer needs was there when it was sent,    *)
(* and nothing but the transfer itself takes from the account.             *)
(***************************************************************************)
WalletQuery ==
    [pc : {"idle", "asked", "answered"}, t : Tokens \cup {None}, of : Principals \cup {None},
     bal : Nat]
WalletTransfer ==
    [t : Tokens, by : Principals, amount : Int, fee : Nat, fresh : BOOLEAN]

\* Users, ledgers and cards; a query in flight is about a token and a user.
CardsInv ==
    /\ c1 \in Principals \cup {None}
    /\ c2 \in [Principals -> [Tokens -> Nat]]
    /\ c3 \in [Tokens -> Wallet!Figure] /\ c4 \subseteq Tokens
    /\ c5 \in [Tokens -> {"pending", "asked", "missed"}]
    /\ c6 \in [Asked -> WalletQuery]
    /\ \A q \in Asked : c6[q].pc # "idle" => c6[q].t \in Tokens /\ c6[q].of \in Principals

\* The form; while it is open it is about a token.
FormInv ==
    /\ c7 \in BOOLEAN /\ c8 \in Tokens \cup {None} /\ c9 \in Nat /\ c10 \in Wallet!Figure
    /\ c11 \in Int /\ c12 \in Wallet!Addresses \cup {""} /\ c13 \in BOOLEAN
    /\ c14 \in BOOLEAN /\ c18 \in BOOLEAN
    /\ c7 => c8 \in Tokens

\* The transfer: a fresh one finds what it needs until it is answered, and no refusal.
TransferInv ==
    /\ c15 \in {None} \cup WalletTransfer
    /\ c16 \in {None, "Ok", "Err", "thrown"} /\ c17 \in BOOLEAN
    /\ c15 # None /\ c15.fresh /\ c16 = None =>
         c15.fee = TokenFee /\ c2[c15.by][c15.t] >= c15.amount + TokenFee
    /\ c15 # None /\ c15.fresh => c16 # "Err"

WalletInv == CardsInv /\ FormInv /\ TransferInv

LEMMA WalletConstants ==
    /\ TokenFee \in Nat /\ MaxBalance \in Nat /\ DefaultFees \subseteq Tokens
    /\ FineAmounts \in BOOLEAN
    /\ None \notin Principals /\ None \notin Tokens /\ None \notin {"Ok", "Err", "thrown"}
BY PartsAssumption DEF PartsAssumption, Wallet!SendAssumption

\* The form starts with no amount.
LEMMA ZeroIsInt == 0 \in Int
OBVIOUS

LEMMA WalletMeans ==
    ASSUME WalletInv
    PROVE  Wallet!TypeOK /\ Wallet!RefusedOnlyIfStale
BY DEF WalletInv, CardsInv, FormInv, TransferInv, Wallet!TypeOK, Wallet!RefusedOnlyIfStale,
       WalletQuery, WalletTransfer

LEMMA WalletInit == Wallet!Init => WalletInv
<1> SUFFICES ASSUME Wallet!Init PROVE WalletInv
  OBVIOUS
<1> USE DEF Wallet!Init
<1>1. c2 \in [Principals -> [Tokens -> Nat]]
  <2>1. PICK u \in Principals :
          c2 = [x \in Principals |-> [t \in Tokens |-> IF x = u THEN MaxBalance ELSE 0]]
    OBVIOUS
  <2> QED
    BY <2>1, WalletConstants
<1>2. Wallet!NoQuery \in WalletQuery /\ Wallet!NoQuery.pc = "idle"
  BY DEF Wallet!NoQuery, WalletQuery
<1>3. CardsInv
  BY <1>1, <1>2 DEF CardsInv, Wallet!Figure
<1>4. FormInv
  BY ZeroIsInt DEF FormInv, Wallet!Figure, Wallet!Addresses
<1>5. TransferInv
  BY WalletConstants DEF TransferInv
<1> QED
  BY <1>3, <1>4, <1>5 DEF WalletInv

LEMMA WalletCardsStep ==
    ASSUME WalletInv, Wallet!Next
    PROVE  CardsInv'
<1> USE DEF CardsInv
<1>0. CardsInv /\ FormInv /\ TransferInv
  BY DEF WalletInv
<1>1. Wallet!NoQuery \in WalletQuery /\ Wallet!NoQuery.pc = "idle"
  BY DEF Wallet!NoQuery, WalletQuery
\* A new query, of a user that is there.
<1>2. ASSUME NEW t \in Tokens, c1 # None, Wallet!Ask(t)
      PROVE  /\ c6' \in [Asked -> WalletQuery]
             /\ \A q \in Asked : c6'[q].pc # "idle" => c6'[q].t \in Tokens /\ c6'[q].of \in Principals
  <2> DEFINE asked == [Wallet!NoQuery EXCEPT !.pc = "asked", !.t = t, !.of = c1]
  <2>1. PICK q \in Asked : c6' = [c6 EXCEPT ![q] = asked]
    BY <1>2 DEF Wallet!Ask
  <2>2. asked \in WalletQuery /\ asked.t \in Tokens /\ asked.of \in Principals
    BY <1>0, <1>2 DEF Wallet!NoQuery, WalletQuery
  <2> HIDE DEF asked
  <2>3. c6' \in [Asked -> WalletQuery]
    BY <1>0, <2>1, <2>2
  <2> QED
    BY <1>0, <2>1, <2>2, <2>3
\* A query that is over.
<1>3. ASSUME NEW q \in Asked, c6' = [c6 EXCEPT ![q] = Wallet!NoQuery]
      PROVE  /\ c6' \in [Asked -> WalletQuery]
             /\ \A r \in Asked : c6'[r].pc # "idle" => c6'[r].t \in Tokens /\ c6'[r].of \in Principals
  <2>1. c6' \in [Asked -> WalletQuery]
    BY <1>0, <1>1, <1>3
  <2> QED
    BY <1>0, <1>1, <1>3, <2>1
<1>4. ASSUME NEW t \in Tokens, Wallet!ReqDecimals(t) PROVE CardsInv'
  <2>1. c5' \in [Tokens -> {"pending", "asked", "missed"}]
    BY <1>0, <1>4 DEF Wallet!ReqDecimals
  <2>2. UNCHANGED <<c1, c2, c3, c4>>
    BY <1>4 DEF Wallet!ReqDecimals
  <2>3. c6' = c6 \/ (c1 # None /\ Wallet!Ask(t))
    BY <1>4 DEF Wallet!ReqDecimals
  <2> QED
    BY <1>0, <1>2, <2>1, <2>2, <2>3
<1>5. ASSUME NEW t \in Tokens, Wallet!BtnUpdata(t) PROVE CardsInv'
  <2>1. c3' \in [Tokens -> Wallet!Figure]
    BY <1>0, <1>5 DEF Wallet!BtnUpdata, Wallet!Figure
  <2>2. UNCHANGED <<c1, c2, c4, c5>> /\ c1 # None /\ Wallet!Ask(t)
    BY <1>5 DEF Wallet!BtnUpdata
  <2> QED
    BY <1>0, <1>2, <2>1, <2>2
<1>6. ASSUME NEW q \in Asked, Wallet!LedgerReads(q) PROVE CardsInv'
  <2>1. c6[q].pc = "asked"
        /\ c6' = [c6 EXCEPT ![q].pc = "answered", ![q].bal = c2[c6[q].of][c6[q].t]]
    BY <1>6 DEF Wallet!LedgerReads
  <2>2. c6[q] \in WalletQuery /\ c2[c6[q].of][c6[q].t] \in Nat
    BY <1>0, <2>1
  <2>3. [c6[q] EXCEPT !.pc = "answered", !.bal = c2[c6[q].of][c6[q].t]] \in WalletQuery
    BY <2>2 DEF WalletQuery
  <2>4. c6' \in [Asked -> WalletQuery]
    BY <1>0, <2>1, <2>3
  <2>5. \A r \in Asked : c6'[r].t = c6[r].t /\ c6'[r].of = c6[r].of
                         /\ (c6'[r].pc # "idle" => c6[r].pc # "idle")
    <3>1. ASSUME NEW r \in Asked, r # q PROVE c6'[r] = c6[r]
      BY <1>0, <2>1, <3>1
    <3>2. c6'[q] = [c6[q] EXCEPT !.pc = "answered", !.bal = c2[c6[q].of][c6[q].t]]
      BY <1>0, <2>1
    <3>3. c6'[q].t = c6[q].t /\ c6'[q].of = c6[q].of
      BY <2>2, <3>2 DEF WalletQuery
    <3> QED
      BY <2>1, <3>1, <3>3
  <2> QED
    BY <1>0, <1>6, <2>4, <2>5 DEF Wallet!LedgerReads
<1>7. ASSUME NEW q \in Asked, Wallet!Show(q) PROVE CardsInv'
  <2>1. c6[q].pc # "idle" /\ c6[q] \in WalletQuery
    BY <1>0, <1>7 DEF Wallet!Show
  <2>2. [of |-> c6[q].of, bal |-> c6[q].bal] \in Wallet!Figure
    BY <1>0, <2>1 DEF Wallet!Figure, WalletQuery
  <2>3. c3' \in [Tokens -> Wallet!Figure]
    BY <1>0, <1>7, <2>2 DEF Wallet!Show
  <2>4. UNCHANGED <<c1, c2, c4, c5>> /\ c6' = [c6 EXCEPT ![q] = Wallet!NoQuery]
    BY <1>7 DEF Wallet!Show
  <2> QED
    BY <1>0, <1>3, <2>3, <2>4
<1>8. ASSUME NEW q \in Asked, Wallet!QueryRejected(q) PROVE CardsInv'
  BY <1>0, <1>3, <1>8 DEF Wallet!QueryRejected
<1>9. CASE Wallet!LedgerTransfers
  <2>1. UNCHANGED <<c1, c3, c4, c5, c6>>
    BY <1>9 DEF Wallet!LedgerTransfers, Wallet!cards
  <2>2. c2' \in [Principals -> [Tokens -> Nat]]
    <3>1. CASE c2' = c2
      BY <1>0, <3>1
    <3>2. CASE c2' # c2
      <4> DEFINE left == c2[c15.by][c15.t] - c15.amount - TokenFee
      <4>1. /\ c15 # None /\ c2[c15.by][c15.t] >= c15.amount + TokenFee
            /\ c2' = [c2 EXCEPT ![c15.by][c15.t] = @ - c15.amount - TokenFee]
        BY <1>9, <3>2 DEF Wallet!LedgerTransfers
      <4>2. c15.by \in Principals /\ c15.t \in Tokens /\ c15.amount \in Nat
        BY <1>0, <1>9, <4>1 DEF TransferInv, WalletTransfer, Wallet!LedgerTransfers
      <4>3. c2[c15.by] \in [Tokens -> Nat] /\ c2[c15.by][c15.t] \in Nat
        BY <1>0, <4>2
      <4>4. left \in Nat
        BY <4>1, <4>2, <4>3, WalletConstants
      <4>5. [c2[c15.by] EXCEPT ![c15.t] = left] \in [Tokens -> Nat]
        BY <4>3, <4>4
      <4>6. c2' = [c2 EXCEPT ![c15.by] = [c2[c15.by] EXCEPT ![c15.t] = left]]
        BY <1>0, <4>1, <4>2, <4>3
      <4> QED
        BY <1>0, <4>5, <4>6
    <3> QED
      BY <3>1, <3>2
  <2> QED
    BY <1>0, <2>1, <2>2
<1>10. CASE \E t \in Tokens : Wallet!FeeLoads(t)
  BY <1>0, <1>10 DEF Wallet!FeeLoads, Wallet!cards
<1>11. CASE Wallet!SwitchUser
  BY <1>0, <1>11 DEF Wallet!SwitchUser, Wallet!cards
<1>12. CASE UNCHANGED <<c1, c2, c3, c4, c5, c6>>
  BY <1>0, <1>12
<1>13. ASSUME \/ \E t \in Tokens : Wallet!OpenSendAmountModal(t)
              \/ Wallet!HandleAdSentIcp \/ Wallet!InputAmountChange \/ Wallet!InputTo
              \/ Wallet!BtnMax \/ Wallet!BtnSetAmount \/ Wallet!BtnSetFraction
              \/ Wallet!TransferThrown \/ Wallet!Finally
       PROVE  UNCHANGED <<c1, c2, c3, c4, c5, c6>>
  <2> USE DEF Wallet!cards
  <2>1. ASSUME NEW a, NEW to, Wallet!Enter(a, to) PROVE UNCHANGED <<c1, c2, c3, c4, c5, c6>>
    BY <2>1 DEF Wallet!Enter
  <2>2. Wallet!InputAmountChange \/ Wallet!InputTo \/ Wallet!BtnMax =>
          \E a, to : Wallet!Enter(a, to)
    BY DEF Wallet!InputAmountChange, Wallet!InputTo, Wallet!BtnMax
  <2> QED
    BY <1>13, <2>1, <2>2 DEF Wallet!OpenSendAmountModal, Wallet!HandleAdSentIcp,
       Wallet!BtnSetAmount, Wallet!BtnSetFraction, Wallet!TransferThrown, Wallet!Finally
<1> QED
  BY <1>4, <1>5, <1>6, <1>7, <1>8, <1>9, <1>10, <1>11, <1>12, <1>13
     DEF Wallet!Next, Wallet!Answers, Wallet!Transfer

LEMMA WalletEnters ==
    ASSUME FormInv, NEW a \in Int, NEW to \in Wallet!Addresses \cup {""}, Wallet!Enter(a, to),
           c13' \in BOOLEAN
    PROVE  FormInv'
<1>1. /\ c7 = TRUE /\ c11' = a /\ c12' = to /\ UNCHANGED <<c8, c9, c10>>
      /\ c7' = c7 \/ c7' = FALSE
      /\ c18' = c18 \/ c18' = TRUE
      /\ c14' = c14 \/ c14' = Wallet!Blocked(a, to)
  BY DEF Wallet!Enter, FormInv
<1>2. Wallet!Blocked(a, to) \in BOOLEAN
  BY DEF Wallet!Blocked
<1> QED
  BY <1>1, <1>2 DEF FormInv

LEMMA WalletFormStep ==
    ASSUME WalletInv, Wallet!Next
    PROVE  FormInv'
<1>0. CardsInv /\ FormInv
  BY DEF WalletInv
<1>1. ASSUME NEW t \in Tokens, Wallet!OpenSendAmountModal(t) PROVE FormInv'
  <2>1. Wallet!PageFee(t) \in Nat
    BY WalletConstants DEF Wallet!PageFee
  <2>2. c3[t] \in Wallet!Figure
    BY <1>0 DEF CardsInv
  <2> QED
    BY <1>0, <1>1, <2>1, <2>2, ZeroIsInt DEF FormInv, Wallet!OpenSendAmountModal
<1>2. CASE Wallet!HandleAdSentIcp \/ Wallet!Finally
  BY <1>0, <1>2 DEF FormInv, Wallet!HandleAdSentIcp, Wallet!Finally
<1>3. CASE Wallet!InputAmountChange
  <2>1. PICK a \in 0 .. MaxBalance :
          Wallet!Enter(a, c12) /\ c13' \in {FALSE, FineAmounts /\ a > 0}
    BY <1>3 DEF Wallet!InputAmountChange
  <2>2. a \in Int /\ c13' \in BOOLEAN /\ c12 \in Wallet!Addresses \cup {""}
    <3>1. a \in Int
      BY <2>1, WalletConstants
    <3>2. (FineAmounts /\ a > 0) \in BOOLEAN
      OBVIOUS
    <3>3. c13' \in BOOLEAN
      BY <2>1, <3>2
    <3>4. c12 \in Wallet!Addresses \cup {""}
      BY <1>0 DEF FormInv
    <3> QED
      BY <3>1, <3>3, <3>4
  <2> QED
    BY <1>0, <2>1, <2>2, WalletEnters
<1>4. CASE Wallet!InputTo
  <2>1. PICK to \in Wallet!Addresses \cup {""} : Wallet!Enter(c11, to) /\ c13' = c13
    BY <1>4 DEF Wallet!InputTo
  <2>2. c11 \in Int /\ c13' \in BOOLEAN
    BY <1>0, <2>1 DEF FormInv
  <2> QED
    BY <1>0, <2>1, <2>2, WalletEnters
<1>5. CASE Wallet!BtnMax
  <2>1. PICK a \in Int : Wallet!Enter(a, c12)
    <3>1. CASE c10 # None /\ c10.bal # 0
      <4>1. c10.bal \in Nat /\ c9 \in Nat
        BY <1>0, <3>1 DEF FormInv, Wallet!Figure
      <4>2. Wallet!Enter(c10.bal - c9, c12)
        BY <1>5, <3>1 DEF Wallet!BtnMax
      <4>3. c10.bal - c9 \in Int
        BY <4>1
      <4> QED
        BY <4>2, <4>3
    <3>2. CASE ~(c10 # None /\ c10.bal # 0)
      BY <1>5, <3>2 DEF Wallet!BtnMax
    <3> QED
      BY <3>1, <3>2
  <2>2. c13' \in BOOLEAN /\ c12 \in Wallet!Addresses \cup {""}
    BY <1>0, <1>5 DEF FormInv, Wallet!BtnMax
  <2> QED
    BY <1>0, <2>1, <2>2, WalletEnters
<1>6. CASE UNCHANGED <<c7, c8, c9, c10, c11, c12, c13, c14, c18>>
  BY <1>0, <1>6 DEF FormInv
<1>7. ASSUME \/ \E t \in Tokens : Wallet!ReqDecimals(t) \/ Wallet!BtnUpdata(t) \/ Wallet!FeeLoads(t)
             \/ \E q \in Asked : Wallet!Answers(q)
             \/ Wallet!SwitchUser \/ Wallet!BtnSetAmount \/ Wallet!BtnSetFraction
             \/ Wallet!LedgerTransfers \/ Wallet!TransferThrown
      PROVE  UNCHANGED <<c7, c8, c9, c10, c11, c12, c13, c14, c18>>
  BY <1>7 DEF Wallet!ReqDecimals, Wallet!BtnUpdata, Wallet!FeeLoads, Wallet!Answers,
       Wallet!LedgerReads, Wallet!Show, Wallet!QueryRejected, Wallet!SwitchUser,
       Wallet!BtnSetAmount, Wallet!BtnSetFraction, Wallet!LedgerTransfers,
       Wallet!TransferThrown, Wallet!form
<1> QED
  BY <1>1, <1>2, <1>3, <1>4, <1>5, <1>6, <1>7 DEF Wallet!Next, Wallet!Transfer

LEMMA WalletTransferStep ==
    ASSUME WalletInv, Wallet!Next
    PROVE  TransferInv'
<1> USE DEF TransferInv
<1>0. CardsInv /\ FormInv /\ TransferInv
  BY DEF WalletInv
<1>1. CASE Wallet!BtnSetAmount
  <2> DEFINE sent == [t |-> c8, by |-> c1, amount |-> c11, fee |-> Wallet!PageFee(c8),
                      fresh |-> Wallet!Fresh]
  <2>1. /\ c15' = sent /\ c16' = None /\ c17' = c17 /\ c2' = c2 /\ c7 /\ c1 # None
    BY <1>1 DEF Wallet!BtnSetAmount, Wallet!SendModal
  <2>2. c8 \in Tokens /\ c1 \in Principals /\ c11 \in Int
    BY <1>0, <2>1 DEF CardsInv, FormInv
  <2>3. Wallet!PageFee(c8) \in Nat /\ Wallet!Fresh \in BOOLEAN
    BY WalletConstants DEF Wallet!PageFee, Wallet!Fresh
  <2>4. sent \in WalletTransfer
    BY <2>2, <2>3 DEF WalletTransfer
  <2>5. Wallet!Fresh => Wallet!PageFee(c8) = TokenFee /\ c2[c1][c8] >= c11 + TokenFee
    <3> SUFFICES ASSUME Wallet!Fresh
                 PROVE  Wallet!PageFee(c8) = TokenFee /\ c2[c1][c8] >= c11 + TokenFee
      OBVIOUS
    <3>1. c10 = [of |-> c1, bal |-> c2[c1][c8]] /\ c8 \in c4 \cup DefaultFees
          /\ c11 + TokenFee <= c10.bal
      BY DEF Wallet!Fresh
    <3>2. c2[c1][c8] \in Nat /\ c10.bal = c2[c1][c8]
      BY <1>0, <2>2, <3>1 DEF CardsInv
    <3> QED
      BY <2>2, <3>1, <3>2, WalletConstants DEF Wallet!PageFee
  <2>6. sent.fresh = Wallet!Fresh /\ sent.fee = Wallet!PageFee(c8) /\ sent.by = c1 /\ sent.t = c8
        /\ sent.amount = c11
    OBVIOUS
  <2> HIDE DEF sent
  <2> QED
    BY <1>0, <2>1, <2>4, <2>5, <2>6, WalletConstants
<1>2. CASE Wallet!LedgerTransfers
  <2>1. /\ c15 # None /\ c16 = None /\ UNCHANGED <<c15, c17>>
        /\ \/ c16' = "Ok"
           \/ c16' = "Err" /\ ~(c15.fee = TokenFee /\ c2[c15.by][c15.t] >= c15.amount + TokenFee)
    BY <1>2 DEF Wallet!LedgerTransfers
  <2> QED
    BY <1>0, <2>1, WalletConstants
<1>3. CASE Wallet!TransferThrown
  <2>1. c16' = "thrown" /\ UNCHANGED <<c2, c15, c17>>
    BY <1>3 DEF Wallet!TransferThrown
  <2> QED
    BY <1>0, <2>1, WalletConstants
<1>4. CASE Wallet!Finally
  <2>1. c15' = None /\ c16' = None /\ c17' = c17
    BY <1>4 DEF Wallet!Finally
  <2> QED
    BY <1>0, <2>1, WalletConstants
<1>5. CASE Wallet!BtnSetFraction
  <2>1. c17' = TRUE /\ UNCHANGED <<c2, c15, c16>>
    BY <1>5 DEF Wallet!BtnSetFraction
  <2> QED
    BY <1>0, <2>1
<1>6. CASE UNCHANGED <<c2, c15, c16, c17>>
  BY <1>0, <1>6
<1>7. ASSUME \/ \E t \in Tokens : \/ Wallet!ReqDecimals(t) \/ Wallet!BtnUpdata(t)
                                  \/ Wallet!FeeLoads(t) \/ Wallet!OpenSendAmountModal(t)
             \/ \E q \in Asked : Wallet!Answers(q)
             \/ Wallet!SwitchUser \/ Wallet!HandleAdSentIcp \/ Wallet!InputAmountChange
             \/ Wallet!InputTo \/ Wallet!BtnMax
      PROVE  UNCHANGED <<c2, c15, c16, c17>>
  <2> USE DEF Wallet!transfer
  <2>1. ASSUME NEW a, NEW to, Wallet!Enter(a, to) PROVE UNCHANGED <<c2, c15, c16, c17>>
    BY <2>1 DEF Wallet!Enter
  <2>2. Wallet!InputAmountChange \/ Wallet!InputTo \/ Wallet!BtnMax =>
          \E a, to : Wallet!Enter(a, to)
    BY DEF Wallet!InputAmountChange, Wallet!InputTo, Wallet!BtnMax
  <2> QED
    BY <1>7, <2>1, <2>2 DEF Wallet!ReqDecimals, Wallet!BtnUpdata, Wallet!FeeLoads,
         Wallet!OpenSendAmountModal, Wallet!Answers, Wallet!LedgerReads, Wallet!Show,
         Wallet!QueryRejected, Wallet!SwitchUser, Wallet!HandleAdSentIcp
<1> QED
  BY <1>1, <1>2, <1>3, <1>4, <1>5, <1>6, <1>7 DEF Wallet!Next, Wallet!Transfer

LEMMA WalletHolds == Spec => [](open = "wallet" => WalletInv)
<1> DEFINE Inv == open = "wallet" => WalletInv
<1>1. Init => Inv
  BY WalletInit DEF Init
<1>2. Inv /\ [Next]_state => Inv'
  <2> SUFFICES ASSUME Inv, [Next]_state, open' = "wallet" PROVE WalletInv'
    OBVIOUS
  <2>1. open = "wallet" /\ WalletInv
    BY StaysOpen
  <2>2. \/ Wallet!Next
        \/ UNCHANGED <<c1, c2, c3, c4, c5, c6, c7, c8, c9, c10, c11, c12, c13, c14, c15, c16,
                       c17, c18>>
    BY <2>1 DEF Next, state
  <2>3. CASE Wallet!Next
    BY <2>1, <2>3, WalletCardsStep, WalletFormStep, WalletTransferStep DEF WalletInv
  <2>4. CASE UNCHANGED <<c1, c2, c3, c4, c5, c6, c7, c8, c9, c10, c11, c12, c13, c14, c15, c16,
                         c17, c18>>
    BY <2>1, <2>4 DEF WalletInv, CardsInv, FormInv, TransferInv
  <2> QED
    BY <2>2, <2>3, <2>4
<1> QED
  BY <1>1, <1>2, PTL DEF Spec

\* Max leaves the fee: it is taken off the balance the form was opened with.
LEMMA MaxLeaves ==
    ASSUME WalletInv
    PROVE  Wallet!MaxLeavesFee
<1> SUFFICES ASSUME Wallet!BtnMax, c11' > 0, c9 = TokenFee
             PROVE  c11' + TokenFee <= c10.bal
  BY DEF Wallet!MaxLeavesFee
<1>1. c10 # None /\ c10.bal # 0 /\ c11' = c10.bal - c9
  <2>1. ASSUME c11' = 0 PROVE FALSE
    BY <2>1
  <2> QED
    BY <2>1 DEF Wallet!BtnMax, Wallet!Enter
<1>2. c10.bal \in Nat /\ c9 \in Nat
  BY <1>1 DEF WalletInv, FormInv, Wallet!Figure
<1> QED
  BY <1>1, <1>2

(***************************************************************************)
(* The powers of a base: a function that is defined by its value one       *)
(* before exists, and is what it is defined to be.                         *)
(***************************************************************************)
PowersTo(b, g, n) ==
    /\ g \in [0 .. n -> Nat \ {0}]
    /\ g[0] = 1
    /\ \A k \in 1 .. n : g[k] = b * g[k - 1]

LEMMA PowersExist ==
    ASSUME NEW b \in Nat \ {0}
    PROVE  \A n \in Nat : \E g : PowersTo(b, g, n)
<1> DEFINE T == {n \in Nat : \E g : PowersTo(b, g, n)}
<1>1. 0 \in T
  <2>1. PowersTo(b, [k \in 0 .. 0 |-> 1], 0)
    BY DEF PowersTo
  <2> QED
    BY <2>1
<1>2. ASSUME NEW n \in T PROVE n + 1 \in T
  <2>1. PICK g : PowersTo(b, g, n)
    OBVIOUS
  <2> DEFINE h == [k \in 0 .. (n + 1) |-> IF k = n + 1 THEN b * g[n] ELSE g[k]]
  <2>2. g[n] \in Nat \ {0}
    BY <2>1 DEF PowersTo
  <2>3. PowersTo(b, h, n + 1)
    <3>0. b * g[n] \in Nat \ {0}
      BY <2>2
    <3>1. h \in [0 .. (n + 1) -> Nat \ {0}]
      BY <2>1, <3>0 DEF PowersTo
    <3>2. h[0] = 1
      BY <2>1 DEF PowersTo
    <3>3. ASSUME NEW k \in 1 .. (n + 1) PROVE h[k] = b * h[k - 1]
      <4>1. CASE k = n + 1
        BY <4>1
      <4>2. CASE k \in 1 .. n
        BY <2>1, <4>2 DEF PowersTo
      <4> QED
        BY <4>1, <4>2
    <3> HIDE DEF h
    <3> QED
      BY <3>1, <3>2, <3>3 DEF PowersTo
  <2> QED
    BY <2>3
<1> HIDE DEF T
<1>3. T \in SUBSET Nat
  BY DEF T
<1>4. T = Nat
  BY <1>1, <1>2, <1>3, NatSetInduction
<1> QED
  BY <1>4 DEF T

LEMMA PowersAgree ==
    ASSUME NEW b, NEW m \in Nat, NEW n \in Nat, NEW g, NEW h, PowersTo(b, g, m), PowersTo(b, h, n)
    PROVE  \A k \in 0 .. m : k \in 0 .. n => g[k] = h[k]
<1> DEFINE T == {k \in Nat : k \in 0 .. m /\ k \in 0 .. n => g[k] = h[k]}
<1>1. 0 \in T
  BY DEF PowersTo
<1>2. ASSUME NEW k \in T PROVE k + 1 \in T
  <2> SUFFICES ASSUME k + 1 \in 0 .. m, k + 1 \in 0 .. n PROVE g[k + 1] = h[k + 1]
    OBVIOUS
  <2>1. g[k] = h[k]
    OBVIOUS
  <2>2. g[k + 1] = b * g[(k + 1) - 1] /\ h[k + 1] = b * h[(k + 1) - 1] /\ (k + 1) - 1 = k
    BY DEF PowersTo
  <2> QED
    BY <2>1, <2>2
<1> HIDE DEF T
<1>3. T \in SUBSET Nat
  BY DEF T
<1>4. T = Nat
  BY <1>1, <1>2, <1>3, NatSetInduction
<1> QED
  BY <1>4 DEF T

LEMMA PowerTable ==
    ASSUME NEW b \in Nat \ {0}
    PROVE  \E p : p = [k \in Nat |-> IF k = 0 THEN 1 ELSE b * p[k - 1]]
<1> DEFINE table(n) == CHOOSE g : PowersTo(b, g, n)
           p == [k \in Nat |-> table(k)[k]]
<1>1. ASSUME NEW n \in Nat PROVE PowersTo(b, table(n), n)
  BY PowersExist
<1> HIDE DEF table
<1>3. p[0] = 1
  <2>1. PowersTo(b, table(0), 0)
    BY <1>1
  <2> QED
    BY <2>1 DEF PowersTo
<1>4. ASSUME NEW k \in Nat \ {0} PROVE p[k] = b * p[k - 1]
  <2>1. k - 1 \in Nat /\ PowersTo(b, table(k), k) /\ PowersTo(b, table(k - 1), k - 1)
    BY <1>1
  <2>2. table(k)[k] = b * table(k)[k - 1]
    BY <2>1 DEF PowersTo
  <2>3. table(k)[k - 1] = table(k - 1)[k - 1]
    BY <2>1, PowersAgree
  <2> QED
    BY <2>1, <2>2, <2>3
<1>5. \A k \in Nat : p[k] = IF k = 0 THEN 1 ELSE b * p[k - 1]
  BY <1>3, <1>4
<1>6. p = [k \in Nat |-> p[k]]
  OBVIOUS
<1> HIDE DEF p
<1>7. p = [k \in Nat |-> IF k = 0 THEN 1 ELSE b * p[k - 1]]
  BY <1>5, <1>6
<1> QED
  BY <1>7

\* What is defined by its value one before, with 1 in front.
LEMMA PowersAre ==
    ASSUME NEW b \in Nat \ {0}, NEW p, p = [k \in Nat |-> IF k = 0 THEN 1 ELSE b * p[k - 1]]
    PROVE  /\ p[0] = 1
           /\ \A k \in Nat : p[k] \in Nat \ {0} /\ p[k + 1] = b * p[k]
<1> DEFINE T == {k \in Nat : p[k] \in Nat \ {0}}
<1>1. p[0] = 1
  OBVIOUS
<1>2. ASSUME NEW k \in Nat PROVE p[k + 1] = b * p[k]
  <2>1. k + 1 \in Nat /\ k + 1 # 0 /\ (k + 1) - 1 = k
    OBVIOUS
  <2> QED
    BY <2>1
<1>3. \A k \in T : k + 1 \in T
  BY <1>2
<1>4. 0 \in T
  BY <1>1
<1> HIDE DEF T
<1>5. T \in SUBSET Nat
  BY DEF T
<1>6. T = Nat
  BY <1>3, <1>4, <1>5, NatSetInduction
<1>7. ASSUME NEW k \in Nat PROVE p[k] \in Nat \ {0}
  <2>1. k \in T
    BY <1>6
  <2> QED
    BY <2>1 DEF T
<1> QED
  BY <1>1, <1>2, <1>7

LEMMA FiguresPow2 ==
    /\ Figures!Pow2[0] = 1
    /\ \A k \in Nat : /\ Figures!Pow2[k] \in Nat \ {0}
                      /\ Figures!Pow2[k + 1] = 2 * Figures!Pow2[k]
<1>1. \E p : p = [k \in Nat |-> IF k = 0 THEN 1 ELSE 2 * p[k - 1]]
  BY PowerTable
<1>2. Figures!Pow2 = [k \in Nat |-> IF k = 0 THEN 1 ELSE 2 * Figures!Pow2[k - 1]]
  BY <1>1 DEF Figures!Pow2
<1> HIDE DEF Figures!Pow2
<1>3. \E p : p = Figures!Pow2
  OBVIOUS
<1>4. PICK p : p = Figures!Pow2
  BY <1>3
<1>5. p = [k \in Nat |-> IF k = 0 THEN 1 ELSE 2 * p[k - 1]]
  BY <1>2, <1>4
<1>6. p[0] = 1 /\ \A k \in Nat : p[k] \in Nat \ {0} /\ p[k + 1] = 2 * p[k]
  BY <1>5, PowersAre
<1> QED
  BY <1>4, <1>6

LEMMA FiguresPow10 ==
    /\ Figures!Pow10[0] = 1
    /\ \A k \in Nat : Figures!Pow10[k] \in Nat \ {0}
<1>1. \E p : p = [k \in Nat |-> IF k = 0 THEN 1 ELSE 10 * p[k - 1]]
  BY PowerTable
<1>2. Figures!Pow10 = [k \in Nat |-> IF k = 0 THEN 1 ELSE 10 * Figures!Pow10[k - 1]]
  BY <1>1 DEF Figures!Pow10
<1>4. PICK p : p = Figures!Pow10
  OBVIOUS
<1>5. p = [k \in Nat |-> IF k = 0 THEN 1 ELSE 10 * p[k - 1]]
  BY <1>2, <1>4
<1>6. p[0] = 1 /\ \A k \in Nat : p[k] \in Nat \ {0}
  BY <1>5, PowersAre
<1> QED
  BY <1>4, <1>6

(***************************************************************************)
(* The figures.  A Number is a multiple q of a step, the step doubling     *)
(* with the exponent; rounding to it is monotone and off by half a step.   *)
(***************************************************************************)
P2(k) == Figures!Pow2[k]
Units(x) == x * Figures!Grid          \* an amount of x, on the grid, times Unit
Step(k) == Unit * P2(k)

LEMMA TimesLeq ==
    ASSUME NEW a \in Nat, NEW b \in Nat, NEW c \in Nat, a <= b
    PROVE  a * c <= b * c /\ c * a <= c * b
OBVIOUS

LEMMA TimesLess ==
    ASSUME NEW a \in Nat, NEW b \in Nat, NEW c \in Nat \ {0}, a < b
    PROVE  a * c < b * c /\ c * a < c * b
OBVIOUS

LEMMA TimesAssoc ==
    ASSUME NEW a \in Nat, NEW b \in Nat, NEW c \in Nat
    PROVE  (a * b) * c = a * (b * c) /\ a * b = b * a /\ a * b \in Nat
OBVIOUS

LEMMA DivideIs ==
    ASSUME NEW d \in Nat, NEW c \in Nat \ {0}
    PROVE  /\ d \div c \in Nat /\ d % c \in 0 .. c - 1
           /\ d = (d \div c) * c + (d % c)
OBVIOUS

\* A set of numbers that is not empty has a least.
LEMMA LeastOf ==
    ASSUME NEW S \in SUBSET Nat, S # {}
    PROVE  \E m \in S : \A n \in S : m <= n
<1>1. PICK m \in S : \A n \in S : ~(<<n, m>> \in OpToRel(<, Nat))
  BY NatLessThanWellFounded, WFMin
<1>2. ASSUME NEW n \in S PROVE m <= n
  <2>1. n \in Nat /\ m \in Nat
    OBVIOUS
  <2>2. ~(n < m)
    BY <1>1, <2>1 DEF OpToRel
  <2> QED
    BY <2>1, <2>2
<1> QED
  BY <1>2

LEMMA P2Is ==
    /\ P2(0) = 1
    /\ \A k \in Nat : P2(k) \in Nat \ {0} /\ P2(k + 1) = 2 * P2(k)
BY FiguresPow2 DEF P2

LEMMA P2Sum ==
    ASSUME NEW k \in Nat
    PROVE  \A m \in Nat : P2(k + m) = P2(k) * P2(m)
<1> DEFINE T == {m \in Nat : P2(k + m) = P2(k) * P2(m)}
<1>1. 0 \in T
  BY P2Is
<1>2. ASSUME NEW m \in T PROVE m + 1 \in T
  <2>1. k + m \in Nat /\ k + (m + 1) = (k + m) + 1 /\ m \in Nat
    OBVIOUS
  <2>2. P2(k + (m + 1)) = 2 * P2(k + m) /\ P2(m + 1) = 2 * P2(m)
    BY <2>1, P2Is
  <2>3. P2(k + m) = P2(k) * P2(m)
    OBVIOUS
  <2>4. P2(k) \in Nat /\ P2(m) \in Nat
    BY <2>1, P2Is
  <2>5. 2 * (P2(k) * P2(m)) = P2(k) * (2 * P2(m))
    BY <2>4
  <2> QED
    BY <2>1, <2>2, <2>3, <2>5
<1> HIDE DEF T
<1>3. T \in SUBSET Nat
  BY DEF T
<1>4. T = Nat
  BY <1>1, <1>2, <1>3, NatSetInduction
<1> QED
  BY <1>4 DEF T

LEMMA P2Grows ==
    ASSUME NEW k \in Nat, NEW m \in Nat, k <= m
    PROVE  P2(k) <= P2(m)
<1>1. m - k \in Nat /\ k + (m - k) = m
  OBVIOUS
<1>2. P2(m) = P2(k) * P2(m - k)
  BY <1>1, P2Sum
<1>3. P2(k) \in Nat /\ P2(m - k) \in Nat /\ 1 <= P2(m - k)
  BY <1>1, P2Is
<1>4. P2(k) * 1 <= P2(k) * P2(m - k)
  BY <1>3, TimesLeq
<1> QED
  BY <1>2, <1>3, <1>4

LEMMA P2Exceeds == \A n \in Nat : n < P2(n)
<1> DEFINE T == {n \in Nat : n < P2(n)}
<1>1. 0 \in T
  BY P2Is
<1>2. ASSUME NEW n \in T PROVE n + 1 \in T
  <2>1. n \in Nat /\ n < P2(n) /\ P2(n) \in Nat /\ P2(n + 1) = 2 * P2(n)
    BY P2Is
  <2>2. n + 1 < 2 * P2(n)
    BY <2>1
  <2> QED
    BY <2>1, <2>2
<1> HIDE DEF T
<1>3. T \in SUBSET Nat
  BY DEF T
<1>4. T = Nat
  BY <1>1, <1>2, <1>3, NatSetInduction
<1> QED
  BY <1>4 DEF T

LEMMA FiguresConstants ==
    /\ Bits \in Nat /\ Bits - 1 \in Nat /\ Unit \in Nat \ {0} /\ Fee \in Nat /\ MaxUnits \in Nat
    /\ GridBits \in Nat
    /\ Figures!Grid = P2(GridBits) /\ Figures!Grid \in Nat \ {0}
    /\ Unit * P2(Bits) <= Figures!Grid
    /\ P2(Bits) = 2 * P2(Bits - 1) /\ P2(Bits) \in Nat \ {0} /\ P2(Bits - 1) \in Nat \ {0}
<1>1. Bits \in Nat \ {0} /\ Unit \in Nat \ {0} /\ GridBits \in Nat /\ Fee \in Nat /\ MaxUnits \in Nat
      /\ Figures!Grid >= Unit * Figures!Pow2[Bits]
  BY PartsAssumption DEF PartsAssumption, Figures!AmountsAssumption
<1>2. Figures!Grid = P2(GridBits)
  BY DEF Figures!Grid, P2
<1>3. Figures!Grid \in Nat \ {0}
  BY <1>1, <1>2, P2Is
<1>4. Bits - 1 \in Nat /\ (Bits - 1) + 1 = Bits
  BY <1>1
<1>5. P2(Bits) = 2 * P2(Bits - 1) /\ P2(Bits) \in Nat \ {0} /\ P2(Bits - 1) \in Nat \ {0}
  BY <1>1, <1>4, P2Is
<1>6. Unit * P2(Bits) <= Figures!Grid
  <2>1. Figures!Grid >= Unit * P2(Bits)
    BY <1>1 DEF P2
  <2> QED
    BY <1>1, <1>3, <1>5, <2>1
<1> QED
  BY <1>1, <1>2, <1>3, <1>4, <1>5, <1>6

LEMMA StepIs ==
    ASSUME NEW k \in Nat
    PROVE  /\ Step(k) \in Nat \ {0} /\ Step(k + 1) = 2 * Step(k)
           /\ \A n \in Nat : Step(k + n) = Step(k) * P2(n)
<1>1. P2(k) \in Nat \ {0} /\ P2(k + 1) = 2 * P2(k) /\ Unit \in Nat \ {0}
  BY P2Is, FiguresConstants
<1>2. Step(k) \in Nat \ {0} /\ Step(k + 1) = 2 * Step(k)
  BY <1>1 DEF Step
<1>3. ASSUME NEW n \in Nat PROVE Step(k + n) = Step(k) * P2(n)
  <2>1. P2(k + n) = P2(k) * P2(n) /\ P2(n) \in Nat
    BY P2Sum, P2Is
  <2>2. Unit * (P2(k) * P2(n)) = (Unit * P2(k)) * P2(n)
    BY <1>1, <2>1, TimesAssoc
  <2> QED
    BY <2>1, <2>2 DEF Step
<1> QED
  BY <1>2, <1>3

\* A larger exponent has a larger step.
LEMMA StepGrows ==
    ASSUME NEW k \in Nat, NEW m \in Nat, k <= m
    PROVE  Step(k) <= Step(m)
<1>1. P2(k) <= P2(m) /\ P2(k) \in Nat /\ P2(m) \in Nat /\ Unit \in Nat
  BY P2Grows, P2Is, FiguresConstants
<1> QED
  BY <1>1, TimesLeq DEF Step

LEMMA UnitsAre ==
    /\ \A x \in Nat : Units(x) \in Nat /\ Units(x + 1) = Units(x) + Figures!Grid
    /\ \A x, y \in Nat : x <= y => Units(x) <= Units(y)
<1>1. Figures!Grid \in Nat
  BY FiguresConstants
<1>2. ASSUME NEW x \in Nat PROVE Units(x) \in Nat /\ Units(x + 1) = Units(x) + Figures!Grid
  BY <1>1 DEF Units
<1>3. ASSUME NEW x \in Nat, NEW y \in Nat, x <= y PROVE Units(x) <= Units(y)
  BY <1>1, <1>3, TimesLeq DEF Units
<1> QED
  BY <1>2, <1>3

\* The exponent, and what it says of the amount.
LEMMA ExponentIs ==
    ASSUME NEW x \in Nat, NEW k, k = Figures!Exponent(x, Unit)
    PROVE  /\ k \in Nat /\ Units(x) < Step(k + Bits)
           /\ k # 0 => k - 1 \in Nat /\ Step((k - 1) + Bits) <= Units(x)
<1> DEFINE S == {i \in Nat : Units(x) < Step(i + Bits)}
<1>0. ASSUME NEW i \in Nat PROVE Step(i + Bits) \in Nat
  <2>1. i + Bits \in Nat
    BY FiguresConstants
  <2> QED
    BY <2>1, StepIs
<1>1. x + GridBits \in S
  <2>1. x < P2(x) /\ P2(x) \in Nat /\ P2(GridBits) \in Nat \ {0} /\ GridBits \in Nat
    BY P2Exceeds, P2Is, FiguresConstants
  <2>2. Units(x) < P2(x) * P2(GridBits)
    BY <2>1, TimesLess, FiguresConstants DEF Units
  <2>3. P2(x) * P2(GridBits) = P2(x + GridBits)
    BY <2>1, P2Sum
  <2>4. P2(x + GridBits) <= P2((x + GridBits) + Bits)
    <3>1. x + GridBits \in Nat /\ (x + GridBits) + Bits \in Nat
          /\ x + GridBits <= (x + GridBits) + Bits
      BY <2>1, FiguresConstants
    <3> QED
      BY <3>1, P2Grows
  <2>5. P2((x + GridBits) + Bits) <= Step((x + GridBits) + Bits)
    <3>1. P2((x + GridBits) + Bits) \in Nat /\ Unit \in Nat /\ 1 <= Unit
      BY <2>1, P2Is, FiguresConstants
    <3>2. 1 * P2((x + GridBits) + Bits) <= Unit * P2((x + GridBits) + Bits)
      BY <3>1, TimesLeq
    <3> QED
      BY <3>1, <3>2 DEF Step
  <2>6. /\ x + GridBits \in Nat /\ P2(x + GridBits) \in Nat
        /\ P2((x + GridBits) + Bits) \in Nat /\ Step((x + GridBits) + Bits) \in Nat
        /\ Units(x) \in Nat
    <3>1. x + GridBits \in Nat /\ (x + GridBits) + Bits \in Nat
      BY <2>1, FiguresConstants
    <3>2. P2(x + GridBits) \in Nat /\ P2((x + GridBits) + Bits) \in Nat
      BY <3>1, P2Is
    <3>3. Step((x + GridBits) + Bits) \in Nat /\ Units(x) \in Nat
      BY <1>0, <3>1, UnitsAre
    <3> QED
      BY <3>1, <3>2, <3>3
  <2> QED
    BY <2>2, <2>3, <2>4, <2>5, <2>6
<1>2. PICK m \in S : \A n \in S : m <= n
  <2>1. S \in SUBSET Nat /\ S # {}
    BY <1>1
  <2> HIDE DEF S
  <2> QED
    BY <2>1, LeastOf
<1> DEFINE Is(i) == /\ x * Figures!Grid < Unit * Figures!Pow2[i + Bits]
                    /\ \A j \in 0 .. i - 1 : x * Figures!Grid >= Unit * Figures!Pow2[j + Bits]
<1>3. m \in 0 .. x + GridBits /\ Is(m)
  <2>1. m \in Nat /\ m <= x + GridBits
    BY <1>1, <1>2
  <2>2. ASSUME NEW j \in 0 .. m - 1 PROVE Units(x) >= Step(j + Bits)
    <3>1. j \in Nat /\ ~(m <= j)
      BY <2>1
    <3>2. j \notin S
      BY <1>2, <3>1
    <3> QED
      BY <1>0, <3>1, <3>2, UnitsAre
  <2>3. Units(x) < Step(m + Bits)
    BY <1>2
  <2> QED
    BY <2>1, <2>2, <2>3, FiguresConstants DEF Units, Step, P2
<1>4. k \in 0 .. x + GridBits /\ Is(k)
  <2>1. k = CHOOSE i \in 0 .. x + GridBits : Is(i)
    BY DEF Figures!Exponent
  <2>2. \E i \in 0 .. x + GridBits : Is(i)
    BY <1>3
  <2> HIDE DEF Is
  <2> QED
    BY <2>1, <2>2
<1>5. k \in Nat
  BY <1>4, FiguresConstants
<1>6. Units(x) < Step(k + Bits)
  BY <1>4 DEF Units, Step, P2
<1>7. ASSUME k # 0 PROVE k - 1 \in Nat /\ Step((k - 1) + Bits) <= Units(x)
  <2>1. k - 1 \in Nat /\ k - 1 \in 0 .. k - 1
    BY <1>5, <1>7
  <2>2. Units(x) >= Step((k - 1) + Bits)
    BY <1>4, <2>1 DEF Units, Step, P2
  <2> QED
    BY <1>0, <2>1, <2>2, UnitsAre
<1> QED
  BY <1>5, <1>6, <1>7

\* The multiple of its step that a Number is: the quotient, rounded.
Rounded(q, r, s) == IF 2 * r > s \/ (2 * r = s /\ q % 2 = 1) THEN q + 1 ELSE q

\* A Number with its exponent, quotient and remainder.
Parses(x, n, k, q, r) ==
    /\ k \in Nat /\ q \in Nat /\ r \in Nat
    /\ Units(x) = q * Step(k) + r /\ r < Step(k)
    /\ q < P2(Bits) /\ (k # 0 => P2(Bits - 1) <= q)
    /\ n = P2(k) * Rounded(q, r, Step(k))

NumberOf(x) == Figures!Number(x, Unit)

LEMMA NumberIs ==
    ASSUME NEW x \in Nat
    PROVE  \E k, q, r : Parses(x, NumberOf(x), k, q, r)
<1> DEFINE k == Figures!Exponent(x, Unit)
           q == Units(x) \div Step(k)
           r == Units(x) % Step(k)
<1>1. k \in Nat /\ Units(x) < Step(k + Bits)
      /\ (k # 0 => k - 1 \in Nat /\ Step((k - 1) + Bits) <= Units(x))
  BY ExponentIs
<1>2. NumberOf(x) = P2(k) * Rounded(q, r, Step(k))
  BY DEF NumberOf, Figures!Number, Rounded, Units, Step, P2
<1> HIDE DEF k
<1>3. Step(k) \in Nat \ {0} /\ Units(x) \in Nat
  BY <1>1, StepIs, UnitsAre
<1>4. q \in Nat /\ r \in 0 .. Step(k) - 1 /\ Units(x) = q * Step(k) + r
  BY <1>3, DivideIs
<1> HIDE DEF q, r
<1>5. r \in Nat /\ r < Step(k)
  BY <1>3, <1>4
<1>6. Step(k + Bits) = Step(k) * P2(Bits) /\ P2(Bits) \in Nat \ {0} /\ P2(Bits - 1) \in Nat \ {0}
  BY <1>1, StepIs, FiguresConstants
<1>7. q < P2(Bits)
  <2> SUFFICES ASSUME P2(Bits) <= q PROVE FALSE
    BY <1>4, <1>6
  <2>1. Step(k) * P2(Bits) <= Step(k) * q /\ Step(k) * q = q * Step(k)
    BY <1>3, <1>4, <1>6, TimesLeq, TimesAssoc
  <2>2. Step(k) * P2(Bits) \in Nat /\ q * Step(k) \in Nat
    BY <1>3, <1>4, <1>6, TimesAssoc
  <2> QED
    BY <1>1, <1>3, <1>4, <1>5, <1>6, <2>1, <2>2
<1>8. ASSUME k # 0 PROVE P2(Bits - 1) <= q
  <2> SUFFICES ASSUME q + 1 <= P2(Bits - 1) PROVE FALSE
    BY <1>4, <1>6
  <2>1. (k - 1) + Bits = k + (Bits - 1)
    BY <1>1, FiguresConstants
  <2>2. Step(k + (Bits - 1)) = Step(k) * P2(Bits - 1)
    BY <1>1, StepIs, FiguresConstants
  <2>3. Step(k) * P2(Bits - 1) <= Units(x)
    BY <1>1, <1>8, <2>1, <2>2
  <2>4. Step(k) * (q + 1) <= Step(k) * P2(Bits - 1) /\ Step(k) * P2(Bits - 1) \in Nat
    BY <1>3, <1>4, <1>6, TimesLeq, TimesAssoc
  <2>5. Step(k) * (q + 1) = q * Step(k) + Step(k) /\ q * Step(k) \in Nat
    BY <1>3, <1>4
  <2> QED
    BY <1>3, <1>4, <1>5, <2>3, <2>4, <2>5
<1> QED
  BY <1>1, <1>2, <1>4, <1>5, <1>7, <1>8 DEF Parses

LEMMA RoundedIs ==
    ASSUME NEW q \in Nat, NEW r \in Nat, NEW s \in Nat \ {0}, r < s
    PROVE  /\ Rounded(q, r, s) \in Nat
           /\ \/ Rounded(q, r, s) = q /\ 2 * r <= s
              \/ Rounded(q, r, s) = q + 1 /\ 2 * r >= s
<1>1. CASE 2 * r > s \/ (2 * r = s /\ q % 2 = 1)
  <2>1. Rounded(q, r, s) = q + 1
    BY <1>1 DEF Rounded
  <2>2. 2 * r >= s
    BY <1>1
  <2> QED
    BY <2>1, <2>2
<1>2. CASE ~(2 * r > s \/ (2 * r = s /\ q % 2 = 1))
  <2>1. Rounded(q, r, s) = q
    BY <1>2 DEF Rounded
  <2>2. 2 * r <= s
    BY <1>2
  <2> QED
    BY <2>1, <2>2
<1> QED
  BY <1>1, <1>2

\* A Number is a number, at most half a step from what it was parsed from.
LEMMA ParsedNear ==
    ASSUME NEW x \in Nat, NEW n, NEW k, NEW q, NEW r, Parses(x, n, k, q, r)
    PROVE  /\ n \in Nat /\ n * Unit \in Nat
           /\ 2 * (n * Unit) <= 2 * Units(x) + Step(k)
           /\ 2 * Units(x) <= 2 * (n * Unit) + Step(k)
<1> DEFINE m == Rounded(q, r, Step(k))
<1>1. /\ k \in Nat /\ q \in Nat /\ r \in Nat /\ Units(x) = q * Step(k) + r /\ r < Step(k)
      /\ n = P2(k) * m
  BY DEF Parses
<1>2. Step(k) \in Nat \ {0} /\ P2(k) \in Nat /\ Unit \in Nat /\ Units(x) \in Nat
  BY <1>1, StepIs, P2Is, FiguresConstants, UnitsAre
<1>3. m \in Nat /\ ((m = q /\ 2 * r <= Step(k)) \/ (m = q + 1 /\ 2 * r >= Step(k)))
  BY <1>1, <1>2, RoundedIs
<1> HIDE DEF m
<1>4. n \in Nat /\ n * Unit = m * Step(k) /\ n * Unit \in Nat
  <2>1. n \in Nat /\ n * Unit \in Nat
    BY <1>1, <1>2, <1>3, TimesAssoc
  <2>2. (P2(k) * m) * Unit = m * (Unit * P2(k))
    <3>1. P2(k) * m = m * P2(k) /\ P2(k) * Unit = Unit * P2(k)
      BY <1>2, <1>3, TimesAssoc
    <3>2. (m * P2(k)) * Unit = m * (P2(k) * Unit)
      BY <1>2, <1>3, TimesAssoc
    <3> QED
      BY <3>1, <3>2
  <2> QED
    BY <1>1, <2>1, <2>2 DEF Step
<1>5. q * Step(k) \in Nat /\ (q + 1) * Step(k) = q * Step(k) + Step(k)
  BY <1>1, <1>2
<1> DEFINE a == q * Step(k)
<1>6. CASE m = q /\ 2 * r <= Step(k)
  BY <1>1, <1>2, <1>4, <1>5, <1>6
<1>7. CASE m = q + 1 /\ 2 * r >= Step(k)
  BY <1>1, <1>2, <1>4, <1>5, <1>7
<1> QED
  BY <1>3, <1>4, <1>6, <1>7

\* The step is small against the amount, or the smallest.
LEMMA ParsedStep ==
    ASSUME NEW x \in Nat, NEW n, NEW k, NEW q, NEW r, Parses(x, n, k, q, r)
    PROVE  /\ Step(k) \in Nat \ {0}
           /\ Step(k) = Unit \/ P2(Bits - 1) * Step(k) <= Units(x)
<1>1. /\ k \in Nat /\ q \in Nat /\ r \in Nat /\ Units(x) = q * Step(k) + r
      /\ k # 0 => P2(Bits - 1) <= q
  BY DEF Parses
<1>2. Step(k) \in Nat \ {0} /\ P2(Bits - 1) \in Nat
  BY <1>1, StepIs, FiguresConstants
<1>3. CASE k = 0
  BY <1>2, <1>3, P2Is, FiguresConstants DEF Step
<1>4. CASE k # 0
  <2>1. P2(Bits - 1) * Step(k) <= q * Step(k)
    BY <1>1, <1>2, <1>4, TimesLeq
  <2>2. P2(Bits - 1) * Step(k) \in Nat /\ q * Step(k) \in Nat
    BY <1>1, <1>2, TimesAssoc
  <2> QED
    BY <1>1, <1>2, <2>1, <2>2
<1> QED
  BY <1>2, <1>3, <1>4

\* A larger amount parses to no smaller Number.
LEMMA NumberGrows ==
    ASSUME NEW x \in Nat, NEW y \in Nat, x <= y
    PROVE  NumberOf(x) <= NumberOf(y) /\ NumberOf(x) \in Nat
<1>1. PICK k, q, r : Parses(x, NumberOf(x), k, q, r)
  BY NumberIs
<1>2. PICK l, p, t : Parses(y, NumberOf(y), l, p, t)
  BY NumberIs
<1>3. /\ k \in Nat /\ q \in Nat /\ r \in Nat /\ Units(x) = q * Step(k) + r /\ r < Step(k)
      /\ q < P2(Bits) /\ (k # 0 => P2(Bits - 1) <= q)
      /\ NumberOf(x) = P2(k) * Rounded(q, r, Step(k))
  BY <1>1 DEF Parses
<1>4. /\ l \in Nat /\ p \in Nat /\ t \in Nat /\ Units(y) = p * Step(l) + t /\ t < Step(l)
      /\ p < P2(Bits) /\ (l # 0 => P2(Bits - 1) <= p)
      /\ NumberOf(y) = P2(l) * Rounded(p, t, Step(l))
  BY <1>2 DEF Parses
<1>5. /\ Units(x) <= Units(y) /\ Units(x) \in Nat /\ Units(y) \in Nat
      /\ Step(k) \in Nat \ {0} /\ Step(l) \in Nat \ {0}
      /\ P2(k) \in Nat \ {0} /\ P2(l) \in Nat \ {0}
      /\ P2(Bits) = 2 * P2(Bits - 1) /\ P2(Bits - 1) \in Nat \ {0} /\ P2(Bits) \in Nat
  BY <1>3, <1>4, UnitsAre, StepIs, P2Is, FiguresConstants
<1> DEFINE m == Rounded(q, r, Step(k))
           o == Rounded(p, t, Step(l))
<1>6. /\ m \in Nat /\ (m = q \/ m = q + 1)
      /\ o \in Nat /\ (o = p \/ o = p + 1)
  BY <1>3, <1>4, <1>5, RoundedIs
<1>7. CASE k = l
  <2>1. m <= o
    <3>1. q <= p
      <4> SUFFICES ASSUME p + 1 <= q PROVE FALSE
        BY <1>3, <1>4
      <4>1. (p + 1) * Step(k) <= q * Step(k)
        BY <1>3, <1>4, <1>5, TimesLeq
      <4>2. (p + 1) * Step(k) = p * Step(k) + Step(k) /\ p * Step(k) \in Nat /\ q * Step(k) \in Nat
        BY <1>3, <1>4, <1>5
      <4> QED
        BY <1>3, <1>4, <1>5, <1>7, <4>1, <4>2
    <3>2. CASE q = p
      <4>0. p * Step(k) \in Nat
        BY <1>4, <1>5
      <4>1. r <= t
        BY <1>3, <1>4, <1>5, <1>7, <3>2, <4>0
      <4> QED
        BY <1>3, <1>4, <1>5, <1>7, <3>2, <4>1 DEF Rounded
    <3>3. CASE q # p
      BY <1>3, <1>4, <1>6, <3>1, <3>3
    <3> QED
      BY <3>2, <3>3
  <2> HIDE DEF m, o
  <2>2. P2(k) * m <= P2(k) * o /\ P2(k) * m \in Nat
    BY <1>5, <1>6, <2>1, TimesLeq, TimesAssoc
  <2> QED
    BY <1>3, <1>4, <1>7, <2>2 DEF m, o
<1>8. CASE k < l
  <2>0. k + 1 \in Nat /\ k + 1 <= l /\ P2(k + 1) = 2 * P2(k) /\ P2(k + 1) \in Nat
    BY <1>3, <1>4, <1>8, P2Is
  <2>1. m <= P2(Bits)
    BY <1>3, <1>5, <1>6
  <2>2. P2(Bits - 1) <= o
    BY <1>3, <1>4, <1>5, <1>6, <1>8
  <2> HIDE DEF m, o
  <2>3. P2(k) * m <= P2(k) * P2(Bits) /\ P2(k) * m \in Nat /\ P2(k) * P2(Bits) \in Nat
    BY <1>5, <1>6, <2>1, TimesLeq, TimesAssoc
  <2>4. P2(k) * P2(Bits) = P2(k + 1) * P2(Bits - 1)
    <3>1. \A a, b \in Nat : a * (2 * b) = (2 * a) * b
      OBVIOUS
    <3> QED
      BY <1>5, <2>0, <3>1
  <2>5. P2(k + 1) <= P2(l)
    BY <1>4, <2>0, P2Grows
  <2>6. P2(k + 1) * P2(Bits - 1) <= P2(l) * P2(Bits - 1)
        /\ P2(l) * P2(Bits - 1) <= P2(l) * o
    BY <1>5, <1>6, <2>0, <2>2, <2>5, TimesLeq
  <2>7. P2(l) * P2(Bits - 1) \in Nat /\ P2(l) * o \in Nat
    BY <1>5, <1>6, TimesAssoc
  <2> QED
    BY <1>3, <1>4, <2>3, <2>4, <2>6, <2>7 DEF m, o
<1>9. CASE l < k
  <2>1. l + 1 \in Nat /\ l + 1 <= k /\ Step(l + 1) = 2 * Step(l) /\ Step(l + 1) <= Step(k)
        /\ P2(Bits - 1) <= q
    BY <1>3, <1>4, <1>9, StepIs, StepGrows
  <2>2. P2(Bits - 1) * Step(l + 1) <= P2(Bits - 1) * Step(k)
        /\ P2(Bits - 1) * Step(k) <= q * Step(k)
    <3>1. Step(l + 1) \in Nat
      BY <2>1, StepIs
    <3> QED
      BY <1>3, <1>5, <2>1, <3>1, TimesLeq
  <2>3. P2(Bits - 1) * Step(l + 1) = P2(Bits) * Step(l)
    <3>1. \A a, b \in Nat : a * (2 * b) = (2 * a) * b
      OBVIOUS
    <3> QED
      BY <1>5, <2>1, <3>1
  <2>4. (p + 1) * Step(l) <= P2(Bits) * Step(l)
    <3>1. p + 1 <= P2(Bits) /\ p + 1 \in Nat
      BY <1>4, <1>5
    <3> QED
      BY <1>4, <1>5, <3>1, TimesLeq
  <2>5. (p + 1) * Step(l) = p * Step(l) + Step(l) /\ p * Step(l) \in Nat
    BY <1>4, <1>5
  <2>6. q * Step(k) \in Nat /\ P2(Bits) * Step(l) \in Nat /\ P2(Bits - 1) * Step(k) \in Nat
    BY <1>3, <1>5, TimesAssoc
  <2>7. FALSE
    BY <1>3, <1>4, <1>5, <2>2, <2>3, <2>4, <2>5, <2>6
  <2> QED
    BY <2>7
<1> QED
  BY <1>3, <1>4, <1>7, <1>8, <1>9

LEMMA AtLeastTwo ==
    /\ 2 <= P2(Bits) /\ Unit < Figures!Grid
<1>1. /\ P2(Bits) = 2 * P2(Bits - 1) /\ P2(Bits - 1) \in Nat \ {0} /\ Unit \in Nat \ {0}
      /\ Unit * P2(Bits) <= Figures!Grid /\ Figures!Grid \in Nat /\ P2(Bits) \in Nat
  BY FiguresConstants
<1>2. 2 <= P2(Bits)
  BY <1>1
<1>3. Unit * 2 <= Unit * P2(Bits) /\ Unit * P2(Bits) \in Nat
  BY <1>1, <1>2, TimesLeq, TimesAssoc
<1> QED
  BY <1>1, <1>2, <1>3

\* Two amounts that parse to one Number are close.
LEMMA AlikeClose ==
    ASSUME NEW x \in Nat, NEW y \in Nat, x <= y, NumberOf(x) = NumberOf(y)
    PROVE  (y - x) * (Figures!Grid * P2(Bits)) <= 4 * (NumberOf(x) * Unit)
<1> DEFINE G == Figures!Grid
           P == P2(Bits)
           n == NumberOf(x)
           a == n * Unit
<1>1. PICK k, q, r : Parses(x, n, k, q, r)
  BY NumberIs
<1>2. PICK l, p, t : Parses(y, n, l, p, t)
  BY NumberIs
<1>3. /\ 2 * a <= 2 * Units(x) + Step(k) /\ 2 * Units(x) <= 2 * a + Step(k) /\ a \in Nat
      /\ 2 * a <= 2 * Units(y) + Step(l) /\ 2 * Units(y) <= 2 * a + Step(l)
  BY <1>1, <1>2, ParsedNear
<1>4. /\ Step(k) \in Nat \ {0} /\ (Step(k) = Unit \/ P2(Bits - 1) * Step(k) <= Units(x))
      /\ Step(l) \in Nat \ {0} /\ (Step(l) = Unit \/ P2(Bits - 1) * Step(l) <= Units(y))
  BY <1>1, <1>2, ParsedStep
<1>5. /\ Units(x) \in Nat /\ Units(y) \in Nat /\ G \in Nat \ {0} /\ P \in Nat /\ 2 <= P
      /\ P = 2 * P2(Bits - 1) /\ P2(Bits - 1) \in Nat /\ Unit \in Nat /\ Unit < G
  BY UnitsAre, FiguresConstants, AtLeastTwo
<1>6. y - x \in Nat /\ (y - x) * G = Units(y) - Units(x)
  BY <1>5 DEF Units
<1> HIDE DEF G, P, n, a
\* The larger of the steps.
<1>7. ASSUME NEW s \in Nat \ {0}, NEW z \in {x, y}, 2 * Units(z) <= 2 * a + s,
             s = Unit \/ P2(Bits - 1) * s <= Units(z), (y - x) * G <= s
      PROVE  (y - x) * (G * P) <= 4 * a
  <2>1. CASE s = Unit
    <3>1. y - x = 0
      <4> SUFFICES ASSUME 1 <= y - x PROVE FALSE
        BY <1>6
      <4>1. 1 * G <= (y - x) * G /\ (y - x) * G \in Nat
        BY <1>5, <1>6, TimesLeq, TimesAssoc
      <4> QED
        BY <1>5, <1>7, <2>1, <4>1
    <3>2. G * P \in Nat
      BY <1>5
    <3> QED
      BY <1>3, <3>1, <3>2
  <2>2. CASE P2(Bits - 1) * s <= Units(z)
    <3>1. P * s = 2 * (P2(Bits - 1) * s) /\ P2(Bits - 1) * s \in Nat /\ P * s \in Nat
      BY <1>5
    <3>2. 2 * s <= P * s
      BY <1>5, TimesLeq
    <3>3. Units(z) \in Nat
      BY <1>5, <1>7
    <3>4. P * s <= 4 * a
      BY <1>3, <1>7, <2>2, <3>1, <3>2, <3>3
    <3>5. ((y - x) * G) * P <= s * P /\ s * P = P * s
      BY <1>5, <1>6, <1>7, TimesLeq, TimesAssoc
    <3>6. (y - x) * (G * P) = ((y - x) * G) * P /\ ((y - x) * G) * P \in Nat
      BY <1>5, <1>6, TimesAssoc
    <3> QED
      BY <1>3, <3>1, <3>4, <3>5, <3>6
  <2> QED
    BY <1>7, <2>1, <2>2
<1>8. CASE Step(k) <= Step(l)
  <2>1. (y - x) * G <= Step(l)
    BY <1>3, <1>4, <1>5, <1>6, <1>8
  <2> QED
    BY <1>3, <1>4, <1>7, <2>1 DEF a, n, G, P
<1>9. CASE Step(l) <= Step(k)
  <2>1. (y - x) * G <= Step(k)
    BY <1>3, <1>4, <1>5, <1>6, <1>9
  <2> QED
    BY <1>3, <1>4, <1>7, <2>1 DEF a, n, G, P
<1> QED
  BY <1>4, <1>8, <1>9

LEMMA DivideBound ==
    ASSUME NEW a \in Nat, NEW m \in Nat \ {0}, NEW d \in Nat, d * m <= a
    PROVE  d <= a \div m
<1>1. /\ a \div m \in Nat /\ a % m \in 0 .. m - 1
      /\ a = (a \div m) * m + (a % m)
  BY DivideIs
<1> SUFFICES ASSUME (a \div m) + 1 <= d PROVE FALSE
  BY <1>1
<1> DEFINE q == a \div m
<1>2. q \in Nat /\ a < q * m + m /\ q + 1 <= d /\ q * m \in Nat
  BY <1>1
<1> HIDE DEF q
<1>3. (q + 1) * m <= d * m /\ (q + 1) * m = q * m + m
  BY <1>2, TimesLeq
<1> QED
  BY <1>2, <1>3

\* All that parse alike are within the reach of Alike.
LEMMA AlikeIs ==
    ASSUME NEW u \in Nat
    PROVE  Figures!Alike(u) = {v \in Nat : NumberOf(v) = NumberOf(u)}
<1> DEFINE m == Figures!Grid * P2(Bits)
           a == (4 * NumberOf(u)) * Unit
           near == a \div m
<1>1. Figures!Alike(u) = {v \in (IF u < near THEN 0 ELSE u - near) .. u + near :
                                NumberOf(v) = NumberOf(u)}
  BY DEF Figures!Alike, NumberOf, P2
<1>2. NumberOf(u) \in Nat /\ Unit \in Nat
  BY NumberGrows, FiguresConstants
<1>3. m \in Nat \ {0} /\ a \in Nat /\ a = 4 * (NumberOf(u) * Unit)
  <2>1. Figures!Grid \in Nat \ {0} /\ P2(Bits) \in Nat \ {0}
    BY FiguresConstants
  <2>2. \A x, y \in Nat \ {0} : x * y \in Nat \ {0}
    OBVIOUS
  <2>3. \A x, y \in Nat : (4 * x) * y = 4 * (x * y) /\ (4 * x) * y \in Nat
    OBVIOUS
  <2> QED
    BY <1>2, <2>1, <2>2, <2>3
<1> HIDE DEF m, a
<1>4. near \in Nat
  BY <1>3, DivideIs
<1>5. ASSUME NEW v \in Nat, NumberOf(v) = NumberOf(u)
      PROVE  v \in (IF u < near THEN 0 ELSE u - near) .. u + near
  <2>1. CASE u <= v
    <3>1. (v - u) * m <= a /\ v - u \in Nat
      BY <1>3, <1>5, <2>1, AlikeClose DEF m
    <3>2. v - u <= near
      BY <1>3, <3>1, DivideBound
    <3> HIDE DEF near
    <3> QED
      BY <1>4, <2>1, <3>2
  <2>2. CASE v <= u
    <3>1. (u - v) * m <= a /\ u - v \in Nat
      BY <1>3, <1>5, <2>2, AlikeClose DEF m
    <3>2. u - v <= near
      BY <1>3, <3>1, DivideBound
    <3> HIDE DEF near
    <3> QED
      BY <1>4, <2>2, <3>2
  <2> QED
    BY <2>1, <2>2
<1> HIDE DEF near
<1>6. (IF u < near THEN 0 ELSE u - near) .. u + near \subseteq Nat
  BY <1>4
<1> QED
  BY <1>1, <1>5, <1>6

\* Below half of what Bits bits hold, each amount has a Number of its own.
LEMMA BelowHalf ==
    ASSUME NEW u \in Nat, u < P2(Bits - 1)
    PROVE  NumberOf(u) < NumberOf(u + 1)
<1> DEFINE G == Figures!Grid
           h == P2(Bits - 1)
<1>1. PICK k, q, r : Parses(u, NumberOf(u), k, q, r)
  BY NumberIs
<1>2. PICK l, p, t : Parses(u + 1, NumberOf(u + 1), l, p, t)
  BY NumberIs
<1> DEFINE n == NumberOf(u)
           m == NumberOf(u + 1)
<1>3. /\ n \in Nat /\ n * Unit \in Nat /\ 2 * (n * Unit) <= 2 * Units(u) + Step(k)
      /\ m \in Nat /\ m * Unit \in Nat /\ 2 * Units(u + 1) <= 2 * (m * Unit) + Step(l)
  BY <1>1, <1>2, ParsedNear
<1>4. /\ Step(k) \in Nat \ {0} /\ (Step(k) = Unit \/ h * Step(k) <= Units(u))
      /\ Step(l) \in Nat \ {0} /\ (Step(l) = Unit \/ h * Step(l) <= Units(u + 1))
  BY <1>1, <1>2, ParsedStep
<1>5. /\ Units(u) \in Nat /\ Units(u + 1) = Units(u) + G /\ G \in Nat \ {0}
      /\ h \in Nat \ {0} /\ Unit \in Nat /\ Unit < G
  BY UnitsAre, FiguresConstants, AtLeastTwo
<1> HIDE DEF G, h, n, m
<1>6. u < h /\ u + 1 <= h /\ u + 1 \in Nat
  BY <1>5 DEF h
<1>7. Step(k) < G
  <2>1. CASE h * Step(k) <= Units(u)
    <3> SUFFICES ASSUME G <= Step(k) PROVE FALSE
      BY <1>4, <1>5
    <3>1. h * G <= h * Step(k) /\ h * Step(k) \in Nat
      BY <1>4, <1>5, TimesLeq, TimesAssoc
    <3>2. u * G < h * G /\ Units(u) = u * G /\ h * G \in Nat
      BY <1>5, <1>6, TimesLess, TimesAssoc DEF Units, G
    <3> QED
      BY <1>5, <2>1, <3>1, <3>2
  <2> QED
    BY <1>4, <1>5, <2>1
<1>8. Step(l) <= G
  <2>1. CASE h * Step(l) <= Units(u + 1)
    <3> SUFFICES ASSUME G < Step(l) PROVE FALSE
      BY <1>4, <1>5
    <3>1. h * G < h * Step(l) /\ h * Step(l) \in Nat
      BY <1>4, <1>5, TimesLess, TimesAssoc
    <3>2. (u + 1) * G <= h * G /\ Units(u + 1) = (u + 1) * G /\ h * G \in Nat
      BY <1>5, <1>6, TimesLeq, TimesAssoc DEF Units, G
    <3>3. Units(u + 1) \in Nat
      BY <1>5
    <3> QED
      BY <2>1, <3>1, <3>2, <3>3
  <2> QED
    BY <1>4, <1>5, <2>1
<1>9. n < m
  <2> SUFFICES ASSUME m <= n PROVE FALSE
    BY <1>3
  <2>1. m * Unit <= n * Unit
    BY <1>3, <1>5, TimesLeq
  <2> QED
    BY <1>3, <1>4, <1>5, <1>7, <1>8, <2>1
<1> QED
  BY <1>9 DEF n, m

LEMMA AlikeAlone ==
    ASSUME NEW u \in Nat, u < P2(Bits - 1)
    PROVE  Figures!Alike(u) = {u}
<1>1. P2(Bits - 1) \in Nat
  BY FiguresConstants
<1>2. ASSUME NEW v \in Nat, v # u PROVE NumberOf(v) # NumberOf(u)
  <2>1. CASE u < v
    <3>1. NumberOf(u) < NumberOf(u + 1) /\ NumberOf(u + 1) <= NumberOf(v)
      BY <2>1, BelowHalf, NumberGrows
    <3>2. NumberOf(u) \in Nat /\ NumberOf(u + 1) \in Nat /\ NumberOf(v) \in Nat
      BY NumberGrows
    <3> QED
      BY <3>1, <3>2
  <2>2. CASE v < u
    <3>1. v < P2(Bits - 1) /\ v + 1 <= u
      BY <1>1, <2>2
    <3>2. NumberOf(v) < NumberOf(v + 1) /\ NumberOf(v + 1) <= NumberOf(u)
      BY <3>1, BelowHalf, NumberGrows
    <3>3. NumberOf(v) \in Nat /\ NumberOf(v + 1) \in Nat /\ NumberOf(u) \in Nat
      BY NumberGrows
    <3> QED
      BY <3>2, <3>3
  <2> QED
    BY <1>2, <2>1, <2>2
<1> QED
  BY <1>2, AlikeIs

\* The text is of one of those alike.
LEMMA ShortestIs ==
    ASSUME NEW A \in SUBSET Nat, A # {}, NEW n \in Nat
    PROVE  Figures!Shortest(A, n) \in A
<1> DEFINE Zeros(j) == \E v \in A : v % Figures!Pow10[j] = 0
           Most(j) == Zeros(j) /\ (j = MaxUnits \/ ~Zeros(j + 1))
           zeros == CHOOSE j \in 0 .. MaxUnits : Most(j)
           short == {v \in A : v % Figures!Pow10[zeros] = 0}
           Far(v) == Figures!Distance(v * Figures!Grid, n * Unit)
<1>1. MaxUnits \in Nat /\ Figures!Grid \in Nat /\ Unit \in Nat
  BY FiguresConstants
<1>2. \E j \in 0 .. MaxUnits : Most(j)
  <2> DEFINE J == {j \in Nat : j = MaxUnits \/ ~Zeros(j + 1)}
  <2>1. MaxUnits \in J /\ J \in SUBSET Nat
    BY <1>1
  <2>2. PICK j \in J : \A i \in J : j <= i
    <3> HIDE DEF J
    <3> QED
      BY <2>1, LeastOf
  <2>3. j \in 0 .. MaxUnits
    BY <1>1, <2>1, <2>2
  <2>4. Zeros(j)
    <3>1. CASE j = 0
      <4>1. PICK v \in A : TRUE
        OBVIOUS
      <4>2. v % 1 = 0
        OBVIOUS
      <4> QED
        BY <3>1, <4>2, FiguresPow10
    <3>2. CASE j # 0
      <4>1. j - 1 \in Nat /\ (j - 1) + 1 = j /\ ~(j <= j - 1)
        BY <2>3, <3>2
      <4>2. j - 1 \notin J
        BY <2>2, <4>1
      <4> HIDE DEF Zeros
      <4> QED
        BY <4>1, <4>2
    <3> QED
      BY <3>1, <3>2
  <2> HIDE DEF Zeros
  <2> QED
    BY <2>2, <2>3, <2>4
<1>3. Most(zeros)
  <2> HIDE DEF Most
  <2> QED
    BY <1>2
<1>4. short # {} /\ short \subseteq A
  <2>1. PICK v \in A : v % Figures!Pow10[zeros] = 0
    BY <1>3
  <2> HIDE DEF zeros
  <2> QED
    BY <2>1
<1>5. Figures!Shortest(A, n) = CHOOSE v \in short : \A w \in short : Far(v) <= Far(w)
  BY DEF Figures!Shortest
<1> HIDE DEF short
<1>6. ASSUME NEW v \in short PROVE Far(v) \in Nat
  <2>1. v * Figures!Grid \in Nat /\ n * Unit \in Nat
    BY <1>1, <1>4
  <2>2. \A a, b \in Nat : Figures!Distance(a, b) \in Nat
    BY DEF Figures!Distance
  <2> QED
    BY <2>1, <2>2
<1> HIDE DEF Far
<1>7. \E v \in short : \A w \in short : Far(v) <= Far(w)
  <2> DEFINE D == {Far(v) : v \in short}
  <2>1. D \in SUBSET Nat /\ D # {}
    BY <1>4, <1>6
  <2>2. PICK d \in D : \A e \in D : d <= e
    <3> HIDE DEF D
    <3> QED
      BY <2>1, LeastOf
  <2> QED
    BY <2>2
<1> QED
  BY <1>4, <1>5, <1>7

LEMMA ShownIs ==
    ASSUME NEW u \in Nat
    PROVE  /\ Figures!Shown(u) \in Nat
           /\ u # 0 => NumberOf(Figures!Shown(u)) = NumberOf(u)
           /\ u < P2(Bits - 1) => Figures!Shown(u) = u
<1>1. Figures!Alike(u) = {v \in Nat : NumberOf(v) = NumberOf(u)}
  BY AlikeIs
<1>2. Figures!Alike(u) \in SUBSET Nat /\ Figures!Alike(u) # {} /\ NumberOf(u) \in Nat
  BY <1>1, NumberGrows
<1>3. Figures!Text(u) \in Figures!Alike(u)
  BY <1>2, ShortestIs DEF Figures!Text, NumberOf
<1>4. u < P2(Bits - 1) => Figures!Text(u) = u
  BY <1>3, AlikeAlone
<1>5. Figures!Text(u) \in Nat /\ NumberOf(Figures!Text(u)) = NumberOf(u)
  BY <1>1, <1>3
<1> QED
  BY <1>4, <1>5 DEF Figures!Shown

\* What is shown of a larger balance is no less.
LEMMA ShownGrows ==
    ASSUME NEW u \in Nat
    PROVE  Figures!Shown(u) <= Figures!Shown(u + 1)
<1>0. u + 1 \in Nat /\ u + 1 # 0 /\ Figures!Shown(u) \in Nat /\ Figures!Shown(u + 1) \in Nat
  BY ShownIs
<1>1. CASE u = 0
  BY <1>0, <1>1 DEF Figures!Shown
<1>2. CASE u # 0 /\ NumberOf(u) = NumberOf(u + 1)
  <2>1. Figures!Alike(u) = Figures!Alike(u + 1)
    BY <1>0, <1>2, AlikeIs
  <2>2. Figures!Text(u) = Figures!Text(u + 1)
    BY <1>2, <2>1 DEF Figures!Text, NumberOf
  <2>3. Figures!Shown(u) = Figures!Shown(u + 1)
    BY <1>0, <1>2, <2>2 DEF Figures!Shown
  <2> QED
    BY <1>0, <2>3
<1>3. CASE u # 0 /\ NumberOf(u) # NumberOf(u + 1)
  <2>1. NumberOf(u) <= NumberOf(u + 1) /\ NumberOf(u) \in Nat /\ NumberOf(u + 1) \in Nat
    BY <1>0, NumberGrows
  <2>2. /\ NumberOf(Figures!Shown(u)) = NumberOf(u)
        /\ NumberOf(Figures!Shown(u + 1)) = NumberOf(u + 1)
    BY <1>0, <1>3, ShownIs
  <2> SUFFICES ASSUME Figures!Shown(u + 1) <= Figures!Shown(u) PROVE FALSE
    BY <1>0
  <2>3. NumberOf(Figures!Shown(u + 1)) <= NumberOf(Figures!Shown(u))
    BY <1>0, NumberGrows
  <2> QED
    BY <1>3, <2>1, <2>2, <2>3
<1> QED
  BY <1>1, <1>2, <1>3

FiguresInv == c1 \in 0 .. MaxUnits

LEMMA FiguresMean ==
    ASSUME FiguresInv
    PROVE  Figures!TypeOK /\ Figures!ExactBelowHalf /\ Figures!MaxTakesAll
<1>1. c1 \in Nat /\ Fee \in Nat /\ Bits - 1 \in Nat /\ P2(Bits - 1) \in Nat
  BY FiguresConstants DEF FiguresInv
<1>2. Figures!TypeOK
  BY <1>1, ShownIs DEF FiguresInv, Figures!TypeOK
<1>3. Figures!ExactBelowHalf
  BY <1>1, ShownIs DEF Figures!ExactBelowHalf, P2
<1>4. Figures!MaxTakesAll
  <2> SUFFICES ASSUME c1 \in Fee .. P2(Bits - 1) - 1 PROVE Figures!MaxAmount(c1) + Fee = c1
    BY DEF Figures!MaxTakesAll, P2
  <2>1. Figures!Shown(c1) = c1
    BY <1>1, ShownIs
  <2> QED
    BY <1>1, <2>1 DEF Figures!MaxAmount
<1> QED
  BY <1>2, <1>3, <1>4

LEMMA FiguresStep ==
    ASSUME FiguresInv, Figures!Next
    PROVE  FiguresInv' /\ Figures!NeverFewerShown
<1>1. c1 \in Nat /\ MaxUnits \in Nat /\ c1 < MaxUnits /\ c1' = c1 + 1
  BY FiguresConstants DEF FiguresInv, Figures!Next, Figures!Deposit
<1>2. PICK u \in Nat : u = c1
  BY <1>1
<1>3. c1' = u + 1
  BY <1>1, <1>2
<1>4. Figures!Shown(u) <= Figures!Shown(u + 1)
  BY ShownGrows
<1>5. Figures!NeverFewerShown
  BY <1>2, <1>3, <1>4 DEF Figures!NeverFewerShown
<1>6. FiguresInv'
  BY <1>1 DEF FiguresInv
<1> QED
  BY <1>5, <1>6

LEMMA FiguresHold == Spec => [](open = "figures" => FiguresInv)
<1> DEFINE Inv == open = "figures" => FiguresInv
<1>1. Init => Inv
  BY FiguresConstants DEF Init, Figures!Init, FiguresInv
<1>2. Inv /\ [Next]_state => Inv'
  <2> SUFFICES ASSUME Inv, [Next]_state, open' = "figures" PROVE FiguresInv'
    OBVIOUS
  <2>1. open = "figures" /\ FiguresInv
    BY StaysOpen
  <2>2. Figures!Next \/ c1' = c1
    BY <2>1 DEF Next, state
  <2> QED
    BY <2>1, <2>2, FiguresStep DEF FiguresInv
<1> QED
  BY <1>1, <1>2, PTL DEF Spec

\* WalletTrue, for any users, tokens and amounts, any number of queries and of failures,
\* and Numbers of any width.  What the form lets through is refused only on stale figures
\* (Wallet.tsx:256); a balance is shown as it is up to half of what a Number holds
\* (common.ts:51), and Max takes all of it (Wallet.tsx:115).
THEOREM WalletAlwaysTrue == Spec => []WalletTrue
<1>1. (open = "wallet" => WalletInv) /\ (open = "figures" => FiguresInv) => WalletTrue
  BY WalletMeans, FiguresMean DEF WalletTrue
<1> QED
  BY <1>1, WalletHolds, FiguresHold, PTL

\* StepsTrue, for any values of the bounds.  No batch runs out of order, except within a
\* group that was retried twice, nor with arguments that were not fed to it
\* (batchTransact.js:57, 115); Max asks for no more than the balance covers with the fee
\* (Wallet.tsx:115); no deposit makes the page show fewer tokens, though a Number and its
\* text are rounded each in its own way (common.ts:51); and no find is sent again
\* (bone_dog main.rs:276).
THEOREM StepsAlwaysTrue == Spec => StepsTrue
<1> DEFINE Inv == /\ open = "batches" => BatchesInv
                  /\ open = "wallet" => WalletInv
                  /\ open = "figures" => FiguresInv
                  /\ open = "feed" => FeedInv
<1>1. Inv /\ [Next]_state => [StepTrue]_state
  <2> SUFFICES ASSUME Inv, Next PROVE StepTrue
    OBVIOUS
  <2>1. /\ open = "batches" => Batches!Next
        /\ open = "figures" => Figures!Next
        /\ open = "feed" => Feed!Next
    BY DEF Next
  <2>2. open = "batches" => Batches!InOrder /\ Batches!FedFirst
    BY <2>1, StepInOrder, StepFed
  <2>3. open = "wallet" => Wallet!MaxLeavesFee
    BY MaxLeaves
  <2>4. open = "figures" => Figures!NeverFewerShown
    BY <2>1, FiguresStep
  <2>5. open = "feed" => Feed!SentOnce
    BY <2>1, FeedStep
  <2> QED
    BY <2>2, <2>3, <2>4, <2>5 DEF StepTrue
<1> QED
  BY <1>1, BatchesHold, WalletHolds, FiguresHold, FeedHolds, PTL DEF Spec, StepsTrue

(***************************************************************************)
(* The list of dogs.  The answer to the request sent last is about the     *)
(* user connected now and about the records as they are now, the patrol    *)
(* aside: whatever changes either of them asks again.                      *)
(***************************************************************************)
MinerRequest ==
    [pc : {"idle", "asked", "answered", "cycles"}, user : Principals \cup {None},
     res : Miners!Listing, missing : SUBSET Dogs]

Owned(list, u) == \A d \in DOMAIN list : Owner[d] = u

\* The list tells of each dog of u what the records do.
Fresh(records, list, u) ==
    \A d \in DOMAIN records :
        Owner[d] = u => /\ d \in DOMAIN list
                        /\ list[d].dog_level = records[d].dog_level
                        /\ list[d].mining_type = records[d].mining_type

\* The request sent last, and the list once it is shown.
LastAsked ==
    /\ c8 \in Requests
    /\ c7[c8].pc \in {"asked", "answered"} => c7[c8].user = c1
    /\ c7[c8].pc = "answered" => Owned(c7[c8].res, c1) /\ Fresh(c2, c7[c8].res, c1)
    /\ c7[c8].pc \in {"idle", "cycles"} /\ c9 = c8 => Owned(c4, c1) /\ Fresh(c2, c4, c1)

\* The request that was shown last, and its cycles once they are in.
LastShown ==
    /\ c9 = None => DOMAIN c4 = {}
    /\ c9 # None /\ c7[c9].pc = "cycles" => DOMAIN c7[c9].res = DOMAIN c4
    /\ c9 # None /\ c7[c9].pc # "cycles" /\ c10 = c9 => c5 = DOMAIN c4

MinersInv ==
    /\ Miners!TypeOK /\ c13 \in Nat
    /\ c1 # None /\ c13 = 0 => LastAsked
    /\ c13 = 0 => LastShown

LEMMA MinerListed ==
    ASSUME NEW f \in Miners!Listing
    PROVE  DOMAIN f \subseteq Dogs /\ f \in [DOMAIN f -> Miners!Info]
BY DEF Miners!Listing

LEMMA MinerListing ==
    ASSUME NEW S \in SUBSET Dogs, NEW f \in [S -> Miners!Info]
    PROVE  f \in Miners!Listing
BY DEF Miners!Listing

LEMMA MinersNone == None \notin Principals \cup Requests /\ None \notin SUBSET Dogs
<1>1. Miners!MinerListAssumption
  BY PartsAssumption DEF PartsAssumption
<1> QED
  BY <1>1 DEF Miners!MinerListAssumption

LEMMA NoMinerRequest == Miners!NoRequest \in MinerRequest /\ Miners!EmptyMap \in Miners!Listing
<1>1. Miners!EmptyMap \in [{} -> Miners!Info]
  BY DEF Miners!EmptyMap
<1>2. Miners!EmptyMap \in Miners!Listing
  BY <1>1, MinerListing
<1> QED
  BY <1>2 DEF Miners!NoRequest, MinerRequest

LEMMA MinersInit == Miners!Init => MinersInv
<1> SUFFICES ASSUME Miners!Init PROVE MinersInv
  OBVIOUS
<1> DEFINE rec == [dog_level |-> "CopperDog", mining_state |-> "ACTIVITY", mining_type |-> "ALONE"]
           first == CHOOSE r \in Requests : TRUE
<1>1. PICK u \in Principals \cup {None}, S \in SUBSET Dogs :
        Miners!InitWith(u, {[d \in S |-> rec]})
  BY DEF Miners!Init
<1>2. c2 \in Miners!Listing
  <2>1. c2 = [d \in S |-> rec]
    BY <1>1 DEF Miners!InitWith
  <2>2. rec \in Miners!Info
    BY DEF Miners!Info, Miners!Levels, Miners!States, Miners!Types
  <2>3. c2 \in [S -> Miners!Info]
    BY <2>1, <2>2
  <2> QED
    BY <2>3, MinerListing
<1>3. /\ c1 = u /\ c3 = TRUE /\ c4 = Miners!EmptyMap /\ c5 = None /\ c6 = TRUE
      /\ c9 = None /\ c10 = None /\ c13 = 0
      /\ c7 = [r \in Requests |->
                 IF u # None /\ r = first
                 THEN [Miners!NoRequest EXCEPT !.pc = "asked", !.user = u] ELSE Miners!NoRequest]
      /\ c8 = IF u # None THEN first ELSE None
  BY <1>1 DEF Miners!InitWith
<1>4. Requests # {} => first \in Requests
  OBVIOUS
<1>5. Requests # {}
  BY PartsAssumption DEF PartsAssumption, Miners!MinerListAssumption
<1>6. first \in Requests
  BY <1>4, <1>5
<1> HIDE DEF first, rec
<1>7. c7 \in [Requests -> MinerRequest]
  <2>1. [Miners!NoRequest EXCEPT !.pc = "asked", !.user = u] \in MinerRequest
    BY NoMinerRequest DEF MinerRequest
  <2> QED
    BY <1>3, <2>1, NoMinerRequest
<1>8. c4 \in Miners!Listing /\ DOMAIN c4 = {}
  BY <1>3, NoMinerRequest DEF Miners!EmptyMap
<1>9. Miners!TypeOK
  BY <1>2, <1>3, <1>6, <1>7, <1>8 DEF Miners!TypeOK, MinerRequest
<1>10. c1 # None => LastAsked
  <2> SUFFICES ASSUME u # None PROVE LastAsked
    BY <1>3
  <2>1. c8 = first /\ c8 \in Requests
    BY <1>3, <1>6
  <2>2. c7[c8] = [Miners!NoRequest EXCEPT !.pc = "asked", !.user = u]
    BY <1>3, <2>1
  <2>3. c7[c8].pc = "asked" /\ c7[c8].user = u
    BY <2>2 DEF Miners!NoRequest
  <2> QED
    BY <1>3, <2>1, <2>3 DEF LastAsked
<1>11. LastShown
  BY <1>3, <1>8 DEF LastShown
<1> QED
  BY <1>3, <1>9, <1>10, <1>11 DEF MinersInv

LEMMA RecordsOf ==
    ASSUME Miners!TypeOK, NEW u
    PROVE  /\ Miners!DogsOf(u) \in Miners!Listing
           /\ Owned(Miners!DogsOf(u), u) /\ Fresh(c2, Miners!DogsOf(u), u)
<1> DEFINE S == {x \in DOMAIN c2 : Owner[x] = u}
<1>1. c2 \in [DOMAIN c2 -> Miners!Info] /\ DOMAIN c2 \subseteq Dogs
  BY MinerListed DEF Miners!TypeOK
<1>2. Miners!DogsOf(u) = [d \in S |-> c2[d]]
  BY DEF Miners!DogsOf
<1>3. S \in SUBSET Dogs /\ Miners!DogsOf(u) \in [S -> Miners!Info]
  BY <1>1, <1>2
<1>4. Miners!DogsOf(u) \in Miners!Listing
  BY <1>3, MinerListing
<1>5. Owned(Miners!DogsOf(u), u)
  BY <1>2 DEF Owned
<1>6. Fresh(c2, Miners!DogsOf(u), u)
  BY <1>2 DEF Fresh
<1> QED
  BY <1>4, <1>5, <1>6

\* The effect of asking once more for user u.
Asks(u) ==
    \E r \in Requests :
        /\ c7[r].pc = "idle"
        /\ c7' = [c7 EXCEPT ![r] = [Miners!NoRequest EXCEPT !.pc = "asked", !.user = u]]
        /\ c8' = r

LEMMA MinersAsk ==
    ASSUME MinersInv, Asks(c1'), c1' \in Principals \cup {None},
           c2' \in Miners!Listing, c3' \in BOOLEAN, c6' \in BOOLEAN,
           UNCHANGED <<c4, c5, c9, c10, c13>>
    PROVE  MinersInv'
<1>0. Miners!TypeOK /\ c7 \in [Requests -> MinerRequest]
  BY DEF MinersInv, Miners!TypeOK, MinerRequest
<1>1. PICK u \in Principals \cup {None} : u = c1'
  OBVIOUS
<1>2. PICK r \in Requests :
        /\ c7[r].pc = "idle"
        /\ c7' = [c7 EXCEPT ![r] = [Miners!NoRequest EXCEPT !.pc = "asked", !.user = u]]
        /\ c8' = r
  BY <1>1 DEF Asks
<1>3. [Miners!NoRequest EXCEPT !.pc = "asked", !.user = u] \in MinerRequest
  BY NoMinerRequest DEF MinerRequest
<1>4. c7' \in [Requests -> MinerRequest]
  BY <1>0, <1>2, <1>3
<1>5. Miners!TypeOK'
  BY <1>0, <1>2, <1>4 DEF Miners!TypeOK, MinerRequest
<1>6. c7'[r].pc = "asked" /\ c7'[r].user = u
  BY <1>0, <1>2, NoMinerRequest DEF Miners!NoRequest
<1>7. LastAsked'
  BY <1>1, <1>2, <1>6 DEF LastAsked
<1>8. c13 = 0 => LastShown'
  <2> SUFFICES ASSUME LastShown PROVE LastShown'
    BY DEF MinersInv
  <2>1. CASE c9 = None
    BY <2>1 DEF LastShown
  <2>2. CASE c9 # None /\ c9 = r
    BY <1>2, <1>6, <2>2 DEF LastShown
  <2>3. CASE c9 # None /\ c9 # r
    <3>1. c9 \in Requests /\ c7'[c9] = c7[c9]
      BY <1>0, <1>2, <2>3 DEF Miners!TypeOK
    <3> QED
      BY <2>3, <3>1 DEF LastShown
  <2> QED
    BY <2>1, <2>2, <2>3
<1> QED
  BY <1>5, <1>7, <1>8 DEF MinersInv

\* What does not touch the requests, the records or the list.
LEMMA MinersSame ==
    ASSUME MinersInv, UNCHANGED <<c2, c4, c5, c7, c8, c9, c10, c13>>, c3' \in BOOLEAN,
           c6' \in BOOLEAN, c1' \in {c1, None}
    PROVE  MinersInv'
<1>1. Miners!TypeOK'
  BY DEF MinersInv, Miners!TypeOK
<1>2. c1' # None /\ c13' = 0 => LastAsked'
  BY DEF MinersInv, LastAsked
<1>3. c13' = 0 => LastShown'
  BY DEF MinersInv, LastShown
<1> QED
  BY <1>1, <1>2, <1>3 DEF MinersInv

\* An operation adds a dog or changes one.
LEMMA MinersRecords ==
    ASSUME Miners!TypeOK, Miners!Operation
    PROVE  c2' \in Miners!Listing
<1> DEFINE rec == [dog_level |-> "CopperDog", mining_state |-> "ACTIVITY", mining_type |-> "ALONE"]
<1>1. c2 \in [DOMAIN c2 -> Miners!Info] /\ DOMAIN c2 \subseteq Dogs
  BY MinerListed DEF Miners!TypeOK
<1>2. rec \in Miners!Info
  BY DEF Miners!Info, Miners!Levels, Miners!States, Miners!Types
<1>3. PICK d \in Dogs :
        \/ c2' = Miners!Insert(c2, d, rec)
        \/ /\ d \in DOMAIN c2
           /\ \/ c2' = [c2 EXCEPT ![d].dog_level = "DiamondDog"]
              \/ c2' = [c2 EXCEPT ![d].mining_type = IF @ = "ALONE" THEN "POOL" ELSE "ALONE"]
  BY DEF Miners!Operation
<1>4. CASE c2' = Miners!Insert(c2, d, rec)
  <2> HIDE DEF rec
  <2>1. c2' \in [DOMAIN c2 \cup {d} -> Miners!Info]
    BY <1>1, <1>2, <1>4 DEF Miners!Insert
  <2> QED
    BY <1>1, <2>1, MinerListing
<1>5. CASE d \in DOMAIN c2 /\ c2' = [c2 EXCEPT ![d].dog_level = "DiamondDog"]
  <2>1. [c2[d] EXCEPT !.dog_level = "DiamondDog"] \in Miners!Info
    BY <1>1, <1>5 DEF Miners!Info, Miners!Levels
  <2>2. c2' \in [DOMAIN c2 -> Miners!Info]
    BY <1>1, <1>5, <2>1
  <2> QED
    BY <1>1, <2>2, MinerListing
<1>6. CASE /\ d \in DOMAIN c2
           /\ c2' = [c2 EXCEPT ![d].mining_type = IF @ = "ALONE" THEN "POOL" ELSE "ALONE"]
  <2> DEFINE t == IF c2[d].mining_type = "ALONE" THEN "POOL" ELSE "ALONE"
  <2>1. t \in Miners!Types
    BY DEF Miners!Types
  <2>2. [c2[d] EXCEPT !.mining_type = t] \in Miners!Info
    BY <1>1, <1>6, <2>1 DEF Miners!Info
  <2>3. c2' = [c2 EXCEPT ![d] = [c2[d] EXCEPT !.mining_type = t]]
    BY <1>6
  <2> HIDE DEF t
  <2>4. c2' \in [DOMAIN c2 -> Miners!Info]
    BY <1>1, <2>2, <2>3
  <2> QED
    BY <1>1, <2>4, MinerListing
<1> QED
  BY <1>3, <1>4, <1>5, <1>6

LEMMA MinersPatrol ==
    ASSUME MinersInv, Miners!Patrol
    PROVE  MinersInv'
<1>1. c2 \in [DOMAIN c2 -> Miners!Info] /\ DOMAIN c2 \subseteq Dogs
  BY MinerListed DEF MinersInv, Miners!TypeOK
<1>2. PICK d \in DOMAIN c2 :
        c2' = [c2 EXCEPT ![d].mining_state = IF @ = "ACTIVITY" THEN "STOP" ELSE "ACTIVITY"]
  BY DEF Miners!Patrol
<1>3. UNCHANGED <<c1, c3, c4, c5, c6, c7, c8, c9, c10, c13>>
  BY DEF Miners!Patrol, Miners!page, Miners!shown, Miners!history
<1> DEFINE t == IF c2[d].mining_state = "ACTIVITY" THEN "STOP" ELSE "ACTIVITY"
<1>4. [c2[d] EXCEPT !.mining_state = t] \in Miners!Info
  <2>1. t \in Miners!States
    BY DEF Miners!States
  <2> QED
    BY <1>1, <2>1 DEF Miners!Info
<1>5. c2' = [c2 EXCEPT ![d] = [c2[d] EXCEPT !.mining_state = t]]
  BY <1>2
<1> HIDE DEF t
<1>6. c2' \in Miners!Listing
  <2>1. c2' \in [DOMAIN c2 -> Miners!Info]
    BY <1>1, <1>4, <1>5
  <2> QED
    BY <1>1, <2>1, MinerListing
<1>7. /\ DOMAIN c2' = DOMAIN c2
      /\ \A x \in DOMAIN c2 : c2'[x].dog_level = c2[x].dog_level
                              /\ c2'[x].mining_type = c2[x].mining_type
  BY <1>1, <1>4, <1>5 DEF Miners!Info
<1>8. ASSUME NEW list, NEW u PROVE Fresh(c2, list, u) => Fresh(c2', list, u)
  BY <1>7 DEF Fresh
<1>9. Miners!TypeOK'
  BY <1>3, <1>6 DEF MinersInv, Miners!TypeOK
<1>10. LastAsked => LastAsked'
  <2> SUFFICES ASSUME LastAsked PROVE LastAsked'
    OBVIOUS
  <2>1. Fresh(c2, c7[c8].res, c1) => Fresh(c2', c7[c8].res, c1)
    BY <1>8
  <2>2. Fresh(c2, c4, c1) => Fresh(c2', c4, c1)
    BY <1>8
  <2> QED
    BY <1>3, <2>1, <2>2 DEF LastAsked
<1>11. LastShown => LastShown'
  BY <1>3 DEF LastShown
<1> QED
  BY <1>3, <1>9, <1>10, <1>11 DEF MinersInv

LEMMA MinersAnswer ==
    ASSUME MinersInv, NEW r \in Requests, Miners!Answer(r)
    PROVE  MinersInv'
<1>0. Miners!TypeOK /\ c7 \in [Requests -> MinerRequest] /\ c7[r] \in MinerRequest
  BY DEF MinersInv, Miners!TypeOK, MinerRequest
<1>1. CASE Miners!Read(r)
  <2>1. /\ c7[r].pc = "asked"
        /\ c7' = [c7 EXCEPT ![r].pc = "answered", ![r].res = Miners!DogsOf(c7[r].user)]
        /\ UNCHANGED <<c1, c2, c3, c4, c5, c6, c8, c9, c10, c13>>
    BY <1>1 DEF Miners!Read, Miners!page, Miners!shown, Miners!history, Miners!bounds
  <2>2. PICK u : u = c7[r].user
    OBVIOUS
  <2>3. PICK list : list = Miners!DogsOf(u)
    OBVIOUS
  <2>4. list \in Miners!Listing /\ Owned(list, u) /\ Fresh(c2, list, u)
    BY <1>0, <2>3, RecordsOf
  <2>5. c7' = [c7 EXCEPT ![r].pc = "answered", ![r].res = list]
    BY <2>1, <2>2, <2>3
  <2>6. c7' \in [Requests -> MinerRequest]
    BY <1>0, <2>4, <2>5 DEF MinerRequest
  <2>7. Miners!TypeOK'
    BY <1>0, <2>1, <2>6 DEF Miners!TypeOK, MinerRequest
  <2>8. c7'[r].pc = "answered" /\ c7'[r].res = list /\ c7'[r].user = u
    BY <1>0, <2>2, <2>5 DEF MinerRequest
  <2>9. \A x \in Requests : x # r => c7'[x] = c7[x]
    BY <1>0, <2>5
  <2>10. LastAsked => LastAsked'
    <3> SUFFICES ASSUME LastAsked PROVE LastAsked'
      OBVIOUS
    <3>1. CASE c8 = r
      <4>1. u = c1
        BY <2>1, <2>2, <3>1 DEF LastAsked
      <4> QED
        BY <2>1, <2>4, <2>8, <3>1, <4>1 DEF LastAsked
    <3>2. CASE c8 # r
      BY <2>1, <2>9, <3>2 DEF LastAsked
    <3> QED
      BY <3>1, <3>2
  <2>11. LastShown => LastShown'
    BY <1>0, <2>1, <2>8, <2>9 DEF LastShown, Miners!TypeOK
  <2> QED
    BY <2>1, <2>7, <2>10, <2>11 DEF MinersInv
<1>2. CASE Miners!Show(r)
  <2>1. /\ c7[r].pc = "answered" /\ c3' = FALSE /\ c4' = c7[r].res /\ c9' = r
        /\ c7' = [c7 EXCEPT ![r].pc = "cycles", ![r].missing = DOMAIN c7[r].res]
        /\ UNCHANGED <<c1, c2, c5, c6, c8, c10, c13>>
    BY <1>2 DEF Miners!Show, Miners!page, Miners!bounds
  <2>2. c7[r].res \in Miners!Listing
    BY <1>0 DEF MinerRequest
  <2>3. DOMAIN c7[r].res \subseteq Dogs
    BY <2>2, MinerListed
  <2>4. c7' \in [Requests -> MinerRequest]
    BY <1>0, <2>1, <2>3 DEF MinerRequest
  <2>5. Miners!TypeOK'
    BY <1>0, <2>1, <2>2, <2>4 DEF Miners!TypeOK, MinerRequest
  <2>6. c7'[r].pc = "cycles" /\ c7'[r].res = c7[r].res
    BY <1>0, <2>1 DEF MinerRequest
  <2>7. \A x \in Requests : x # r => c7'[x] = c7[x]
    BY <1>0, <2>1
  <2>8. LastAsked => LastAsked'
    BY <2>1, <2>6, <2>7 DEF LastAsked
  <2>9. LastShown'
    BY <2>1, <2>6, MinersNone DEF LastShown
  <2> QED
    BY <2>1, <2>5, <2>8, <2>9 DEF MinersInv
<1>3. CASE Miners!CyclesAnswer(r)
  <2>1. UNCHANGED <<c1, c2, c3, c4, c5, c6, c8, c9, c10, c13>>
    BY <1>3 DEF Miners!CyclesAnswer, Miners!page, Miners!shown, Miners!history, Miners!bounds
  <2>2. PICK d \in c7[r].missing : c7' = [c7 EXCEPT ![r].missing = @ \ {d}]
    BY <1>3 DEF Miners!CyclesAnswer
  <2>3. c7' \in [Requests -> MinerRequest]
    BY <1>0, <2>2 DEF MinerRequest
  <2>4. Miners!TypeOK'
    BY <1>0, <2>1, <2>3 DEF Miners!TypeOK, MinerRequest
  <2>5. \A x \in Requests : c7'[x].pc = c7[x].pc /\ c7'[x].user = c7[x].user
                            /\ c7'[x].res = c7[x].res
    BY <1>0, <2>2 DEF MinerRequest
  <2>6. LastAsked => LastAsked'
    BY <2>1, <2>5 DEF LastAsked
  <2>7. LastShown => LastShown'
    BY <1>0, <2>1, <2>5 DEF LastShown, Miners!TypeOK
  <2> QED
    BY <2>1, <2>4, <2>6, <2>7 DEF MinersInv
<1>4. CASE Miners!AllCycles(r)
  <2>1. /\ c7[r].pc = "cycles" /\ c5' = DOMAIN c7[r].res /\ c10' = r
        /\ c7' = [c7 EXCEPT ![r] = Miners!NoRequest]
        /\ UNCHANGED <<c1, c2, c3, c4, c6, c8, c9, c13>>
    BY <1>4 DEF Miners!AllCycles, Miners!page, Miners!bounds
  <2>2. c5' \subseteq Dogs
    BY <1>0, <2>1, MinerListed DEF MinerRequest
  <2>3. c7' \in [Requests -> MinerRequest]
    BY <1>0, <2>1, NoMinerRequest
  <2>4. Miners!TypeOK'
    BY <1>0, <2>1, <2>2, <2>3 DEF Miners!TypeOK, MinerRequest
  <2>5. c7'[r].pc = "idle" /\ \A x \in Requests : x # r => c7'[x] = c7[x]
    BY <1>0, <2>1 DEF Miners!NoRequest
  <2>6. LastAsked => LastAsked'
    BY <2>1, <2>5 DEF LastAsked
  <2>7. LastShown => LastShown'
    BY <1>0, <2>1, <2>5 DEF LastShown, Miners!TypeOK
  <2> QED
    BY <2>1, <2>4, <2>6, <2>7 DEF MinersInv
<1>5. CASE Miners!Rejected(r)
  <2>1. /\ c13' = c13 + 1
        /\ c7' = [c7 EXCEPT ![r] = Miners!NoRequest]
        /\ UNCHANGED <<c1, c2, c3, c4, c5, c6, c8, c9, c10>>
    BY <1>5 DEF Miners!Rejected, Miners!page, Miners!shown, Miners!history
  <2>2. c7' \in [Requests -> MinerRequest]
    BY <1>0, <2>1, NoMinerRequest
  <2>3. Miners!TypeOK'
    BY <1>0, <2>1, <2>2 DEF Miners!TypeOK, MinerRequest
  <2>4. c13' # 0 /\ c13' \in Nat
    BY <2>1 DEF MinersInv
  <2> QED
    BY <2>3, <2>4 DEF MinersInv
<1> QED
  BY <1>1, <1>2, <1>3, <1>4, <1>5 DEF Miners!Answer

LEMMA MinersStep ==
    ASSUME MinersInv, Miners!Next
    PROVE  MinersInv'
<1>0. Miners!TypeOK
  BY DEF MinersInv
<1>1. CASE Miners!TimerFires
  <2>1. UNCHANGED <<c1, c2, c4, c5, c9, c10, c13>> /\ c6' = FALSE
    BY <1>1 DEF Miners!TimerFires
  <2>2. CASE c1 = None
    BY <1>1, <2>1, <2>2, MinersSame DEF Miners!TimerFires, Miners!req_get_dogs
  <2>3. CASE c1 # None
    <3>1. c3' = TRUE /\ Asks(c1)
      BY <1>1, <2>3 DEF Miners!TimerFires, Miners!req_get_dogs, Asks
    <3>2. Asks(c1')
      BY <2>1, <3>1
    <3> QED
      BY <1>0, <2>1, <3>1, <3>2, MinersAsk DEF Miners!TypeOK
  <2> QED
    BY <2>2, <2>3
<1>2. CASE Miners!Disconnect
  <2>1. c1' = None /\ UNCHANGED <<c2, c3, c4, c5, c6, c7, c8, c9, c10, c13>>
    BY <1>2 DEF Miners!Disconnect, Miners!shown, Miners!history, Miners!bounds
  <2> QED
    BY <1>0, <2>1, MinersSame DEF Miners!TypeOK
<1>3. CASE Miners!Operation
  <2>1. UNCHANGED <<c1, c4, c5, c6, c9, c10, c13>> /\ c1 # None
    BY <1>3 DEF Miners!Operation, Miners!page
  <2>2. c3' = TRUE /\ Asks(c1)
    BY <1>3, <2>1 DEF Miners!Operation, Miners!req_get_dogs, Asks
  <2>3. Asks(c1')
    BY <2>1, <2>2
  <2>4. c2' \in Miners!Listing
    BY <1>0, <1>3, MinersRecords
  <2> QED
    BY <1>0, <2>1, <2>2, <2>3, <2>4, MinersAsk DEF Miners!TypeOK
<1>4. CASE Miners!Patrol
  BY <1>4, MinersPatrol
<1>5. ASSUME NEW u \in Principals, Miners!Connect(u) PROVE MinersInv'
  <2>1. UNCHANGED <<c2, c4, c5, c6, c9, c10, c13>> /\ c1' = u /\ c3' = TRUE
    BY <1>5 DEF Miners!Connect
  <2>2. Asks(u)
    BY <1>5 DEF Miners!Connect, Asks
  <2>3. Asks(c1')
    BY <2>1, <2>2
  <2> QED
    BY <1>0, <2>1, <2>3, MinersAsk DEF Miners!TypeOK
<1>6. ASSUME NEW r \in Requests, Miners!Answer(r) PROVE MinersInv'
  BY <1>6, MinersAnswer
<1> QED
  BY <1>1, <1>2, <1>3, <1>4, <1>5, <1>6 DEF Miners!Next

LEMMA MinersMean ==
    ASSUME MinersInv
    PROVE  Miners!MineUnlessOvertaken /\ Miners!RowsUpToDate /\ Miners!RowsHaveCycles
<1>1. Miners!TypeOK
  BY DEF MinersInv
<1>2. ASSUME Miners!AtRest, c1 # None, c13 = 0, c9 = c8
      PROVE  Owned(c4, c1) /\ Fresh(c2, c4, c1)
  <2>1. LastAsked /\ c8 \in Requests
    BY <1>2 DEF MinersInv, LastAsked
  <2>2. c7[c8].pc = "idle"
    BY <1>2, <2>1 DEF Miners!AtRest
  <2> QED
    BY <1>2, <2>1, <2>2 DEF LastAsked
<1>3. Miners!MineUnlessOvertaken
  BY <1>2 DEF Miners!MineUnlessOvertaken, Owned
<1>4. Miners!RowsUpToDate
  <2> SUFFICES ASSUME Miners!AtRest, c1 # None, c13 = 0, c9 = c8,
                      NEW d \in DOMAIN Miners!DogsOf(c1)
               PROVE  /\ d \in DOMAIN c4
                      /\ Miners!TableRow(d).level = c2[d].dog_level
                      /\ Miners!TableRow(d).leave = (c2[d].mining_type = "POOL")
                      /\ c2[d].dog_level # "DiamondDog"
                            => Miners!TableRow(d).go /\ Miners!PhoneRow(d).go
    BY DEF Miners!RowsUpToDate
  <2>1. d \in DOMAIN c2 /\ Owner[d] = c1
    BY DEF Miners!DogsOf
  <2>2. d \in DOMAIN c4 /\ c4[d].dog_level = c2[d].dog_level /\ c4[d].mining_type = c2[d].mining_type
    BY <1>2, <2>1 DEF Fresh
  <2>3. c2[d].mining_type \in {"ALONE", "POOL"}
    <3>1. c2[d] \in Miners!Info
      BY <1>1, <2>1, MinerListed DEF Miners!TypeOK
    <3> QED
      BY <3>1 DEF Miners!Info, Miners!Types
  <2>4. /\ Miners!TableRow(d).level = c4[d].dog_level
        /\ Miners!TableRow(d).leave = (c4[d].mining_type # "ALONE")
        /\ Miners!TableRow(d).go = (c4[d].dog_level # "DiamondDog")
    BY DEF Miners!TableRow
  <2>5. Miners!PhoneRow(d).go
    BY DEF Miners!PhoneRow, Miners!TableRow
  <2> QED
    BY <2>2, <2>3, <2>4, <2>5
<1>5. Miners!RowsHaveCycles
  <2> SUFFICES ASSUME Miners!AtRest, c13 = 0, c9 = c10, NEW d \in DOMAIN c4
               PROVE  Miners!TableRow(d).cycles /\ Miners!PhoneRow(d).cycles
    BY DEF Miners!RowsHaveCycles
  <2>1. LastShown /\ c9 # None
    BY DEF MinersInv, LastShown
  <2>2. c9 \in Requests /\ c7[c9].pc = "idle"
    BY <1>1, <2>1 DEF Miners!TypeOK, Miners!AtRest
  <2>3. c5 = DOMAIN c4
    BY <2>1, <2>2 DEF LastShown
  <2>4. DOMAIN c4 \in SUBSET Dogs
    BY <1>1, MinerListed DEF Miners!TypeOK
  <2>5. c5 # None /\ d \in c5
    BY <2>3, <2>4, MinersNone
  <2> QED
    BY <2>5 DEF Miners!TableRow, Miners!PhoneRow
<1> QED
  BY <1>3, <1>4, <1>5

LEMMA MinersHold == Spec => [](open = "miners" => MinersInv)
<1> DEFINE Inv == open = "miners" => MinersInv
<1>1. Init => Inv
  BY MinersInit DEF Init
<1>2. Inv /\ [Next]_state => Inv'
  <2> SUFFICES ASSUME open = "miners", MinersInv, [Next]_state PROVE MinersInv'
    BY StaysOpen
  <2>1. Miners!Next \/ UNCHANGED <<c1, c2, c3, c4, c5, c6, c7, c8, c9, c10, c13>>
    BY DEF Next, state
  <2>2. CASE UNCHANGED <<c1, c2, c3, c4, c5, c6, c7, c8, c9, c10, c13>>
    <3>1. c3' \in BOOLEAN /\ c6' \in BOOLEAN
      BY <2>2 DEF MinersInv, Miners!TypeOK
    <3> QED
      BY <2>2, <3>1, MinersSame
  <2> QED
    BY <2>1, <2>2, MinersStep
<1> QED
  BY <1>1, <1>2, PTL DEF Spec

(***************************************************************************)
(* The list of alliances.  One refresh at a time appends each row once;    *)
(* with more of them, whichever began last has all the rows or is about to *)
(* append them.                                                            *)
(***************************************************************************)
CircleRefresh == [pc : {"idle", "asked", "rows"}, left : SUBSET Alliances]

Row == Circles!ToSet(c4)

\* As long as no refresh began before another was over.
OneRefresh ==
    /\ \A f, g \in Circles!Busy : f = g
    /\ \A f \in Circles!Busy :
         /\ c5[f].pc = "asked" => c4 = <<>>
         /\ c5[f].pc = "rows" => Row \cap c5[f].left = {}
    /\ Circles!IsInjective(c4)

\* Refresh f will have appended every alliance.
WillShow(f) ==
    \/ c5[f].pc = "asked"
    \/ c5[f].pc = "rows" /\ c1 \subseteq Row \cup c5[f].left

AllComing == c1 \subseteq Row \/ \E f \in Requests : WillShow(f)

AloneIsFree == \A d \in DOMAIN c6 : c6[d] = "ALONE" => c2[d] = None

\* Only a refresh that waits for rows has some left.
NothingLeft == \A f \in Requests : c5[f].pc # "rows" => c5[f].left = {}

CirclesInv ==
    /\ Circles!TypeOK /\ c15 \in Nat /\ c16 \in Nat
    /\ NothingLeft
    /\ ~c14 => OneRefresh
    /\ c13 # "done" /\ c15 > 0 /\ c16 = 0 => AllComing
    /\ c12.pc # "done" /\ ~c7 /\ c16 = 0 => AloneIsFree

LEMMA CirclesNone == None \notin Alliances \cup MyDogs
<1>1. Circles!AllianceListAssumption
  BY PartsAssumption DEF PartsAssumption
<1> QED
  BY <1>1 DEF Circles!AllianceListAssumption

LEMMA CirclesInit == Circles!Init => CirclesInv
<1> SUFFICES ASSUME Circles!Init PROVE CirclesInv
  OBVIOUS
<1>1. /\ c1 \subseteq Alliances /\ c2 \in [MyDogs -> c1 \cup {None}]
      /\ c3 = TRUE /\ c4 = <<>> /\ c5 = [f \in Requests |-> Circles!NoRefresh]
      /\ c6 = [d \in {} |-> None] /\ c7 = FALSE /\ c8 = FALSE /\ c9 = None /\ c10 = None
      /\ c11 = FALSE /\ c12 = Circles!NoJoin /\ c13 = "idle" /\ c14 = FALSE
      /\ c15 = 0 /\ c16 = 0
  BY DEF Circles!Init
<1>2. c6 \in UNION {[S -> {"ALONE", "POOL", "STOP"}] : S \in SUBSET MyDogs}
  <2>1. c6 \in [{} -> {"ALONE", "POOL", "STOP"}]
    BY <1>1
  <2> QED
    BY <2>1
<1>3. c5 \in [Requests -> CircleRefresh]
  BY <1>1 DEF CircleRefresh, Circles!NoRefresh
<1>4. c12 \in [dog : MyDogs \cup {None}, id : Alliances \cup {None},
                    pc : {"idle", "called", "done"}]
  BY <1>1 DEF Circles!NoJoin
<1>5. Circles!TypeOK
  <2>1. c2 \in [MyDogs -> Alliances \cup {None}]
    BY <1>1
  <2>2. c4 \in Seq(Alliances)
    BY <1>1
  <2> QED
    BY <1>1, <1>2, <1>3, <1>4, <2>1, <2>2 DEF Circles!TypeOK, CircleRefresh
<1>6. Circles!Busy = {}
  BY <1>1 DEF Circles!Busy, Circles!NoRefresh
<1>7. OneRefresh
  BY <1>1, <1>6 DEF OneRefresh, Circles!IsInjective
<1>8. AloneIsFree
  BY <1>1 DEF AloneIsFree
<1>9. NothingLeft
  BY <1>1 DEF NothingLeft, Circles!NoRefresh
<1> QED
  BY <1>1, <1>5, <1>7, <1>8, <1>9 DEF CirclesInv

\* What touches neither the rows nor the refreshes.
LEMMA RowsSame ==
    ASSUME CirclesInv, UNCHANGED <<c3, c4, c5, c14, c15>>
    PROVE  /\ ~c14' => OneRefresh'
           /\ c1' = c1 /\ AllComing => AllComing'
           /\ c3' \in BOOLEAN /\ c4' \in Seq(Alliances) /\ c5' \in [Requests -> CircleRefresh]
           /\ c14' \in BOOLEAN /\ c15' \in Nat /\ NothingLeft'
<1>1. Circles!Busy' = Circles!Busy /\ Row' = Row
  BY DEF Circles!Busy, Row
<1>2. ~c14' => OneRefresh'
  BY <1>1 DEF CirclesInv, OneRefresh
<1>3. c1' = c1 /\ AllComing => AllComing'
  BY <1>1 DEF AllComing, WillShow
<1>4. c3' \in BOOLEAN /\ c4' \in Seq(Alliances) /\ c5' \in [Requests -> CircleRefresh]
           /\ c14' \in BOOLEAN /\ c15' \in Nat /\ NothingLeft'
  BY DEF CirclesInv, Circles!TypeOK, CircleRefresh, NothingLeft
<1> QED
  BY <1>2, <1>3, <1>4

\* A refresh begins.
LEMMA RefreshBegins ==
    ASSUME CirclesInv, Circles!req_get_mining_alliances
    PROVE  /\ ~c14' => OneRefresh'
           /\ AllComing'
           /\ c3' \in BOOLEAN /\ c4' \in Seq(Alliances) /\ c5' \in [Requests -> CircleRefresh]
           /\ c14' \in BOOLEAN /\ c15' \in Nat /\ NothingLeft'
<1>1. /\ c15' = c15 + 1 /\ c3' = TRUE /\ c4' = <<>>
      /\ c14' = (c14 \/ Circles!Busy # {})
  BY DEF Circles!req_get_mining_alliances
<1>2. PICK f \in Requests \ Circles!Busy : c5' = [c5 EXCEPT ![f].pc = "asked"]
  BY DEF Circles!req_get_mining_alliances
<1>3. c5 \in [Requests -> CircleRefresh] /\ c14 \in BOOLEAN
  BY DEF CirclesInv, Circles!TypeOK, CircleRefresh
<1>4. c5' \in [Requests -> CircleRefresh] /\ c5'[f].pc = "asked"
  BY <1>2, <1>3 DEF CircleRefresh
<1>5. AllComing'
  BY <1>4 DEF AllComing, WillShow
<1>6. ASSUME Circles!Busy = {} PROVE OneRefresh'
  <2>1. \A g \in Requests : g # f => c5'[g].pc = "idle"
    BY <1>2, <1>3, <1>6 DEF Circles!Busy, CircleRefresh
  <2>2. Circles!Busy' = {f}
    BY <1>4, <2>1 DEF Circles!Busy
  <2>3. Circles!IsInjective(c4)'
    BY <1>1 DEF Circles!IsInjective
  <2> QED
    BY <1>1, <1>4, <2>2, <2>3 DEF OneRefresh
<1>7. ~c14' => OneRefresh'
  BY <1>1, <1>3, <1>6
<1>8. c14' \in BOOLEAN /\ c15' \in Nat
  BY <1>1, <1>3 DEF CirclesInv
<1>9. NothingLeft'
  <2>1. c5[f].pc = "idle" /\ c5'[f].left = c5[f].left
        /\ \A g \in Requests : g # f => c5'[g] = c5[g]
    BY <1>2, <1>3 DEF Circles!Busy, CircleRefresh
  <2>2. c5[f].left = {}
    BY <2>1 DEF CirclesInv, NothingLeft
  <2> QED
    BY <2>1, <2>2 DEF CirclesInv, NothingLeft
<1> QED
  BY <1>1, <1>4, <1>5, <1>7, <1>8, <1>9

\* An answer, a row or a rejection.
LEMMA RefreshGoes ==
    ASSUME CirclesInv, NEW f \in Requests,
           Circles!Answer(f) \/ Circles!AppendRow(f) \/ Circles!Rejected(f)
    PROVE  /\ ~c14' => OneRefresh'
           /\ c16' = 0 /\ AllComing => AllComing'
           /\ c3' \in BOOLEAN /\ c4' \in Seq(Alliances) /\ c5' \in [Requests -> CircleRefresh]
           /\ c14' \in BOOLEAN /\ c15' \in Nat /\ c16' \in Nat /\ NothingLeft'
<1>1. /\ c5 \in [Requests -> CircleRefresh] /\ c14 \in BOOLEAN /\ c4 \in Seq(Alliances)
      /\ c1 \subseteq Alliances /\ c3 \in BOOLEAN /\ c15 \in Nat /\ c16 \in Nat
      /\ c5[f].left \subseteq Alliances
  BY DEF CirclesInv, Circles!TypeOK, CircleRefresh
<1>2. Circles!NoRefresh \in CircleRefresh
  BY DEF Circles!NoRefresh, CircleRefresh
<1>3. CASE Circles!Answer(f)
  <2>1. /\ c5[f].pc = "asked" /\ UNCHANGED <<c1, c3, c4, c14, c15, c16>>
        /\ c5' = [c5 EXCEPT ![f] = IF c1 = {} THEN Circles!NoRefresh
                                   ELSE [pc |-> "rows", left |-> c1]]
    BY <1>3 DEF Circles!Answer, Circles!main
  <2>2. c5' \in [Requests -> CircleRefresh]
    BY <1>1, <1>2, <2>1 DEF CircleRefresh
  <2>3. /\ c1 # {} => c5'[f].pc = "rows" /\ c5'[f].left = c1
        /\ c1 = {} => c5'[f].pc = "idle" /\ c5'[f].left = {}
        /\ \A g \in Requests : g # f => c5'[g] = c5[g]
    BY <1>1, <2>1 DEF Circles!NoRefresh
  <2>4. f \in Circles!Busy /\ Circles!Busy' \subseteq Circles!Busy
    BY <2>1, <2>3 DEF Circles!Busy
  <2>5. ASSUME OneRefresh PROVE OneRefresh'
    <3>1. Row = {} /\ \A g \in Circles!Busy : g = f
      BY <2>1, <2>4, <2>5 DEF OneRefresh, Row, Circles!ToSet
    <3> QED
      BY <2>1, <2>3, <2>4, <2>5, <3>1 DEF OneRefresh, Row
  <2>6. AllComing'
    <3>1. CASE c1 = {}
      BY <2>1, <3>1 DEF AllComing
    <3>2. CASE c1 # {}
      BY <2>1, <2>3, <3>2 DEF AllComing, WillShow
    <3> QED
      BY <3>1, <3>2
  <2> QED
    <3>1. NothingLeft'
      BY <2>3 DEF CirclesInv, NothingLeft
    <3> QED
      BY <1>1, <2>1, <2>2, <2>5, <2>6, <3>1 DEF CirclesInv
<1>4. ASSUME NEW i \in c5[f].left, c5' = Circles!Without(f, i), c5[f].pc = "rows"
      PROVE  /\ c5' \in [Requests -> CircleRefresh]
             /\ \A g \in Requests : g # f => c5'[g] = c5[g]
             /\ f \in Circles!Busy /\ Circles!Busy' \subseteq Circles!Busy
             /\ \/ c5'[f].pc = "idle" /\ c5[f].left = {i}
                \/ c5'[f].pc = "rows" /\ c5'[f].left = c5[f].left \ {i}
             /\ NothingLeft'
  <2> DEFINE rest == c5[f].left \ {i}
  <2>1. c5' = [c5 EXCEPT ![f] = IF rest = {} THEN Circles!NoRefresh
                                ELSE [pc |-> "rows", left |-> rest]]
    BY <1>4 DEF Circles!Without
  <2>2. [pc |-> "rows", left |-> rest] \in CircleRefresh
    BY <1>1 DEF CircleRefresh
  <2>3. \A g \in Requests : g # f => c5'[g] = c5[g]
    BY <1>1, <2>1
  <2>4. \/ c5'[f].pc = "idle" /\ rest = {} /\ c5'[f].left = {}
        \/ c5'[f].pc = "rows" /\ c5'[f].left = rest
    BY <1>1, <2>1 DEF Circles!NoRefresh
  <2>5. c5' \in [Requests -> CircleRefresh]
    <3> HIDE DEF rest
    <3> QED
      BY <1>1, <1>2, <2>1, <2>2
  <2>6. f \in Circles!Busy /\ Circles!Busy' \subseteq Circles!Busy
    BY <1>4, <2>3 DEF Circles!Busy
  <2> QED
    <3>1. NothingLeft'
      BY <2>3, <2>4 DEF CirclesInv, NothingLeft
    <3> QED
      BY <1>4, <2>3, <2>4, <2>5, <2>6, <3>1
<1>5. CASE Circles!AppendRow(f)
  <2>1. PICK i \in c5[f].left : c4' = Append(c4, i) /\ c5' = Circles!Without(f, i)
    BY <1>5 DEF Circles!AppendRow
  <2>2. c5[f].pc = "rows" /\ c3' = FALSE /\ UNCHANGED <<c1, c14, c15, c16>>
    BY <1>5 DEF Circles!AppendRow, Circles!main
  <2>3. /\ c5' \in [Requests -> CircleRefresh]
        /\ \A g \in Requests : g # f => c5'[g] = c5[g]
        /\ f \in Circles!Busy /\ Circles!Busy' \subseteq Circles!Busy
        /\ \/ c5'[f].pc = "idle" /\ c5[f].left = {i}
           \/ c5'[f].pc = "rows" /\ c5'[f].left = c5[f].left \ {i}
        /\ NothingLeft'
    BY <1>4, <2>1, <2>2
  <2>4. i \in Alliances /\ c4' \in Seq(Alliances)
    BY <1>1, <2>1
  <2>5. Row' = Row \cup {i}
    <3>1. /\ DOMAIN c4 = 1 .. Len(c4) /\ DOMAIN c4' = 1 .. Len(c4) + 1 /\ Len(c4) \in Nat
          /\ c4'[Len(c4) + 1] = i /\ \A k \in 1 .. Len(c4) : c4'[k] = c4[k]
      BY <1>1, <2>1, <2>4
    <3>2. \A k \in 1 .. Len(c4) + 1 : k \in 1 .. Len(c4) \/ k = Len(c4) + 1
      BY <3>1
    <3>3. Len(c4) + 1 \in 1 .. Len(c4) + 1 /\ 1 .. Len(c4) \subseteq 1 .. Len(c4) + 1
      BY <3>1
    <3> QED
      BY <3>1, <3>2, <3>3 DEF Row, Circles!ToSet
  <2>6. ASSUME OneRefresh PROVE OneRefresh'
    <3>1. i \notin Row /\ Row \cap c5[f].left = {} /\ \A g \in Circles!Busy : g = f
      BY <2>1, <2>2, <2>3, <2>6 DEF OneRefresh
    <3>2. Circles!IsInjective(c4')
      <4>1. \A k \in 1 .. Len(c4) : c4[k] # i
        BY <1>1, <3>1 DEF Row, Circles!ToSet
      <4>2. \A k, l \in 1 .. Len(c4) : c4[k] = c4[l] => k = l
        BY <1>1, <2>6 DEF OneRefresh, Circles!IsInjective
      <4>3. DOMAIN c4' = 1 .. Len(c4) + 1
            /\ \A k \in 1 .. Len(c4) + 1 : c4'[k] = IF k = Len(c4) + 1 THEN i ELSE c4[k]
        BY <1>1, <2>1, <2>4
      <4>4. \A k \in 1 .. Len(c4) + 1 : k \in 1 .. Len(c4) \/ k = Len(c4) + 1
        BY <1>1
      <4> QED
        BY <4>1, <4>2, <4>3, <4>4 DEF Circles!IsInjective
    <3>3. \A g \in Circles!Busy' : g = f /\ (c5'[f].pc = "rows" => Row' \cap c5'[f].left = {})
      BY <2>3, <2>5, <3>1
    <3>4. c5'[f].pc # "asked"
      BY <2>3
    <3> QED
      BY <3>2, <3>3, <3>4 DEF OneRefresh, Row
  <2>7. ASSUME AllComing PROVE AllComing'
    <3>1. CASE c1 \subseteq Row
      BY <2>2, <2>5, <3>1 DEF AllComing
    <3>2. CASE \E g \in Requests : WillShow(g)
      <4>1. PICK g \in Requests : WillShow(g)
        BY <3>2
      <4>2. CASE g # f
        BY <2>2, <2>3, <2>5, <4>1, <4>2 DEF AllComing, WillShow
      <4>3. CASE g = f
        <5>1. c1 \subseteq Row \cup c5[f].left
          BY <2>2, <4>1, <4>3 DEF WillShow
        <5> QED
          BY <2>2, <2>3, <2>5, <5>1 DEF AllComing, WillShow
      <4> QED
        BY <4>2, <4>3
    <3> QED
      BY <2>7, <3>1, <3>2 DEF AllComing
  <2> QED
    BY <1>1, <2>2, <2>3, <2>4, <2>6, <2>7 DEF CirclesInv
<1>6. CASE Circles!Rejected(f)
  <2>1. UNCHANGED <<c1, c3, c4, c14, c15>> /\ c16' = c16 + 1
    BY <1>6 DEF Circles!Rejected, Circles!main
  <2>2. c16' # 0 /\ c16' \in Nat /\ Row' = Row
    BY <1>1, <2>1 DEF Row
  <2>3. ASSUME c5[f].pc = "asked", c5' = [c5 EXCEPT ![f] = Circles!NoRefresh]
        PROVE  (~c14' => OneRefresh') /\ c5' \in [Requests -> CircleRefresh] /\ NothingLeft'
    <3>1. c5' \in [Requests -> CircleRefresh]
      BY <1>1, <1>2, <2>3
    <3>2. /\ c5'[f].pc = "idle" /\ c5'[f].left = {}
          /\ \A g \in Requests : g # f => c5'[g] = c5[g]
      BY <1>1, <2>3 DEF Circles!NoRefresh
    <3>3. \A g \in Circles!Busy' : g \in Circles!Busy /\ c5'[g] = c5[g]
      BY <3>2 DEF Circles!Busy
    <3>4. OneRefresh => OneRefresh'
      BY <2>1, <2>2, <3>3 DEF OneRefresh
    <3>5. NothingLeft'
      BY <3>2 DEF CirclesInv, NothingLeft
    <3> QED
      BY <1>1, <2>1, <2>2, <3>1, <3>4, <3>5 DEF CirclesInv
  <2>4. ASSUME NEW i \in c5[f].left, c5' = Circles!Without(f, i), c5[f].pc = "rows"
        PROVE  (~c14' => OneRefresh') /\ c5' \in [Requests -> CircleRefresh] /\ NothingLeft'
    <3>1. /\ c5' \in [Requests -> CircleRefresh]
          /\ \A g \in Requests : g # f => c5'[g] = c5[g]
          /\ f \in Circles!Busy /\ Circles!Busy' \subseteq Circles!Busy
          /\ \/ c5'[f].pc = "idle" /\ c5[f].left = {i}
             \/ c5'[f].pc = "rows" /\ c5'[f].left = c5[f].left \ {i}
          /\ NothingLeft'
      BY <1>4, <2>4
    <3>2. ASSUME OneRefresh PROVE OneRefresh'
      <4>1. Row \cap c5[f].left = {} /\ \A g \in Circles!Busy : g = f
        BY <2>4, <3>1, <3>2 DEF OneRefresh
      <4>2. \A g \in Circles!Busy' : g = f /\ (c5'[f].pc = "rows" => Row' \cap c5'[f].left = {})
        BY <2>2, <3>1, <4>1
      <4>3. c5'[f].pc # "asked"
        BY <3>1
      <4> QED
        BY <2>1, <3>2, <4>2, <4>3 DEF OneRefresh, Row
    <3> QED
      BY <2>1, <3>1, <3>2 DEF CirclesInv
  <2>5. \/ c5[f].pc = "asked" /\ c5' = [c5 EXCEPT ![f] = Circles!NoRefresh]
        \/ c5[f].pc = "rows" /\ \E i \in c5[f].left : c5' = Circles!Without(f, i)
    <3>1. \/ c5[f].pc = "asked" /\ c5' = [c5 EXCEPT ![f] = Circles!NoRefresh]
          \/ \E i \in c5[f].left : c5' = Circles!Without(f, i)
      BY <1>6 DEF Circles!Rejected
    <3>2. c5[f].left # {} => c5[f].pc = "rows"
      BY DEF CirclesInv, NothingLeft
    <3> QED
      BY <3>1, <3>2
  <2>6. (~c14' => OneRefresh') /\ c5' \in [Requests -> CircleRefresh] /\ NothingLeft'
    BY <2>3, <2>4, <2>5
  <2> QED
    BY <1>1, <2>1, <2>2, <2>6
<1> QED
  BY <1>3, <1>5, <1>6

CircleDogs == UNION {[S -> {"ALONE", "POOL", "STOP"}] : S \in SUBSET MyDogs}
CircleJoin ==
    [dog : MyDogs \cup {None}, id : Alliances \cup {None}, pc : {"idle", "called", "done"}]

\* The types of the dogs, of the modal and of the calls.
JoinTypes ==
    /\ c1 \subseteq Alliances /\ c2 \in [MyDogs -> Alliances \cup {None}]
    /\ c6 \in CircleDogs
    /\ c7 \in BOOLEAN /\ c8 \in BOOLEAN /\ c11 \in BOOLEAN
    /\ c9 \in Alliances \cup {None} /\ c10 \in MyDogs \cup {None}
    /\ c12 \in CircleJoin
    /\ c13 \in {"idle", "called", "done"}

LEMMA CirclesTypes ==
    CirclesInv <=>
        /\ JoinTypes
        /\ c3 \in BOOLEAN /\ c4 \in Seq(Alliances) /\ c5 \in [Requests -> CircleRefresh]
        /\ c14 \in BOOLEAN /\ c15 \in Nat /\ NothingLeft /\ (~c14 => OneRefresh)
        /\ c16 \in Nat
        /\ c13 # "done" /\ c15 > 0 /\ c16 = 0 => AllComing
        /\ c12.pc # "done" /\ ~c7 /\ c16 = 0 => AloneIsFree
BY DEF CirclesInv, Circles!TypeOK, JoinTypes, CircleDogs, CircleJoin, CircleRefresh

\* The dogs, the modal and the calls.  An answer of dog_info tells who is free, and
\* until a join is done nobody else gets an alliance.
LEMMA JoinStep ==
    ASSUME CirclesInv,
           \/ Circles!TimerFires \/ Circles!DogInfo \/ Circles!BtnJoinModal
           \/ Circles!HandleOpenJoin \/ Circles!BtnSelectItem \/ Circles!BtnJoin
           \/ Circles!BtnCreate \/ Circles!MainJoins \/ Circles!JoinDone
           \/ Circles!JoinFailed \/ Circles!MainCreates \/ Circles!CreateDone
           \/ Circles!CreateFailed
    PROVE  /\ JoinTypes' /\ c16' \in Nat
           /\ c12'.pc # "done" /\ ~c7' /\ c16' = 0 => AloneIsFree'
<1>0. /\ JoinTypes /\ c16 \in Nat /\ c4 \in Seq(Alliances)
      /\ c12.pc # "done" /\ ~c7 /\ c16 = 0 => AloneIsFree
  BY CirclesTypes
<1> USE DEF Circles!main, Circles!rows, Circles!dogs, Circles!join, Circles!calls
<1>1. CASE Circles!TimerFires
  BY <1>0, <1>1 DEF Circles!TimerFires, JoinTypes
<1>2. CASE Circles!DogInfo
  <2>1. PICK stopped \in SUBSET MyDogs :
          c6' = [d \in MyDogs |-> IF d \in stopped THEN "STOP"
                                  ELSE IF c2[d] = None THEN "ALONE" ELSE "POOL"]
    BY <1>2 DEF Circles!DogInfo
  <2>2. c6' \in [MyDogs -> {"ALONE", "POOL", "STOP"}]
    BY <2>1
  <2>3. c6' \in CircleDogs
    BY <2>2 DEF CircleDogs
  <2>4. UNCHANGED <<c1, c2, c8, c9, c10, c12, c13, c16>> /\ c7' = FALSE /\ c11' = FALSE
    BY <1>2 DEF Circles!DogInfo
  <2>5. AloneIsFree'
    BY <2>1, <2>4 DEF AloneIsFree
  <2> QED
    BY <1>0, <2>3, <2>4, <2>5 DEF JoinTypes
<1>3. CASE Circles!BtnJoinModal
  <2>1. Circles!TableRows \cup Circles!PhoneRows \subseteq Alliances
    BY <1>0 DEF Circles!TableRows, Circles!PhoneRows, Circles!ToSet
  <2>2. c9' \in Alliances
    BY <1>3, <2>1 DEF Circles!BtnJoinModal
  <2>3. UNCHANGED <<c1, c2, c6, c7, c10, c11, c12, c13, c16>> /\ c8' = TRUE
    BY <1>3 DEF Circles!BtnJoinModal
  <2> QED
    BY <1>0, <2>2, <2>3 DEF JoinTypes, AloneIsFree
<1>4. CASE Circles!HandleOpenJoin
  BY <1>0, <1>4 DEF Circles!HandleOpenJoin, JoinTypes, AloneIsFree
<1>5. CASE Circles!BtnSelectItem
  <2>1. Circles!Offered \subseteq MyDogs
    BY <1>0 DEF Circles!Offered, JoinTypes, CircleDogs
  <2>2. c10' \in MyDogs \cup {None} /\ c11' \in BOOLEAN
    BY <1>5, <2>1 DEF Circles!BtnSelectItem
  <2>3. UNCHANGED <<c1, c2, c6, c7, c8, c9, c12, c13, c16>>
    BY <1>5 DEF Circles!BtnSelectItem
  <2> QED
    BY <1>0, <2>2, <2>3 DEF JoinTypes, AloneIsFree
<1>6. CASE Circles!BtnJoin
  <2>1. c12' = [dog |-> c10, id |-> c9, pc |-> "called"]
    BY <1>6 DEF Circles!BtnJoin
  <2>2. UNCHANGED <<c1, c2, c6, c7, c8, c9, c10, c11, c13, c16>> /\ c12.pc = "idle"
    BY <1>6 DEF Circles!BtnJoin, Circles!JoinModal, Circles!NoJoin
  <2>3. c12' \in CircleJoin
    BY <1>0, <2>1 DEF JoinTypes, CircleJoin
  <2> QED
    BY <1>0, <2>2, <2>3 DEF JoinTypes, AloneIsFree
<1>7. CASE Circles!BtnCreate
  BY <1>0, <1>7 DEF Circles!BtnCreate, JoinTypes, AloneIsFree
<1>8. CASE Circles!MainJoins
  <2>1. c12' = [c12 EXCEPT !.pc = "done"] /\ c2' = [c2 EXCEPT ![c12.dog] = c12.id]
    BY <1>8 DEF Circles!MainJoins
  <2>2. UNCHANGED <<c1, c6, c7, c8, c9, c10, c11, c13, c16>>
    BY <1>8 DEF Circles!MainJoins
  <2>3. c12' \in CircleJoin /\ c12'.pc = "done" /\ c12.id \in Alliances \cup {None}
    BY <1>0, <2>1 DEF JoinTypes, CircleJoin
  <2>4. c2' \in [MyDogs -> Alliances \cup {None}]
    BY <1>0, <2>1, <2>3 DEF JoinTypes
  <2> QED
    BY <1>0, <2>2, <2>3, <2>4 DEF JoinTypes
<1>9. CASE Circles!JoinDone
  <2>1. c12' \in CircleJoin
    BY <1>9 DEF Circles!JoinDone, Circles!NoJoin, CircleJoin
  <2> QED
    BY <1>0, <1>9, <2>1 DEF Circles!JoinDone, JoinTypes
<1>10. CASE Circles!JoinFailed
  <2>1. c12' \in CircleJoin
    BY <1>10 DEF Circles!JoinFailed, Circles!NoJoin, CircleJoin
  <2>2. c16' = 0 => c12.pc = "called" /\ c16 = 0
    BY <1>0, <1>10 DEF Circles!JoinFailed
  <2>3. UNCHANGED <<c1, c2, c6, c7, c8, c9, c10, c11, c13>> /\ c16' \in {c16, c16 + 1}
    BY <1>10 DEF Circles!JoinFailed
  <2> QED
    BY <1>0, <2>1, <2>2, <2>3 DEF JoinTypes, AloneIsFree
<1>11. CASE Circles!MainCreates
  BY <1>0, <1>11 DEF Circles!MainCreates, JoinTypes, AloneIsFree
<1>12. CASE Circles!CreateDone
  BY <1>0, <1>12 DEF Circles!CreateDone, JoinTypes, AloneIsFree
<1>13. CASE Circles!CreateFailed
  BY <1>0, <1>13 DEF Circles!CreateFailed, JoinTypes, AloneIsFree
<1> QED
  BY <1>1, <1>2, <1>3, <1>4, <1>5, <1>6, <1>7, <1>8, <1>9, <1>10, <1>11, <1>12, <1>13

LEMMA CirclesStep ==
    ASSUME CirclesInv, Circles!Next
    PROVE  CirclesInv'
<1> DEFINE Rows == /\ ~c14' => OneRefresh'
                   /\ c3' \in BOOLEAN /\ c4' \in Seq(Alliances)
                   /\ c5' \in [Requests -> CircleRefresh]
                   /\ c14' \in BOOLEAN /\ c15' \in Nat /\ NothingLeft'
           Coming == c13' # "done" /\ c15' > 0 /\ c16' = 0 => AllComing'
<1>0. /\ JoinTypes /\ c15 \in Nat /\ c16 \in Nat
      /\ c13 # "done" /\ c15 > 0 /\ c16 = 0 => AllComing
      /\ c12.pc # "done" /\ ~c7 /\ c16 = 0 => AloneIsFree
  BY CirclesTypes
<1> USE DEF Circles!main, Circles!rows, Circles!dogs, Circles!join, Circles!calls
<1>1. CASE Circles!TimerFires \/ Circles!JoinDone \/ Circles!CreateDone
  <2>1. Circles!req_get_mining_alliances
    BY <1>1 DEF Circles!TimerFires, Circles!JoinDone, Circles!CreateDone
  <2>2. Rows /\ Coming
    BY <2>1, RefreshBegins
  <2>3. /\ JoinTypes' /\ c16' \in Nat
        /\ c12'.pc # "done" /\ ~c7' /\ c16' = 0 => AloneIsFree'
    BY <1>1, JoinStep
  <2> QED
    BY <2>2, <2>3 DEF CirclesInv, Circles!TypeOK, JoinTypes,
       CircleDogs, CircleJoin, CircleRefresh
<1>2. CASE \/ Circles!DogInfo \/ Circles!BtnJoinModal
           \/ Circles!HandleOpenJoin \/ Circles!BtnSelectItem \/ Circles!BtnJoin
           \/ Circles!BtnCreate \/ Circles!MainJoins
           \/ Circles!JoinFailed \/ Circles!MainCreates \/ Circles!CreateFailed
  <2>1. /\ UNCHANGED <<c3, c4, c5, c14, c15>>
        /\ c13' # "done" /\ c16' = 0 => c1' = c1 /\ c13 # "done" /\ c16 = 0
    <3>1. CASE Circles!DogInfo
      BY <3>1 DEF Circles!DogInfo
    <3>2. CASE Circles!BtnJoinModal
      BY <3>2 DEF Circles!BtnJoinModal
    <3>3. CASE Circles!HandleOpenJoin
      BY <3>3 DEF Circles!HandleOpenJoin
    <3>4. CASE Circles!BtnSelectItem
      BY <3>4 DEF Circles!BtnSelectItem
    <3>5. CASE Circles!BtnJoin
      BY <3>5 DEF Circles!BtnJoin
    <3>6. CASE Circles!BtnCreate
      BY <3>6 DEF Circles!BtnCreate
    <3>7. CASE Circles!MainJoins
      BY <3>7 DEF Circles!MainJoins
    <3>8. CASE Circles!JoinFailed
      BY <1>0, <3>8 DEF Circles!JoinFailed
    <3>9. CASE Circles!MainCreates
      BY <3>9 DEF Circles!MainCreates
    <3>10. CASE Circles!CreateFailed
      BY <1>0, <3>10 DEF Circles!CreateFailed
    <3> QED
      BY <1>2, <3>1, <3>2, <3>3, <3>4, <3>5, <3>6, <3>7, <3>8, <3>9, <3>10
  <2>2. Rows /\ (c1' = c1 /\ AllComing => AllComing')
    BY <2>1, RowsSame
  <2>3. Coming
    BY <1>0, <2>1, <2>2
  <2>4. /\ JoinTypes' /\ c16' \in Nat
        /\ c12'.pc # "done" /\ ~c7' /\ c16' = 0 => AloneIsFree'
    BY <1>2, JoinStep
  <2> QED
    BY <2>2, <2>3, <2>4 DEF CirclesInv, Circles!TypeOK, JoinTypes,
       CircleDogs, CircleJoin, CircleRefresh
<1>3. ASSUME NEW f \in Requests, Circles!Queries(f) PROVE CirclesInv'
  <2>1. Circles!Answer(f) \/ Circles!AppendRow(f) \/ Circles!Rejected(f)
    BY <1>3 DEF Circles!Queries
  <2>2. Rows /\ c16' \in Nat /\ (c16' = 0 /\ AllComing => AllComing')
    BY <2>1, RefreshGoes
  <2>3. UNCHANGED <<c1, c2, c6, c7, c8, c9, c10, c11, c12, c13, c15>> /\ c16' \in {c16, c16 + 1}
    BY <2>1 DEF Circles!Answer, Circles!AppendRow, Circles!Rejected
  <2>4. c16' = 0 => c16 = 0
    BY <1>0, <2>3
  <2>5. Coming
    BY <1>0, <2>2, <2>3, <2>4
  <2>6. JoinTypes' /\ (c12'.pc # "done" /\ ~c7' /\ c16' = 0 => AloneIsFree')
    BY <1>0, <2>3, <2>4 DEF JoinTypes, AloneIsFree
  <2> QED
    BY <2>2, <2>5, <2>6 DEF CirclesInv, Circles!TypeOK, JoinTypes,
       CircleDogs, CircleJoin, CircleRefresh
<1> QED
  BY <1>1, <1>2, <1>3 DEF Circles!Next

LEMMA CirclesMean ==
    ASSUME CirclesInv
    PROVE  Circles!NoRowTwice /\ Circles!AllShown /\ Circles!HighlightedIsFree
<1>1. Circles!NoRowTwice
  BY DEF CirclesInv, OneRefresh, Circles!NoRowTwice
<1>2. Circles!AllShown
  <2>1. Circles!Busy = {} => \A f \in Requests : ~WillShow(f)
    BY DEF Circles!Busy, WillShow
  <2> QED
    BY <2>1 DEF CirclesInv, AllComing, Row, Circles!AllShown
<1>3. Circles!HighlightedIsFree
  <2> SUFFICES ASSUME NEW d \in Circles!Highlighted, ~c7, c12 = Circles!NoJoin, ~(c16 > 0)
               PROVE  c2[d] = None
    BY DEF Circles!HighlightedIsFree
  <2>1. d \in DOMAIN c6 /\ c6[d] = "ALONE"
    BY DEF Circles!Highlighted, Circles!Offered
  <2>2. c16 = 0 /\ c12.pc # "done"
    BY DEF CirclesInv, Circles!NoJoin
  <2> QED
    BY <2>1, <2>2 DEF CirclesInv, AloneIsFree
<1> QED
  BY <1>1, <1>2, <1>3

LEMMA CirclesHold == Spec => [](open = "alliances" => CirclesInv)
<1> DEFINE Inv == open = "alliances" => CirclesInv
<1>1. Init => Inv
  BY CirclesInit DEF Init
<1>2. Inv /\ [Next]_state => Inv'
  <2> SUFFICES ASSUME open = "alliances", CirclesInv, [Next]_state PROVE CirclesInv'
    BY StaysOpen
  <2>1. Circles!Next \/ UNCHANGED <<c1, c2, c3, c4, c5, c6, c7, c8, c9, c10, c11, c12, c13,
                                     c14, c15, c16>>
    BY DEF Next, state
  <2>2. CASE UNCHANGED <<c1, c2, c3, c4, c5, c6, c7, c8, c9, c10, c11, c12, c13, c14, c15, c16>>
    <3>1. /\ ~c14' => OneRefresh'
          /\ c1' = c1 /\ AllComing => AllComing'
          /\ c3' \in BOOLEAN /\ c4' \in Seq(Alliances) /\ c5' \in [Requests -> CircleRefresh]
          /\ c14' \in BOOLEAN /\ c15' \in Nat /\ NothingLeft'
      BY <2>2, RowsSame
    <3>2. JoinTypes' /\ (AloneIsFree => AloneIsFree')
      BY <2>2, CirclesTypes DEF JoinTypes, AloneIsFree
    <3> QED
      BY <2>2, <3>1, <3>2 DEF CirclesInv, Circles!TypeOK, JoinTypes,
         CircleDogs, CircleJoin, CircleRefresh
  <2> QED
    BY <2>1, <2>2, CirclesStep
<1> QED
  BY <1>1, <1>2, PTL DEF Spec

-----------------------------------------------------------------------------
\* ListsTrue, for any users, dogs and alliances and any number of queries.  The list of
\* dogs is the user's (DogMiner.tsx:486), up to date (164, 373, 422) and with its cycles
\* (188), unless an older answer came last; the list of alliances has no row twice and
\* none missing, whatever the order of the answers (DogAlliance.tsx:158), and the dog
\* chosen for an alliance is free (514).
THEOREM ListsAlwaysTrue == Spec => []ListsTrue
<1>1. (open = "miners" => MinersInv) /\ (open = "alliances" => CirclesInv) => ListsTrue
  BY MinersMean, CirclesMean DEF ListsTrue
<1> QED
  BY <1>1, MinersHold, CirclesHold, PTL

(***************************************************************************)
(* The rankings.  A dog's blocks are its records in the log, so that the   *)
(* figures of a row are those of its user or alliance when they were read; *)
(* from then on neither the row nor what it was read from changes.         *)
(***************************************************************************)
MinedBy(S) == {i \in 1 .. Len(c6) : c6[i].dog \in S}

LogRecord == [dog : Dogs, alliance : RankedAlliances \cup {None}]

TopsTypes ==
    /\ c1 \in [Dogs -> Tops!Elements(Tops!Levels)]
    /\ c3 \in [Dogs -> RankedAlliances \cup {None}]
    /\ c4 \in [Dogs -> {"ACTIVITY", "STOP"}] /\ c5 \in [Dogs -> {"ACTIVITY", "STOP"}]
    /\ c6 \in Seq(LogRecord) /\ Len(c6) <= MaxLog
    /\ DOMAIN c7 = {"pc", "ask", "rows", "was"}
    /\ c7.pc \in {"idle", "asking"} /\ c7.ask \subseteq Dogs
    /\ c12 \in [{"user", "alliance"} -> {"idle", "asked"}]

BlocksCounted ==
    /\ c2 \in [Dogs -> Nat]
    /\ \A d \in Dogs : c2[d] = Cardinality(MinedBy({d}))

\* The rows of the users, and what they were read from.
UsersRead(rows, was) ==
    /\ IsFiniteSet(rows)
    /\ \A r \in rows : /\ r[1] \in DOMAIN was
                       /\ \A key \in Tops!Columns : Tops!UserCell(r, key) = was[r[1]][key]
    /\ \A x \in DOMAIN was : \E r \in rows : r[1] = x

\* The same of the alliances.
AlliancesRead(rows, was) ==
    /\ IsFiniteSet(rows)
    /\ \A r \in rows : /\ r[1] \in DOMAIN was /\ r[2] = r[1]
                       /\ \A key \in Tops!Columns : Tops!AllianceCell(r, key) = was[r[2]][key]
    /\ \A x \in DOMAIN was : \E r \in rows : r[1] = x

UserCells(t) ==
    \A i \in 1 .. Len(t.rows) : \A key \in Tops!Columns :
        Tops!UserCell(t.rows[i], key) = t.was[t.rows[i][1]][key]

AllianceCells(t) ==
    \A i \in 1 .. Len(t.rows) : \A key \in Tops!Columns :
        Tops!AllianceCell(t.rows[i], key) = t.was[t.rows[i][2]][key]

TopsInv ==
    /\ TopsTypes /\ BlocksCounted
    /\ c7.pc = "asking" => UsersRead(c7.rows, c7.was)
    /\ UserCells(c8) /\ Tops!BestOf(c8) /\ Len(c8.rows) <= Top
    /\ AllianceCells(c9) /\ Tops!BestOf(c9) /\ Len(c9.rows) <= Top
    /\ c10 # None => UserCells(c10)
    /\ c11 # None => AllianceCells(c11)

LEMMA TopsCounts == \A S : Tops!Cardinality(S) = Cardinality(S)
BY DEF Tops!Cardinality, Cardinality

LEMMA TopsBounds ==
    /\ IsFiniteSet(Dogs) /\ IsFiniteSet(RankedAlliances) /\ Top \in Nat \ {0}
    /\ MaxLog \in Nat
<1>1. Tops!StandingsAssumption
  BY PartsAssumption DEF PartsAssumption
<1> QED
  <2>1. {MaxLog, MaxUpgrades, MaxMoves, MaxCalcs, MaxMounts} \subseteq Nat
    BY <1>1 DEF Tops!StandingsAssumption
  <2>2. MaxLog \in Nat
    BY <2>1
  <2>3. IsFiniteSet(Dogs) /\ IsFiniteSet(RankedAlliances)
    BY <1>1 DEF Tops!StandingsAssumption, Tops!IsFiniteSet, IsFiniteSet
  <2>4. Top \in Nat \ {0}
    BY <1>1 DEF Tops!StandingsAssumption
  <2> QED
    BY <2>2, <2>3, <2>4

\* The blocks of a set of dogs are its records in the log.
LEMMA BlocksInLog ==
    ASSUME TopsTypes, BlocksCounted, NEW S \in SUBSET Dogs
    PROVE  Tops!BlocksOf[S] = Cardinality(MinedBy(S))
<1>1. PICK table : Sums(c2, Dogs, table)
  <2>1. PICK table : SmallSums(c2, Dogs, Cardinality(Dogs), table)
    BY SmallSumsExist, FS_CardinalityType, TopsBounds
  <2>2. {U \in SUBSET Dogs : Cardinality(U) <= Cardinality(Dogs)} = SUBSET Dogs
    BY FS_Subset, TopsBounds
  <2> QED
    BY <2>1, <2>2 DEF SmallSums, Sums
<1>2. Sums(c2, Dogs, Tops!BlocksOf)
  BY <1>1 DEF Tops!BlocksOf, Sums, One
<1> DEFINE P == {T \in SUBSET Dogs : Tops!BlocksOf[T] = Cardinality(MinedBy(T))}
<1>3. ASSUME NEW T \in SUBSET Dogs PROVE IsFiniteSet(MinedBy(T)) /\ Cardinality(MinedBy(T)) \in Nat
  <2>1. IsFiniteSet(1 .. Len(c6)) /\ MinedBy(T) \subseteq 1 .. Len(c6)
    BY FS_Interval DEF MinedBy, TopsTypes
  <2> QED
    BY <2>1, FS_Subset, FS_CardinalityType
<1>4. ASSUME NEW T \in SUBSET Dogs, \A x \in T : T \ {x} \in P PROVE T \in P
  <2>1. Tops!BlocksOf[T] = IF T = {} THEN 0 ELSE c2[One(T)] + Tops!BlocksOf[T \ {One(T)}]
    BY <1>2 DEF Sums
  <2>2. CASE T = {}
    <3>1. MinedBy(T) = {}
      BY <2>2 DEF MinedBy
    <3> QED
      BY <2>1, <2>2, <3>1, FS_EmptySet
  <2>3. CASE T # {}
    <3> DEFINE x == One(T)
    <3>1. x \in T /\ x \in Dogs /\ T \ {x} \in P
      BY <1>4, <2>3 DEF One
    <3>2. MinedBy(T) = MinedBy({x}) \cup MinedBy(T \ {x}) /\ MinedBy({x}) \cap MinedBy(T \ {x}) = {}
      BY <3>1 DEF MinedBy
    <3>3. /\ Tops!BlocksOf[T] = c2[x] + Tops!BlocksOf[T \ {x}]
          /\ c2[x] = Cardinality(MinedBy({x}))
          /\ Tops!BlocksOf[T \ {x}] = Cardinality(MinedBy(T \ {x}))
      BY <2>1, <2>3, <3>1 DEF BlocksCounted
    <3>4. Cardinality(MinedBy(T)) = Cardinality(MinedBy({x})) + Cardinality(MinedBy(T \ {x}))
      <4>1. /\ IsFiniteSet(MinedBy({x})) /\ Cardinality(MinedBy({x})) \in Nat
            /\ IsFiniteSet(MinedBy(T \ {x})) /\ Cardinality(MinedBy(T \ {x})) \in Nat
        BY <1>3, <3>1
      <4> HIDE DEF x
      <4> QED
        <5>1. PICK A, B, C : A = MinedBy({x}) /\ B = MinedBy(T \ {x}) /\ C = MinedBy(T)
          OBVIOUS
        <5>2. /\ IsFiniteSet(A) /\ IsFiniteSet(B) /\ Cardinality(A) \in Nat /\ Cardinality(B) \in Nat
              /\ C = A \cup B /\ A \cap B = {}
          BY <3>2, <4>1, <5>1
        <5>3. Cardinality(A \cup B) = Cardinality(A) + Cardinality(B) - Cardinality(A \cap B)
          BY <5>2, FS_Union
        <5>4. Cardinality(A \cap B) = 0
          BY <5>2, FS_EmptySet
        <5>5. Cardinality(C) = Cardinality(A) + Cardinality(B)
          <6>1. Cardinality(C) = Cardinality(A) + Cardinality(B) - Cardinality(A \cap B)
            BY <5>2, <5>3
          <6> QED
            BY <5>2, <5>4, <6>1
        <5> QED
          BY <5>1, <5>5
    <3> QED
      BY <3>3, <3>4
  <2> QED
    BY <2>2, <2>3
<1>5. P = SUBSET Dogs
  <2>1. P \in SUBSET (SUBSET Dogs)
    OBVIOUS
  <2> HIDE DEF P
  <2> QED
    BY <1>4, <2>1, SubsetInduction, TopsBounds
<1> QED
  BY <1>5

LEMMA UserRowTrue ==
    ASSUME TopsTypes, BlocksCounted, NEW u, NEW key \in Tops!Columns
    PROVE  Tops!UserCell(Tops!UserRow(u), key) = Tops!Standing(Tops!DogsOf(u))[key]
<1>1. Tops!BlocksOf[Tops!DogsOf(u)] = Cardinality(MinedBy(Tops!DogsOf(u)))
  BY BlocksInLog DEF Tops!DogsOf
<1>2. key \in {"DiamondDog", "GoldDog", "SilverDog", "CopperDog", "BlockMined"}
  BY DEF Tops!Columns
<1>3. CASE key = "DiamondDog"
  BY <1>1, <1>3 DEF Tops!UserCell, Tops!UserRow, Tops!Standing
<1>4. CASE key = "GoldDog"
  BY <1>1, <1>4 DEF Tops!UserCell, Tops!UserRow, Tops!Standing
<1>5. CASE key = "SilverDog"
  BY <1>1, <1>5 DEF Tops!UserCell, Tops!UserRow, Tops!Standing
<1>6. CASE key = "CopperDog"
  BY <1>1, <1>6 DEF Tops!UserCell, Tops!UserRow, Tops!Standing
<1>7. CASE key = "BlockMined"
  BY <1>1, <1>7, TopsCounts DEF Tops!UserCell, Tops!UserRow, Tops!Standing, MinedBy
<1> QED
  BY <1>2, <1>3, <1>4, <1>5, <1>6, <1>7

LEMMA AllianceRowTrue ==
    ASSUME TopsTypes, BlocksCounted, NEW a, NEW key \in Tops!Columns
    PROVE  Tops!AllianceCell(Tops!AllianceRow(a), key) = Tops!Standing(Tops!MembersOf(a))[key]
<1>1. Tops!BlocksOf[Tops!MembersOf(a)] = Cardinality(MinedBy(Tops!MembersOf(a)))
  BY BlocksInLog DEF Tops!MembersOf
<1>2. key \in {"DiamondDog", "GoldDog", "SilverDog", "CopperDog", "BlockMined"}
  BY DEF Tops!Columns
<1>3. CASE key = "DiamondDog"
  BY <1>1, <1>3 DEF Tops!AllianceCell, Tops!AllianceRow, Tops!Standing
<1>4. CASE key = "GoldDog"
  BY <1>1, <1>4 DEF Tops!AllianceCell, Tops!AllianceRow, Tops!Standing
<1>5. CASE key = "SilverDog"
  BY <1>1, <1>5 DEF Tops!AllianceCell, Tops!AllianceRow, Tops!Standing
<1>6. CASE key = "CopperDog"
  BY <1>1, <1>6 DEF Tops!AllianceCell, Tops!AllianceRow, Tops!Standing
<1>7. CASE key = "BlockMined"
  BY <1>1, <1>7, TopsCounts DEF Tops!AllianceCell, Tops!AllianceRow, Tops!Standing, MinedBy
<1> QED
  BY <1>2, <1>3, <1>4, <1>5, <1>6, <1>7

\* A list that was ranked has the best of its rows, in order.
LEMMA RankedIs ==
    ASSUME NEW rows, IsFiniteSet(rows), NEW k, NEW was, NEW s \in Tops!Ranked(rows, k),
           \A r \in rows : r[1] \in DOMAIN was /\ r[k] = was[r[1]].BlockMined,
           \A x \in DOMAIN was : \E r \in rows : r[1] = x,
           NEW t, t = [rows |-> s, was |-> was]
    PROVE  Tops!BestOf(t) /\ Len(t.rows) <= Top /\ \A i \in 1 .. Len(t.rows) : t.rows[i] \in rows
<1> DEFINE n == IF Cardinality(rows) < Top THEN Cardinality(rows) ELSE Top
<1>1. n \in Nat /\ n <= Top
  BY FS_CardinalityType, TopsBounds
<1>2. /\ s \in [1 .. n -> rows]
      /\ \A i \in 1 .. n - 1 : s[i][k] >= s[i + 1][k]
      /\ \A r \in rows \ Tops!Elements(s) : \A i \in 1 .. n : r[k] <= s[i][k]
  BY TopsCounts DEF Tops!Ranked
<1> HIDE DEF n
<1>3. s \in Seq(rows) /\ Len(s) = n
  BY <1>1, <1>2
<1>4. \A i \in 1 .. n : s[i] \in rows /\ s[i][k] = was[s[i][1]].BlockMined
  BY <1>2
<1>5. t.rows = s /\ t.was = was
  OBVIOUS
<1>6. ASSUME NEW i \in 1 .. n, NEW x \in DOMAIN was \ {s[j][1] : j \in 1 .. n}
      PROVE  was[x].BlockMined <= was[s[i][1]].BlockMined
  <2>1. PICK r \in rows : r[1] = x
    BY <1>6
  <2>2. r \notin Tops!Elements(s)
    BY <1>3, <1>6, <2>1 DEF Tops!Elements
  <2>3. r[k] <= s[i][k] /\ r[k] = was[x].BlockMined
    BY <1>2, <2>1, <2>2
  <2> QED
    BY <1>4, <2>3
<1>7. ASSUME NEW i \in 1 .. n - 1
      PROVE  was[s[i][1]].BlockMined >= was[s[i + 1][1]].BlockMined
  <2>1. i \in 1 .. n /\ i + 1 \in 1 .. n
    BY <1>1
  <2> QED
    BY <1>2, <1>4, <2>1
<1>8. Tops!BestOf(t)
  BY <1>3, <1>5, <1>6, <1>7 DEF Tops!BestOf
<1> QED
  BY <1>1, <1>3, <1>4, <1>5, <1>8

-----------------------------------------------------------------------------
LEMMA TopsInit == Tops!Init => TopsInv
<1> SUFFICES ASSUME Tops!Init PROVE TopsInv
  OBVIOUS
<1>1. /\ c1 = [d \in Dogs |-> "CopperDog"] /\ c2 = [d \in Dogs |-> 0]
      /\ c3 = [d \in Dogs |-> None]
      /\ c4 = [d \in Dogs |-> "ACTIVITY"] /\ c5 = [d \in Dogs |-> "ACTIVITY"]
      /\ c6 = <<>> /\ c7 = Tops!NoCalc /\ c8 = Tops!NoList /\ c9 = Tops!NoList
      /\ c10 = None /\ c11 = None
      /\ c12 = [user |-> "asked", alliance |-> "asked"]
  BY DEF Tops!Init
<1>2. "CopperDog" \in Tops!Elements(Tops!Levels)
  BY DEF Tops!Elements, Tops!Levels
<1>3. c7.pc = "idle" /\ c7.ask = {} /\ DOMAIN c7 = {"pc", "ask", "rows", "was"}
  BY <1>1 DEF Tops!NoCalc
<1>4. c6 \in Seq(LogRecord) /\ Len(c6) = 0
  BY <1>1
<1>5. TopsTypes
  BY <1>1, <1>2, <1>3, <1>4, TopsBounds DEF TopsTypes
<1>6. BlocksCounted
  <2>1. \A d \in Dogs : MinedBy({d}) = {}
    BY <1>4 DEF MinedBy
  <2> QED
    BY <1>1, <2>1, FS_EmptySet DEF BlocksCounted
<1>7. c8.rows = <<>> /\ c8.was = <<>> /\ c9.rows = <<>> /\ c9.was = <<>>
  BY <1>1 DEF Tops!NoList
<1>8. UserCells(c8) /\ AllianceCells(c9) /\ Len(c8.rows) <= Top /\ Len(c9.rows) <= Top
  BY <1>7, TopsBounds DEF UserCells, AllianceCells
<1>9. Tops!BestOf(c8) /\ Tops!BestOf(c9)
  BY <1>7 DEF Tops!BestOf
<1> QED
  BY <1>1, <1>3, <1>5, <1>6, <1>8, <1>9 DEF TopsInv

\* What the lists and the tables depend on.
TopsLists ==
    /\ c7.pc = "asking" => UsersRead(c7.rows, c7.was)
    /\ UserCells(c8) /\ Tops!BestOf(c8) /\ Len(c8.rows) <= Top
    /\ AllianceCells(c9) /\ Tops!BestOf(c9) /\ Len(c9.rows) <= Top
    /\ c10 # None => UserCells(c10)
    /\ c11 # None => AllianceCells(c11)

LEMMA ListsKept ==
    ASSUME TopsLists, UNCHANGED <<c8, c9, c10, c11>>,
           c7'.pc = "asking" => c7.pc = "asking" /\ c7'.rows = c7.rows /\ c7'.was = c7.was
    PROVE  TopsLists'
<1>1. c7'.pc = "asking" => UsersRead(c7.rows, c7.was)' 
  BY DEF TopsLists, UsersRead
<1>2. UserCells(c8)' /\ Tops!BestOf(c8)' /\ AllianceCells(c9)' /\ Tops!BestOf(c9)'
  BY DEF TopsLists, UserCells, AllianceCells, Tops!BestOf
<1>3. (c10' # None => UserCells(c10)') /\ (c11' # None => AllianceCells(c11)')
  BY DEF TopsLists, UserCells, AllianceCells
<1> QED
  BY <1>1, <1>2, <1>3 DEF TopsLists

LEMMA VerifyOreTops ==
    ASSUME TopsTypes, BlocksCounted, NEW d \in Dogs, Tops!VerifyOre(d)
    PROVE  TopsTypes' /\ BlocksCounted'
<1> DEFINE rec == [dog |-> d, alliance |-> c3[d]]
<1>1. /\ c6' = Append(c6, rec) /\ c2' = [c2 EXCEPT ![d] = @ + 1] /\ Len(c6) < MaxLog
      /\ UNCHANGED <<c1, c3, c4, c5, c7, c12>>
  BY DEF Tops!VerifyOre, Tops!page
<1>2. c6 \in Seq(LogRecord) /\ rec \in LogRecord
  BY DEF TopsTypes, LogRecord
<1> HIDE DEF rec
<1>3. /\ Len(c6') = Len(c6) + 1 /\ Len(c6) \in Nat /\ c6' \in Seq(LogRecord)
      /\ c6'[Len(c6) + 1] = rec
      /\ \A i \in 1 .. Len(c6) : c6'[i] = c6[i]
  BY <1>1, <1>2
<1>4. TopsTypes'
  BY <1>1, <1>3, TopsBounds DEF TopsTypes
<1>5. rec.dog = d
  BY DEF rec
<1>6. ASSUME NEW x \in Dogs
      PROVE  MinedBy({x})' = IF x = d THEN MinedBy({x}) \cup {Len(c6) + 1} ELSE MinedBy({x})
  <2>1. \A i \in 1 .. Len(c6) + 1 : i \in 1 .. Len(c6) \/ i = Len(c6) + 1
    BY <1>3
  <2>2. 1 .. Len(c6) \subseteq 1 .. Len(c6) + 1 /\ Len(c6) + 1 \in 1 .. Len(c6) + 1
    BY <1>3
  <2> QED
    BY <1>3, <1>5, <2>1, <2>2 DEF MinedBy
<1>7. ASSUME NEW x \in Dogs
      PROVE  /\ IsFiniteSet(MinedBy({x})) /\ Cardinality(MinedBy({x})) \in Nat
             /\ Len(c6) + 1 \notin MinedBy({x})
  <2>1. IsFiniteSet(1 .. Len(c6)) /\ MinedBy({x}) \subseteq 1 .. Len(c6)
    BY <1>3, FS_Interval DEF MinedBy
  <2>2. Len(c6) + 1 \notin 1 .. Len(c6)
    BY <1>3
  <2> QED
    BY <2>1, <2>2, FS_Subset, FS_CardinalityType
<1>8. ASSUME NEW x \in Dogs PROVE c2'[x] = Cardinality(MinedBy({x})')
  <2>1. c2[x] = Cardinality(MinedBy({x}))
    BY DEF BlocksCounted
  <2>2. CASE x # d
    <3>1. c2'[x] = c2[x]
      BY <1>1, <2>2 DEF BlocksCounted
    <3> QED
      BY <1>6, <2>1, <2>2, <3>1
  <2>3. CASE x = d
    <3>1. c2'[x] = c2[x] + 1
      BY <1>1, <2>3 DEF BlocksCounted
    <3>2. PICK A : A = MinedBy({x})
      OBVIOUS
    <3>3. PICK n \in Nat : n = Len(c6) + 1
      BY <1>3
    <3>4. IsFiniteSet(A) /\ n \notin A
      BY <1>7, <3>2, <3>3
    <3>5. Cardinality(A \cup {n}) = Cardinality(A) + 1
      BY <3>4, FS_AddElement
    <3> QED
      BY <1>6, <2>1, <2>3, <3>1, <3>2, <3>3, <3>5
  <2> QED
    BY <2>2, <2>3
<1>9. c2' \in [Dogs -> Nat]
  BY <1>1 DEF BlocksCounted
<1>10. BlocksCounted'
  BY <1>8, <1>9 DEF BlocksCounted
<1> QED
  BY <1>4, <1>10

\* What leaves the log alone.
LEMMA BlocksKept ==
    ASSUME BlocksCounted, UNCHANGED <<c2, c6>>
    PROVE  BlocksCounted'
BY DEF BlocksCounted, MinedBy

LEMMA FiniteImage ==
    ASSUME NEW S, IsFiniteSet(S), NEW f
    PROVE  IsFiniteSet({f[x] : x \in S})
<1> DEFINE T == {f[x] : x \in S}
           g == [x \in S |-> f[x]]
<1>1. g \in Surjection(S, T)
  BY DEF Surjection
<1> QED
  BY <1>1, FS_Surjection

LEMMA CalcTops ==
    ASSUME TopsInv, Tops!CalcStart \/ Tops!CalcEnd
    PROVE  TopsInv'
<1>0. TopsTypes /\ BlocksCounted /\ TopsLists
  BY DEF TopsInv, TopsLists
<1>1. CASE Tops!CalcStart
  <2>1. /\ c7' = [pc |-> "asking", ask |-> {d \in Dogs : c4[d] = "ACTIVITY"},
                  rows |-> {Tops!UserRow(u) : u \in Tops!Users},
                  was |-> [u \in Tops!Users |-> Tops!Standing(Tops!DogsOf(u))]]
        /\ UNCHANGED <<c1, c2, c3, c4, c5, c6, c8, c9, c10, c11, c12>>
    BY <1>1 DEF Tops!CalcStart, Tops!dogs, Tops!published, Tops!page
  <2>2. PICK rows : rows = {Tops!UserRow(u) : u \in Tops!Users}
    OBVIOUS
  <2>3. PICK was : was = [u \in Tops!Users |-> Tops!Standing(Tops!DogsOf(u))]
    OBVIOUS
  <2>4. PICK ask \in SUBSET Dogs : ask = {d \in Dogs : c4[d] = "ACTIVITY"}
    OBVIOUS
  <2>5. c7' = [pc |-> "asking", ask |-> ask, rows |-> rows, was |-> was]
    BY <2>1, <2>2, <2>3, <2>4
  <2>6. UsersRead(rows, was)
    <3>1. IsFiniteSet(rows)
      <4>1. IsFiniteSet(Tops!Users)
        BY TopsBounds, FiniteImage DEF Tops!Users
      <4> DEFINE f == [u \in Tops!Users |-> Tops!UserRow(u)]
      <4>2. rows = {f[u] : u \in Tops!Users}
        BY <2>2
      <4> HIDE DEF f
      <4> QED
        BY <4>1, <4>2, FiniteImage
    <3>2. \A u : Tops!UserRow(u)[1] = u
      BY DEF Tops!UserRow
    <3>3. ASSUME NEW r \in rows, NEW key \in Tops!Columns
          PROVE  r[1] \in DOMAIN was /\ Tops!UserCell(r, key) = was[r[1]][key]
      <4>1. PICK u \in Tops!Users : r = Tops!UserRow(u)
        BY <2>2
      <4>2. r[1] = u /\ was[u] = Tops!Standing(Tops!DogsOf(u))
        BY <2>3, <3>2, <4>1
      <4> QED
        BY <1>0, <2>3, <4>1, <4>2, UserRowTrue
    <3>4. \A r \in rows : r[1] \in DOMAIN was
      BY <2>2, <2>3, <3>2
    <3>5. \A x \in DOMAIN was : \E r \in rows : r[1] = x
      BY <2>2, <2>3, <3>2
    <3> QED
      BY <3>1, <3>3, <3>4, <3>5 DEF UsersRead
  <2>7. TopsTypes'
    BY <1>0, <2>1, <2>5 DEF TopsTypes
  <2>8. c7'.rows = rows /\ c7'.was = was
    BY <2>5
  <2>9. UsersRead(c7.rows, c7.was)'
    BY <2>6, <2>8 DEF UsersRead
  <2>10. UserCells(c8)' /\ Tops!BestOf(c8)' /\ AllianceCells(c9)' /\ Tops!BestOf(c9)'
    BY <1>0, <2>1 DEF TopsLists, UserCells, AllianceCells, Tops!BestOf
  <2>11. (c10' # None => UserCells(c10)') /\ (c11' # None => AllianceCells(c11)')
    BY <1>0, <2>1 DEF TopsLists, UserCells, AllianceCells
  <2>12. BlocksCounted'
    BY <1>0, <2>1, BlocksKept
  <2> QED
    BY <1>0, <2>1, <2>7, <2>9, <2>10, <2>11, <2>12 DEF TopsInv, TopsLists
<1>2. CASE Tops!CalcEnd
  <2>1. /\ c7.pc = "asking" /\ c7' = Tops!NoCalc
        /\ UNCHANGED <<c1, c2, c3, c4, c5, c6, c10, c11, c12>>
    BY <1>2 DEF Tops!CalcEnd, Tops!dogs, Tops!page
  <2>2. PICK s \in Tops!Ranked(c7.rows, 6) : c8' = [rows |-> s, was |-> c7.was]
    BY <1>2 DEF Tops!CalcEnd
  <2>3. PICK rows : rows = {Tops!AllianceRow(a) : a \in RankedAlliances}
    OBVIOUS
  <2>4. PICK was : was = [a \in RankedAlliances |-> Tops!Standing(Tops!MembersOf(a))]
    OBVIOUS
  <2>5. PICK z \in Tops!Ranked(rows, 7) : c9' = [rows |-> z, was |-> was]
    BY <1>2, <2>3, <2>4 DEF Tops!CalcEnd
  <2>6. UsersRead(c7.rows, c7.was)
    BY <1>0, <2>1 DEF TopsLists
  <2>7. "BlockMined" \in Tops!Columns
    BY DEF Tops!Columns
  <2>8. PICK t : t = [rows |-> s, was |-> c7.was]
    OBVIOUS
  <2>9. UserCells(t) /\ Tops!BestOf(t) /\ Len(t.rows) <= Top
    <3>1. \A r : Tops!UserCell(r, "BlockMined") = r[6]
      BY DEF Tops!UserCell
    <3>2. \A r \in c7.rows : r[1] \in DOMAIN c7.was /\ r[6] = c7.was[r[1]].BlockMined
      BY <2>6, <2>7, <3>1 DEF UsersRead
    <3>3. /\ Tops!BestOf(t) /\ Len(t.rows) <= Top
          /\ \A i \in 1 .. Len(t.rows) : t.rows[i] \in c7.rows
      BY <2>6, <2>8, <3>2, RankedIs DEF UsersRead
    <3>4. t.was = c7.was
      BY <2>8
    <3>5. UserCells(t)
      BY <2>6, <3>3, <3>4 DEF UsersRead, UserCells
    <3> QED
      BY <3>3, <3>5
  <2>10. AlliancesRead(rows, was)
    <3>1. IsFiniteSet(rows)
      <4> DEFINE f == [a \in RankedAlliances |-> Tops!AllianceRow(a)]
      <4>1. rows = {f[a] : a \in RankedAlliances}
        BY <2>3
      <4> HIDE DEF f
      <4> QED
        BY <4>1, TopsBounds, FiniteImage
    <3>2. \A a : Tops!AllianceRow(a)[1] = a /\ Tops!AllianceRow(a)[2] = a
      BY DEF Tops!AllianceRow
    <3>3. ASSUME NEW r \in rows, NEW key \in Tops!Columns
          PROVE  Tops!AllianceCell(r, key) = was[r[2]][key]
      <4>1. PICK a \in RankedAlliances : r = Tops!AllianceRow(a)
        BY <2>3
      <4>2. r[2] = a /\ was[a] = Tops!Standing(Tops!MembersOf(a))
        BY <2>4, <3>2, <4>1
      <4> QED
        BY <1>0, <4>1, <4>2, AllianceRowTrue
    <3>4. \A r \in rows : r[1] \in DOMAIN was /\ r[2] = r[1]
      BY <2>3, <2>4, <3>2
    <3>5. \A x \in DOMAIN was : \E r \in rows : r[1] = x
      BY <2>3, <2>4, <3>2
    <3> QED
      BY <3>1, <3>3, <3>4, <3>5 DEF AlliancesRead
  <2>11. PICK v : v = [rows |-> z, was |-> was]
    OBVIOUS
  <2>12. AllianceCells(v) /\ Tops!BestOf(v) /\ Len(v.rows) <= Top
    <3>1. \A r : Tops!AllianceCell(r, "BlockMined") = r[7]
      BY DEF Tops!AllianceCell
    <3>2. \A r \in rows : r[1] \in DOMAIN was /\ r[7] = was[r[1]].BlockMined
      BY <2>7, <2>10, <3>1 DEF AlliancesRead
    <3>3. /\ Tops!BestOf(v) /\ Len(v.rows) <= Top
          /\ \A i \in 1 .. Len(v.rows) : v.rows[i] \in rows
      BY <2>10, <2>11, <3>2, RankedIs DEF AlliancesRead
    <3>4. v.was = was
      BY <2>11
    <3>5. AllianceCells(v)
      BY <2>10, <3>3, <3>4 DEF AlliancesRead, AllianceCells
    <3> QED
      BY <3>3, <3>5
  <2>13. c8' = t /\ c9' = v
    BY <2>2, <2>5, <2>8, <2>11
  <2>14. UserCells(c8)' /\ Tops!BestOf(c8)' /\ AllianceCells(c9)' /\ Tops!BestOf(c9)'
    BY <2>9, <2>12, <2>13 DEF UserCells, AllianceCells, Tops!BestOf
  <2>15. (c10' # None => UserCells(c10)') /\ (c11' # None => AllianceCells(c11)')
    BY <1>0, <2>1 DEF TopsLists, UserCells, AllianceCells
  <2>16. DOMAIN c7' = {"pc", "ask", "rows", "was"} /\ c7'.pc = "idle" /\ c7'.ask = {}
    BY <2>1 DEF Tops!NoCalc
  <2>17. TopsTypes' /\ BlocksCounted'
    BY <1>0, <2>1, <2>16, BlocksKept DEF TopsTypes
  <2> QED
    BY <2>9, <2>12, <2>13, <2>14, <2>15, <2>16, <2>17 DEF TopsInv
<1> QED
  BY <1>1, <1>2

LEMMA TopsStep ==
    ASSUME TopsInv, Tops!Next
    PROVE  TopsInv'
<1>0. TopsTypes /\ BlocksCounted /\ TopsLists
  BY DEF TopsInv, TopsLists
<1>1. ASSUME TopsTypes', BlocksCounted', TopsLists' PROVE TopsInv'
  BY <1>1 DEF TopsInv, TopsLists
<1> USE DEF Tops!dogs, Tops!published, Tops!page
<1>2. ASSUME NEW d \in Dogs,
             \/ Tops!VerifyOre(d) \/ Tops!DogLevelUpgrade(d) \/ Tops!JoinAlliance(d)
             \/ Tops!QuitAlliance(d) \/ Tops!DogStops(d)
      PROVE  TopsInv'
  <2>1. UNCHANGED <<c7, c8, c9, c10, c11, c12>>
    BY <1>2 DEF Tops!VerifyOre, Tops!DogLevelUpgrade, Tops!JoinAlliance, Tops!QuitAlliance,
                Tops!DogStops
  <2>2. TopsLists'
    BY <1>0, <2>1, ListsKept
  <2>3. CASE Tops!VerifyOre(d)
    BY <1>0, <1>1, <2>2, <2>3, VerifyOreTops
  <2>4. CASE Tops!DogLevelUpgrade(d)
    <3>1. PICK i \in 1 .. Len(Tops!Levels) - 1 : c1' = [c1 EXCEPT ![d] = Tops!Levels[i + 1]]
      BY <2>4 DEF Tops!DogLevelUpgrade
    <3>2. UNCHANGED <<c2, c3, c4, c5, c6>>
      BY <2>4 DEF Tops!DogLevelUpgrade
    <3>3. Tops!Levels[i + 1] \in Tops!Elements(Tops!Levels)
      <4>1. Len(Tops!Levels) = 4 /\ i + 1 \in 1 .. 4
        BY <3>1 DEF Tops!Levels
      <4> QED
        BY <4>1 DEF Tops!Elements
    <3>4. TopsTypes'
      BY <1>0, <2>1, <3>1, <3>2, <3>3 DEF TopsTypes
    <3> QED
      BY <1>0, <1>1, <2>2, <3>2, <3>4, BlocksKept
  <2>5. CASE Tops!JoinAlliance(d)
    <3>1. PICK a \in RankedAlliances : c3' = [c3 EXCEPT ![d] = a]
      BY <2>5 DEF Tops!JoinAlliance
    <3>2. UNCHANGED <<c1, c2, c4, c5, c6>>
      BY <2>5 DEF Tops!JoinAlliance
    <3>3. TopsTypes'
      BY <1>0, <2>1, <3>1, <3>2 DEF TopsTypes
    <3> QED
      BY <1>0, <1>1, <2>2, <3>2, <3>3, BlocksKept
  <2>6. CASE Tops!QuitAlliance(d)
    <3>1. c3' = [c3 EXCEPT ![d] = None] /\ UNCHANGED <<c1, c2, c4, c5, c6>>
      BY <2>6 DEF Tops!QuitAlliance
    <3>2. TopsTypes'
      BY <1>0, <2>1, <3>1 DEF TopsTypes
    <3> QED
      BY <1>0, <1>1, <2>2, <3>1, <3>2, BlocksKept
  <2>7. CASE Tops!DogStops(d)
    <3>1. c5' = [c5 EXCEPT ![d] = "STOP"] /\ UNCHANGED <<c1, c2, c3, c4, c6>>
      BY <2>7 DEF Tops!DogStops
    <3>2. TopsTypes'
      BY <1>0, <2>1, <3>1 DEF TopsTypes
    <3> QED
      BY <1>0, <1>1, <2>2, <3>1, <3>2, BlocksKept
  <2> QED
    BY <1>2, <2>3, <2>4, <2>5, <2>6, <2>7
<1>3. CASE Tops!CalcStart \/ Tops!CalcEnd
  BY <1>3, CalcTops
<1>4. CASE Tops!DogInfo
  <2>1. PICK d \in c7.ask :
          /\ c7' = [c7 EXCEPT !.ask = @ \ {d}]
          /\ \/ UNCHANGED <<c4, c3>>
             \/ c4' = [c4 EXCEPT ![d] = "STOP"] /\ c3' = [c3 EXCEPT ![d] = None]
    BY <1>4 DEF Tops!DogInfo
  <2>2. UNCHANGED <<c1, c2, c5, c6, c8, c9, c10, c11, c12>>
    BY <1>4 DEF Tops!DogInfo
  <2>3. /\ c7'.pc = c7.pc /\ c7'.rows = c7.rows /\ c7'.was = c7.was
        /\ c7'.ask \subseteq Dogs /\ DOMAIN c7' = {"pc", "ask", "rows", "was"}
    BY <1>0, <2>1 DEF TopsTypes
  <2>4. c3' \in [Dogs -> RankedAlliances \cup {None}] /\ c4' \in [Dogs -> {"ACTIVITY", "STOP"}]
    BY <1>0, <2>1 DEF TopsTypes
  <2>5. TopsTypes'
    BY <1>0, <2>2, <2>3, <2>4 DEF TopsTypes
  <2> QED
    BY <1>0, <1>1, <2>2, <2>3, <2>5, ListsKept, BlocksKept
<1>5. CASE Tops!Mount \/ Tops!ReqTopUser \/ Tops!ReqTopAlliance
  <2>1. UNCHANGED <<c1, c2, c3, c4, c5, c6, c7, c8, c9>>
    BY <1>5 DEF Tops!Mount, Tops!ReqTopUser, Tops!ReqTopAlliance
  <2>2. c12' \in [{"user", "alliance"} -> {"idle", "asked"}]
    <3>1. CASE Tops!Mount
      BY <3>1 DEF Tops!Mount
    <3>2. CASE Tops!ReqTopUser
      BY <1>0, <3>2 DEF Tops!ReqTopUser, TopsTypes
    <3>3. CASE Tops!ReqTopAlliance
      BY <1>0, <3>3 DEF Tops!ReqTopAlliance, TopsTypes
    <3> QED
      BY <1>5, <3>1, <3>2, <3>3
  <2>3. c10' \in {None, c8, c10} /\ c11' \in {None, c9, c11}
    BY <1>5 DEF Tops!Mount, Tops!ReqTopUser, Tops!ReqTopAlliance
  <2>4. c10' # None => UserCells(c10)'
    <3>1. \A t : t \in {c8, c10} => (t # None => UserCells(t))
      BY <1>0 DEF TopsLists
    <3>2. PICK t : t = c10'
      OBVIOUS
    <3> QED
      BY <2>3, <3>1, <3>2 DEF UserCells
  <2>5. c11' # None => AllianceCells(c11)'
    <3>1. \A t : t \in {c9, c11} => (t # None => AllianceCells(t))
      BY <1>0 DEF TopsLists
    <3>2. PICK t : t = c11'
      OBVIOUS
    <3> QED
      BY <2>3, <3>1, <3>2 DEF AllianceCells
  <2>6. UsersRead(c7.rows, c7.was) => UsersRead(c7.rows, c7.was)'
    BY <2>1 DEF UsersRead
  <2>7. UserCells(c8)' /\ Tops!BestOf(c8)' /\ AllianceCells(c9)' /\ Tops!BestOf(c9)'
    BY <1>0, <2>1 DEF TopsLists, UserCells, AllianceCells, Tops!BestOf
  <2>8. TopsTypes' /\ BlocksCounted'
    BY <1>0, <2>1, <2>2, BlocksKept DEF TopsTypes
  <2> QED
    BY <1>0, <2>1, <2>4, <2>5, <2>6, <2>7, <2>8 DEF TopsInv, TopsLists
<1> QED
  BY <1>2, <1>3, <1>4, <1>5 DEF Tops!Next

LEMMA TopsMean ==
    ASSUME TopsInv
    PROVE  Tops!UserCellsTrue /\ Tops!AllianceCellsTrue /\ Tops!TopIsBest
BY DEF TopsInv, UserCells, AllianceCells, Tops!UserCellsTrue, Tops!AllianceCellsTrue,
       Tops!TopIsBest

LEMMA TopsHold == Spec => [](open = "tops" => TopsInv)
<1> DEFINE Inv == open = "tops" => TopsInv
<1>1. Init => Inv
  BY TopsInit DEF Init
<1>2. Inv /\ [Next]_state => Inv'
  <2> SUFFICES ASSUME open = "tops", TopsInv, [Next]_state PROVE TopsInv'
    BY StaysOpen
  <2>1. Tops!Next \/ UNCHANGED <<c1, c2, c3, c4, c5, c6, c7, c8, c9, c10, c11, c12>>
    BY DEF Next, state
  <2>2. CASE UNCHANGED <<c1, c2, c3, c4, c5, c6, c7, c8, c9, c10, c11, c12>>
    <3>1. TopsTypes /\ BlocksCounted /\ TopsLists
      BY DEF TopsInv, TopsLists
    <3>2. TopsTypes'
      BY <2>2, <3>1 DEF TopsTypes
    <3>3. BlocksCounted'
      BY <2>2, <3>1, BlocksKept
    <3>4. TopsLists'
      BY <2>2, <3>1, ListsKept
    <3> QED
      BY <3>2, <3>3, <3>4 DEF TopsInv, TopsLists
  <2> QED
    BY <2>1, <2>2, TopsStep
<1> QED
  BY <1>1, <1>2, PTL DEF Spec

(***************************************************************************)
(* The pages of the log.  A page is a run of heights, counted down from    *)
(* the newest block; the pages of one log share none.                      *)
(***************************************************************************)
LEMMA PagesBounds ==
    /\ PageLimit \in Nat \ {0} /\ RowsOptions \subseteq Nat \ {0} /\ FirstRows \in RowsOptions
    /\ MaxBlocks \in Nat /\ MaxTurns \in Nat \ {0} /\ PageFailures \in Nat /\ None \notin Nat
<1>1. Blocks!PagesAssumption
  BY PartsAssumption DEF PartsAssumption
<1> QED
  BY <1>1 DEF Blocks!PagesAssumption

\* Where a page of the log of n ends, as an index of the window.
PageEnd(n, start, limit) ==
    IF start + limit >= Blocks!Lesser(n, PageLimit)
    THEN Blocks!Lesser(n, PageLimit) - 1 ELSE start + limit

LEMMA LesserIs ==
    ASSUME NEW n \in Nat
    PROVE  /\ Blocks!Lesser(n, PageLimit) \in Nat
           /\ Blocks!Lesser(n, PageLimit) <= n /\ Blocks!Lesser(n, PageLimit) <= PageLimit
           /\ Blocks!Lesser(n, PageLimit) \in {n, PageLimit}
           /\ Blocks!Window(n) \in Seq(Nat)
           /\ Len(Blocks!Window(n)) = Blocks!Lesser(n, PageLimit)
           /\ \A i \in 1 .. Blocks!Lesser(n, PageLimit) : Blocks!Window(n)[i] = n + 1 - i
<1> DEFINE L == Blocks!Lesser(n, PageLimit)
<1>1. L \in Nat /\ L <= n /\ L <= PageLimit /\ L \in {n, PageLimit}
  BY PagesBounds DEF Blocks!Lesser
<1>2. Blocks!Window(n) = [i \in 1 .. L |-> n + 1 - i]
  BY DEF Blocks!Window
<1> HIDE DEF L
<1>3. \A i \in 1 .. L : n + 1 - i \in Nat
  BY <1>1
<1>4. Blocks!Window(n) \in [1 .. L -> Nat]
  BY <1>2, <1>3
<1>5. Blocks!Window(n) \in Seq(Nat) /\ Len(Blocks!Window(n)) = L
  BY <1>1, <1>4
<1> QED
  BY <1>1, <1>2, <1>5 DEF L

\* The k heights from m down.
Down(m, k) == [i \in 1 .. k |-> m + 1 - i]

LEMMA DownIs ==
    ASSUME NEW m \in Int, NEW k \in Nat, k <= m \/ k = 0
    PROVE  /\ Down(m, k) \in Seq(Nat) /\ Len(Down(m, k)) = k
           /\ \A i \in 1 .. k : Down(m, k)[i] = m + 1 - i
           /\ k = 0 => Down(m, k) = <<>>
<1>1. \A i \in 1 .. k : m + 1 - i \in Nat
  OBVIOUS
<1>2. Down(m, k) = [i \in 1 .. k |-> m + 1 - i]
  BY DEF Down
<1>3. Down(m, k) \in [1 .. k -> Nat]
  BY <1>1, <1>2
<1>4. Down(m, k) \in Seq(Nat) /\ Len(Down(m, k)) = k
  BY <1>3
<1>5. ASSUME k = 0 PROVE Down(m, k) = <<>>
  BY <1>4, <1>5
<1> QED
  BY <1>2, <1>4, <1>5

\* How many rows a page has.
PageLen(n, start, limit) ==
    IF PageEnd(n, start, limit) > start THEN PageEnd(n, start, limit) - start ELSE 0

\* The rows of a page.
LEMMA PageIs ==
    ASSUME NEW n \in Nat, NEW start \in Nat, NEW limit \in Nat \ {0}
    PROVE  /\ PageLen(n, start, limit) \in Nat
           /\ PageEnd(n, start, limit) \in Int
           /\ PageLen(n, start, limit) <= limit
           /\ \/ PageLen(n, start, limit) = 0
              \/ PageLen(n, start, limit) + start < Blocks!Lesser(n, PageLimit)
           /\ PageEnd(n, start, limit) <= start + limit
           /\ PageEnd(n, start, limit) < Blocks!Lesser(n, PageLimit)
           /\ Blocks!GetRecordRev(n, start, limit) = Down(n - start, PageLen(n, start, limit))
<1> DEFINE page == Blocks!GetRecordRev(n, start, limit)
           L == Blocks!Lesser(n, PageLimit)
           e == PageEnd(n, start, limit)
           k == PageLen(n, start, limit)
           w == Blocks!Window(n)
<1>1. /\ L \in Nat /\ L <= n /\ L <= PageLimit /\ w \in Seq(Nat) /\ Len(w) = L
      /\ \A i \in 1 .. L : w[i] = n + 1 - i
  BY LesserIs
<1>2. e \in Int /\ e = IF start + limit >= L THEN L - 1 ELSE start + limit
  BY <1>1 DEF PageEnd
<1>3. e <= start + limit /\ e < L
  BY <1>1, <1>2
<1>4. page = IF start > PageLimit \/ start >= Len(w) THEN <<>>
             ELSE SubSeq(w, start + 1, IF start + limit >= Len(w) THEN Len(w) - 1 ELSE start + limit)
  BY DEF Blocks!GetRecordRev
<1>5. page = IF start > PageLimit \/ start >= L THEN <<>> ELSE SubSeq(w, start + 1, e)
  BY <1>1, <1>2, <1>4
<1>6. k = IF e > start THEN e - start ELSE 0
  BY DEF PageLen
<1> HIDE DEF page, L, e, w, k
<1>7. k \in Nat /\ k <= limit /\ (k = 0 \/ k + start < L)
  BY <1>1, <1>2, <1>3, <1>6
<1>8. page = Down(n - start, k)
  <2>1. CASE e <= start
    <3>1. start + 1 > e
      BY <1>2, <2>1
    <3>2. SubSeq(w, start + 1, e) = <<>>
      BY <1>1, <1>2, <3>1
    <3>3. page = <<>> /\ k = 0
      BY <1>2, <1>5, <1>6, <2>1, <3>2
    <3>4. PICK m \in Int : m = n - start
      OBVIOUS
    <3> QED
      BY <1>7, <3>3, <3>4, DownIs
  <2>2. CASE e > start
    <3>1. start < L /\ ~(start > PageLimit) /\ ~(start >= L)
      BY <1>1, <1>2, <1>3, <2>2, PagesBounds
    <3>2. page = SubSeq(w, start + 1, e)
      BY <1>5, <3>1
    <3>3. start + 1 \in 1 .. Len(w) /\ e \in 1 .. Len(w) /\ start + 1 <= e
      BY <1>1, <1>2, <1>3, <2>2, <3>1
    <3>4. PICK a \in Nat : a = start + 1
      OBVIOUS
    <3>5. a \in 1 .. Len(w) /\ a <= e
      BY <3>3, <3>4
    <3>6. /\ SubSeq(w, a, e) \in Seq(Nat) /\ Len(SubSeq(w, a, e)) = e - a + 1
          /\ \A i \in 1 .. e - a + 1 : SubSeq(w, a, e)[i] = w[a + i - 1]
      <4>1. a \in Int /\ e \in Int /\ a <= e /\ \A i \in a .. e : w[i] \in Nat
        <5>1. \A i \in a .. e : i \in 1 .. Len(w)
          BY <1>1, <3>3, <3>5
        <5> QED
          BY <1>1, <1>2, <3>5, <5>1
      <4>2. /\ SubSeq(w, a, e) \in Seq(Nat)
            /\ Len(SubSeq(w, a, e)) = IF a <= e THEN e - a + 1 ELSE 0
            /\ \A i \in 1 .. e - a + 1 : SubSeq(w, a, e)[i] = w[a + i - 1]
        BY <4>1, SubSeqProperties
      <4> QED
        BY <4>1, <4>2
    <3>7. e - a + 1 = k
      BY <1>2, <1>6, <2>2, <3>4
    <3>8. page \in [1 .. k -> Nat]
      <4>1. page \in Seq(Nat) /\ Len(page) = k
        BY <3>2, <3>4, <3>6, <3>7
      <4> QED
        BY <4>1
    <3>9. ASSUME NEW i \in 1 .. k PROVE page[i] = (n - start) + 1 - i
      <4>1. page[i] = w[a + i - 1]
        BY <3>2, <3>4, <3>6, <3>7
      <4>2. a + i - 1 = start + i /\ start + i \in 1 .. L
        BY <1>1, <1>3, <1>7, <3>4
      <4> QED
        BY <1>1, <4>1, <4>2
    <3> QED
      BY <3>8, <3>9 DEF Down
  <2> QED
    BY <1>2, <2>1, <2>2
<1> QED
  BY <1>2, <1>3, <1>7, <1>8 DEF page, L, e, k

\* Multiples of r grow with their number.
LEMMA Multiples ==
    ASSUME NEW r \in Nat \ {0}, NEW a \in Nat, NEW b \in Nat
    PROVE  /\ a * r \in Nat /\ (a + 1) * r = a * r + r
           /\ a <= b => a * r <= b * r
           /\ a < b => a * r + r <= b * r
           /\ a <= a * r
<1>1. \A x, y \in Nat : x <= y => x * r <= y * r
  <2> SUFFICES ASSUME NEW x \in Nat, NEW y \in Nat, x <= y PROVE x * r <= y * r
    OBVIOUS
  <2>1. y - x \in Nat /\ (y - x) * r \in Nat
    OBVIOUS
  <2>2. y * r = x * r + (y - x) * r
    OBVIOUS
  <2> QED
    BY <2>1, <2>2
<1>2. a * r \in Nat /\ (a + 1) * r = a * r + r
  OBVIOUS
<1>3. a < b => (a + 1) * r <= b * r
  BY <1>1
<1>4. a <= a * r
  <2>1. r - 1 \in Nat /\ a * (r - 1) \in Nat /\ a * r = a + a * (r - 1)
    OBVIOUS
  <2> QED
    BY <2>1
<1> QED
  BY <1>1, <1>2, <1>3, <1>4

LEMMA Quotient ==
    ASSUME NEW r \in Nat \ {0}, NEW d \in Nat
    PROVE  d \div r \in Nat /\ (d \div r) * r <= d /\ d < (d \div r) * r + r
<1>1. d \div r \in Nat /\ d % r \in 0 .. r - 1 /\ d = (d \div r) * r + (d % r)
  OBVIOUS
<1>2. (d \div r) * r \in Nat
  BY <1>1
<1> QED
  BY <1>1, <1>2

LEMMA PagesCounts == \A S : Blocks!Cardinality(S) = Cardinality(S)
BY DEF Blocks!Cardinality, Cardinality

LEMMA PagesCover ==
    ASSUME c1 \in 0 .. MaxBlocks
    PROVE  Blocks!PagesCoverWindow
<1> SUFFICES ASSUME NEW r \in RowsOptions
             PROVE  LET pageOf[p \in Nat] == Blocks!GetRecordRev(c1, p * r, r)
                        At(i) == {p \in 0 .. MaxBlocks :
                                    \E k \in 1 .. Len(pageOf[p]) : pageOf[p][k] = i}
                        w == Blocks!Window(c1)
                    IN  /\ \A k \in 1 .. Len(w) :
                             Blocks!Cardinality(At(w[k])) = IF k = Len(w) THEN 0 ELSE 1
                        /\ \A p \in 0 .. MaxBlocks : Len(pageOf[p]) <= r
  BY DEF Blocks!PagesCoverWindow
<1> DEFINE pageOf[p \in Nat] == Blocks!GetRecordRev(c1, p * r, r)
           At(i) == {p \in 0 .. MaxBlocks : \E k \in 1 .. Len(pageOf[p]) : pageOf[p][k] = i}
           w == Blocks!Window(c1)
           L == Blocks!Lesser(c1, PageLimit)
           e(p) == PageEnd(c1, p * r, r)
<1>1. r \in Nat \ {0} /\ c1 \in Nat /\ c1 <= MaxBlocks /\ MaxBlocks \in Nat
  BY PagesBounds
<1>2. L \in Nat /\ L <= c1 /\ Len(w) = L /\ \A k \in 1 .. L : w[k] = c1 + 1 - k
  BY <1>1, LesserIs
<1>3. ASSUME NEW p \in Nat
      PROVE  /\ p * r \in Nat /\ e(p) \in Int
             /\ e(p) = IF p * r + r >= L THEN L - 1 ELSE p * r + r
             /\ e(p) <= p * r => pageOf[p] = <<>>
             /\ e(p) > p * r =>
                  /\ Len(pageOf[p]) = e(p) - p * r
                  /\ \A i \in 1 .. e(p) - p * r : pageOf[p][i] = c1 + 1 - (p * r + i)
             /\ e(p) <= p * r + r /\ e(p) < L
  <2>1. p * r \in Nat
    BY <1>1, Multiples
  <2>2. pageOf[p] = Blocks!GetRecordRev(c1, p * r, r)
    OBVIOUS
  <2>3. e(p) = IF p * r + r >= L THEN L - 1 ELSE p * r + r
    BY DEF PageEnd
  <2>4. PICK s \in Nat : s = p * r
    BY <2>1
  <2>5. PICK n \in Nat : n = c1
    BY <1>1
  <2>6. PICK pg, z, k : /\ pg = Blocks!GetRecordRev(n, s, r) /\ z = PageEnd(n, s, r)
                          /\ k = PageLen(n, s, r)
    OBVIOUS
  <2>7. /\ k \in Nat /\ z \in Int /\ z <= s + r /\ z < Blocks!Lesser(n, PageLimit)
        /\ k = IF z > s THEN z - s ELSE 0
        /\ k = 0 \/ k + s < Blocks!Lesser(n, PageLimit)
        /\ pg = Down(n - s, k)
    <3>1. r \in Nat \ {0}
      BY <1>1
    <3>2. k = IF z > s THEN z - s ELSE 0
      BY <2>6 DEF PageLen
    <3> HIDE DEF pageOf, w, L, At, e
    <3>3. \A l \in Nat \ {0} :
             /\ PageLen(n, s, l) \in Nat /\ PageEnd(n, s, l) \in Int /\ PageEnd(n, s, l) <= s + l
             /\ PageEnd(n, s, l) < Blocks!Lesser(n, PageLimit)
      BY PageIs
    <3>4. PageLen(n, s, r) = 0 \/ PageLen(n, s, r) + s < Blocks!Lesser(n, PageLimit)
      BY <3>1, PageIs
    <3>5. Blocks!GetRecordRev(n, s, r) = Down(n - s, PageLen(n, s, r))
      BY <3>1, PageIs
    <3> QED
      BY <2>6, <3>1, <3>2, <3>3, <3>4, <3>5
  <2>8. pageOf[p] = pg /\ e(p) = z /\ L = Blocks!Lesser(n, PageLimit)
    BY <2>2, <2>4, <2>5, <2>6
  <2> HIDE DEF pageOf, L, e
  <2>9. PICK m \in Int : m = n - s
    OBVIOUS
  <2>10. k <= m \/ k = 0
    BY <1>2, <2>5, <2>7, <2>8, <2>9
  <2>11. Len(pg) = k /\ (k = 0 => pg = <<>>) /\ \A i \in 1 .. k : pg[i] = n + 1 - (s + i)
    <3>1. /\ Len(Down(m, k)) = k /\ (k = 0 => Down(m, k) = <<>>)
          /\ \A i \in 1 .. k : Down(m, k)[i] = m + 1 - i
      BY <2>7, <2>10, DownIs
    <3> QED
      BY <2>7, <2>9, <3>1
  <2> QED
    BY <2>3, <2>4, <2>5, <2>7, <2>8, <2>11
<1> HIDE DEF w, L, e
<1>4. ASSUME NEW p \in 0 .. MaxBlocks PROVE Len(pageOf[p]) <= r
  <2>1. p \in Nat
    BY <1>1
  <2> HIDE DEF pageOf
  <2>2. CASE e(p) <= p * r
    BY <1>1, <1>3, <2>1, <2>2
  <2>3. CASE e(p) > p * r
    <3>1. PICK s \in Nat : s = p * r
      BY <1>3, <2>1
    <3>2. Len(pageOf[p]) = e(p) - s /\ e(p) \in Int /\ e(p) <= s + r
      BY <1>3, <2>1, <2>3, <3>1
    <3> QED
      BY <1>1, <3>1, <3>2
  <2> QED
    BY <1>3, <2>1, <2>2, <2>3
\* Block k of the window is on page p just if k lies between its ends.
<1>5. ASSUME NEW k \in 1 .. L, NEW p \in Nat
      PROVE  (\E i \in 1 .. Len(pageOf[p]) : pageOf[p][i] = w[k]) <=> (p * r < k /\ k <= e(p))
  <2> HIDE DEF pageOf
  <2>1. w[k] = c1 + 1 - k /\ k \in Nat
    BY <1>2
  <2>2. p * r \in Nat /\ e(p) \in Int
    BY <1>3
  <2>3. CASE e(p) <= p * r
    <3>1. pageOf[p] = <<>>
      BY <1>3, <2>3
    <3>2. ~(p * r < k /\ k <= e(p))
      BY <2>1, <2>2, <2>3
    <3> QED
      BY <3>1, <3>2
  <2>4. CASE e(p) > p * r
    <3>1. Len(pageOf[p]) = e(p) - p * r
          /\ \A i \in 1 .. e(p) - p * r : pageOf[p][i] = c1 + 1 - (p * r + i)
      BY <1>3, <2>4
    <3>2. ASSUME NEW i \in 1 .. Len(pageOf[p]), pageOf[p][i] = w[k]
          PROVE  p * r < k /\ k <= e(p)
      <4>1. c1 + 1 - (p * r + i) = c1 + 1 - k /\ i \in 1 .. e(p) - p * r
        BY <2>1, <3>1, <3>2
      <4> QED
        BY <1>1, <2>1, <2>2, <4>1
    <3>3. ASSUME p * r < k, k <= e(p)
          PROVE  \E i \in 1 .. Len(pageOf[p]) : pageOf[p][i] = w[k]
      <4>1. k - p * r \in 1 .. e(p) - p * r
        BY <2>1, <2>2, <3>3
      <4>2. pageOf[p][k - p * r] = c1 + 1 - (p * r + (k - p * r))
        BY <3>1, <4>1
      <4>3. pageOf[p][k - p * r] = w[k]
        BY <1>1, <2>1, <2>2, <4>2
      <4> QED
        BY <3>1, <4>1, <4>3
    <3> QED
      BY <3>2, <3>3
  <2> QED
    BY <2>2, <2>3, <2>4
<1>6. ASSUME NEW k \in 1 .. L
      PROVE  Blocks!Cardinality(At(w[k])) = IF k = L THEN 0 ELSE 1
  <2>1. At(w[k]) = {p \in 0 .. MaxBlocks : p * r < k /\ k <= e(p)}
    <3>1. \A p \in 0 .. MaxBlocks : p \in Nat
      BY <1>1
    <3>2. At(w[k]) = {p \in 0 .. MaxBlocks :
                        \E i \in 1 .. Len(pageOf[p]) : pageOf[p][i] = w[k]}
      OBVIOUS
    <3> HIDE DEF At, pageOf
    <3> QED
      BY <1>5, <3>1, <3>2
  <2> HIDE DEF At, pageOf
  <2>2. CASE k = L
    <3>1. At(w[k]) = {}
      <4>1. ASSUME NEW p \in 0 .. MaxBlocks PROVE ~(k <= e(p))
        <5>1. p \in Nat
          BY <1>1
        <5> QED
          BY <1>2, <1>3, <2>2, <5>1
      <4> QED
        BY <2>1, <4>1
    <3> QED
      BY <2>2, <3>1, FS_EmptySet, PagesCounts
  <2>3. CASE k # L
    <3>1. PICK d \in Nat : d = k - 1
      BY <1>2
    <3> DEFINE q == d \div r
    <3>2. q \in Nat /\ q * r <= d /\ d < q * r + r /\ q * r \in Nat
      BY <1>1, <3>1, Quotient, Multiples
    <3> HIDE DEF q
    <3>3. q <= q * r
      BY <1>1, <3>2, Multiples
    <3>4. q \in 0 .. MaxBlocks
      <4>1. d < MaxBlocks
        BY <1>1, <1>2, <3>1
      <4> QED
        BY <1>1, <3>1, <3>2, <3>3, <4>1
    <3>5. q * r < k /\ k <= e(q)
      <4>1. q * r < k /\ k <= q * r + r /\ k <= L - 1
        BY <1>1, <1>2, <2>3, <3>1, <3>2
      <4> QED
        BY <1>3, <3>2, <4>1
    <3>6. ASSUME NEW p \in 0 .. MaxBlocks, p * r < k, k <= e(p) PROVE p = q
      <4>1. p \in Nat /\ p * r \in Nat
        BY <1>1, Multiples
      <4>2. p * r <= d /\ d < p * r + r
        <5>1. k <= p * r + r
          BY <1>1, <1>2, <1>3, <3>6, <4>1
        <5> QED
          BY <1>1, <3>1, <3>6, <4>1, <5>1
      <4>3. ~(p < q)
        <5> SUFFICES ASSUME p < q PROVE FALSE
          OBVIOUS
        <5>1. p * r + r <= q * r
          BY <1>1, <3>2, <4>1, Multiples
        <5> QED
          BY <1>1, <3>1, <3>2, <4>1, <4>2, <5>1
      <4>4. ~(q < p)
        <5> SUFFICES ASSUME q < p PROVE FALSE
          OBVIOUS
        <5>1. q * r + r <= p * r
          BY <1>1, <3>2, <4>1, Multiples
        <5> QED
          BY <1>1, <3>1, <3>2, <4>1, <4>2, <5>1
      <4> QED
        BY <3>2, <4>1, <4>3, <4>4
    <3>7. At(w[k]) = {q}
      BY <2>1, <3>4, <3>5, <3>6
    <3> QED
      BY <2>3, <3>7, FS_Singleton, PagesCounts
  <2> QED
    BY <2>2, <2>3
<1>7. \A k \in 1 .. Len(w) : Blocks!Cardinality(At(w[k])) = IF k = Len(w) THEN 0 ELSE 1
  <2> HIDE DEF At
  <2> QED
    BY <1>2, <1>6
<1>8. \A p \in 0 .. MaxBlocks : Len(pageOf[p]) <= r
  <2> HIDE DEF pageOf
  <2> QED
    BY <1>4
<1> QED
  BY <1>7, <1>8 DEF w

(***************************************************************************)
(* The invariant of the tab.  Rows are a run of heights.  Queries bear     *)
(* different numbers, and the last one is for the page and the number of   *)
(* rows shown beside the table.                                            *)
(***************************************************************************)
PageQuery == [pc : {"idle", "asked", "answered"}, no : Nat, start : Nat, limit : Nat, rows : Seq(Nat)]

PagesTypes ==
    /\ c1 \in 0 .. MaxBlocks /\ c2 \subseteq {"index", "decimals"}
    /\ c3 \in (0 .. c1) \cup {None} /\ c4 \in {Decimals, DefaultDecimals}
    /\ c5 \in Nat /\ c6 \in RowsOptions
    /\ c8 \in [Requests -> PageQuery]
    /\ c9 \in 1 .. MaxTurns /\ c10 \in 0 .. PageFailures
    /\ c12 \in 0 .. c9 /\ c13 \in BOOLEAN

Falling(rows, n) == \E m \in 0 .. n : \E k \in 0 .. n : (k < m \/ k = 0) /\ rows = Down(m, k)

RowsFall == Falling(c7, c1) /\ \A q \in Requests : Falling(c8[q].rows, c1)

NumbersTrue ==
    /\ \A q \in Requests :
         IF c8[q].pc = "idle" THEN c8[q].no = 0 /\ c8[q].limit = 0
         ELSE /\ c8[q].limit \in RowsOptions /\ c8[q].no \in 1 .. c9
              /\ c8[q].no = c9 => c8[q].start = c5 * c6 /\ c8[q].limit = c6
    /\ \A q, x \in Requests :
         c8[q].pc # "idle" /\ c8[x].pc # "idle" /\ c8[q].no = c8[x].no => q = x
    /\ c11 # None => /\ c11.no \in 1 .. c9
                     /\ c11.no = c9 => c11.start = c5 * c6 /\ c11.limit = c6

RangeTrue ==
    /\ "index" \in c2 => c3 = None
    /\ c5 = 0 \/ c5 * c6 < Blocks!Count

(***************************************************************************)
(* The steps, by what they do to these.                                    *)
(***************************************************************************)
PagesShown == <<c1, c5, c6, c7, c8, c9, c11, c12, c13, c14>>

MountStep ==
    /\ c2' \subseteq c2 /\ c3' \in {c3, c1} /\ c4' \in {c4, Decimals} /\ c10' \in 0 .. PageFailures
    /\ c3' # c3 => "index" \in c2 /\ "index" \notin c2'
    /\ UNCHANGED PagesShown

AskStep(p, r, q) ==
    /\ p \in Nat /\ r \in RowsOptions /\ q \in Requests /\ (p = 0 \/ p * r < Blocks!Count)
    /\ c5' = p /\ c6' = r /\ c9 < MaxTurns /\ c9' = c9 + 1
    /\ c8[q].pc = "idle"
    /\ c8' = [c8 EXCEPT ![q] = [pc |-> "asked", no |-> c9 + 1, start |-> p * r, limit |-> r,
                                rows |-> <<>>]]
    /\ \/ c14' = None \/ c14' = {}
       \/ c14' = c14 /\ r = c6 /\ p = c5 + 1 /\ c11 # None /\ c11.no = c9
    /\ UNCHANGED <<c1, c2, c3, c4, c7, c10, c11, c12, c13>>

LEMMA CountIs ==
    ASSUME PagesTypes
    PROVE  Blocks!Count \in Nat
<1>1. c1 \in Nat /\ c3 \in (0 .. c1) \cup {None}
  BY PagesBounds DEF PagesTypes
<1> QED
  BY <1>1 DEF Blocks!Count

\* A page of the phone's list starts within the count.
LEMMA Offered ==
    ASSUME NEW r \in Nat \ {0}, NEW n \in Nat, NEW item \in 1 .. (n + r - 1) \div r
    PROVE  item - 1 \in Nat /\ (item - 1) * r < n
<1>1. PICK d \in Nat : d = n + r - 1
  OBVIOUS
<1>2. PICK z \in Nat : z = d \div r /\ z * r <= d
  BY <1>1, Quotient
<1>3. PICK p \in Nat : p = item - 1 /\ p + 1 <= z
  BY <1>1, <1>2
<1>4. (p + 1) * r <= z * r /\ (p + 1) * r = p * r + r /\ p * r \in Nat /\ z * r \in Nat
  <2>1. PICK a \in Nat : a = p + 1
    OBVIOUS
  <2>2. a * r <= z * r
    BY <1>3, <2>1, Multiples
  <2> QED
    BY <2>1, <2>2, Multiples
<1>5. \A x, y \in Nat : x + r <= y /\ y <= n + r - 1 => x < n
  OBVIOUS
<1> QED
  BY <1>1, <1>2, <1>3, <1>4, <1>5

\* And whatever starts within the count is in that list.
LEMMA Listed ==
    ASSUME NEW r \in Nat \ {0}, NEW n \in Nat, NEW p \in Nat, p * r < n
    PROVE  p + 1 \in 1 .. (n + r - 1) \div r
<1>1. PICK d \in Nat : d = n + r - 1
  OBVIOUS
<1>2. PICK z \in Nat : z = d \div r /\ d < z * r + r
  BY <1>1, Quotient
<1>3. p * r \in Nat /\ z * r \in Nat
  BY Multiples
<1>4. \A x, y \in Nat : x < n /\ n + r - 1 < y + r => x < y
  OBVIOUS
<1>5. p * r < z * r
  BY <1>1, <1>2, <1>3, <1>4
<1>6. ~(z <= p)
  <2> SUFFICES ASSUME z <= p PROVE FALSE
    OBVIOUS
  <2>1. z * r <= p * r
    BY Multiples
  <2> QED
    BY <1>3, <1>5, <2>1
<1> QED
  BY <1>1, <1>2, <1>6

\* Every step is one of these.
LEMMA PagesSteps ==
    ASSUME PagesTypes, Blocks!Next
    PROVE  \/ MountStep
           \/ \E p, r, q : AskStep(p, r, q)
           \/ \E q \in Requests : Blocks!MainReads(q)
           \/ \E q \in Requests : Blocks!Show(q)
           \/ \E q \in Requests : Blocks!Rejected(q)
           \/ Blocks!AddOreLog
<1>1. CASE Blocks!ReqGetRecordIdx
  BY <1>1 DEF Blocks!ReqGetRecordIdx, MountStep, PagesShown, PagesTypes
<1>2. CASE Blocks!ReqBoneDecimals
  BY <1>2 DEF Blocks!ReqBoneDecimals, MountStep, PagesShown, PagesTypes
<1>3. ASSUME NEW x \in {"index", "decimals"}, Blocks!MountRejected(x) PROVE MountStep
  <2>1. c10' \in 0 .. PageFailures
    BY <1>3, PagesBounds DEF Blocks!MountRejected, PagesTypes
  <2> QED
    BY <1>3, <2>1 DEF Blocks!MountRejected, MountStep, PagesShown
<1>4. ASSUME NEW p \in Nat, p = 0 \/ p * c6 < Blocks!Count, Blocks!Turn(p, p * c6)
      PROVE  \E r, q : AskStep(p, r, q)
  <2>1. PICK q \in Requests :
          /\ c8[q].pc = "idle"
          /\ c8' = [c8 EXCEPT ![q] = [pc |-> "asked", no |-> c9 + 1, start |-> p * c6,
                                      limit |-> c6, rows |-> <<>>]]
    BY <1>4 DEF Blocks!Turn, Blocks!Fetch
  <2>2. PICK r : r = c6 /\ r \in RowsOptions
    BY DEF PagesTypes
  <2>3. c9 < MaxTurns /\ c9' = c9 + 1 /\ c5' = p /\ UNCHANGED <<c1, c2, c3, c4, c6, c7, c10, c11, c12, c13>>
    BY <1>4 DEF Blocks!Turn, Blocks!Fetch, Blocks!head
  <2>4. c14' = None \/ (c14' = c14 /\ p = c5 + 1 /\ c11 # None /\ c11.no = c9)
    BY <1>4 DEF Blocks!Turn, Blocks!Forward
  <2>5. AskStep(p, r, q)
    BY <1>4, <2>1, <2>2, <2>3, <2>4 DEF AskStep
  <2> QED
    BY <2>5
<1>5. ASSUME NEW p \in 0 .. MaxBlocks, Blocks!HandleChangePage(p)
      PROVE  \E i, r, q : AskStep(i, r, q)
  <2>1. p \in Nat
    BY PagesBounds
  <2>2. p * c6 < Blocks!Count /\ Blocks!Turn(p, p * c6)
    BY <1>5 DEF Blocks!HandleChangePage, Blocks!Offered
  <2> QED
    BY <1>4, <2>1, <2>2
<1>6. ASSUME NEW item \in 0 .. MaxBlocks, Blocks!HandleChangePagePhone(item)
      PROVE  \E i, r, q : AskStep(i, r, q)
  <2>1. /\ item \in 1 .. (Blocks!Count + c6 - 1) \div c6
        /\ Blocks!Turn(item - 1, (item - 1) * c6)
    BY <1>6 DEF Blocks!HandleChangePagePhone, Blocks!OfferedPhone
  <2>2. PICK r \in Nat \ {0} : r = c6
    BY PagesBounds DEF PagesTypes
  <2>3. PICK n \in Nat : n = Blocks!Count
    BY CountIs
  <2>4. item - 1 \in Nat /\ (item - 1) * r < n
    BY <2>1, <2>2, <2>3, Offered
  <2>5. PICK p \in Nat : p = item - 1
    BY <2>4
  <2> QED
    BY <1>4, <2>1, <2>2, <2>3, <2>4, <2>5
<1>7. ASSUME NEW r \in RowsOptions, Blocks!HandleChangeRowsPerPage(r)
      PROVE  \E i, s, q : AskStep(i, s, q)
  <2>1. PICK q \in Requests :
          /\ c8[q].pc = "idle"
          /\ c8' = [c8 EXCEPT ![q] = [pc |-> "asked", no |-> c9 + 1, start |-> 0,
                                      limit |-> r, rows |-> <<>>]]
    BY <1>7 DEF Blocks!HandleChangeRowsPerPage, Blocks!Fetch
  <2>2. 0 * r = 0
    BY PagesBounds
  <2>3. AskStep(0, r, q)
    BY <1>7, <2>1, <2>2 DEF Blocks!HandleChangeRowsPerPage, Blocks!Fetch, Blocks!head, AskStep
  <2> QED
    BY <2>3
<1> QED
  BY <1>1, <1>2, <1>3, <1>5, <1>6, <1>7 DEF Blocks!Next

(***************************************************************************)
(* Each keeps the types, the rows, the numbers and the range.              *)
(***************************************************************************)
PlainTrue == PagesTypes /\ RowsFall /\ NumbersTrue /\ RangeTrue

LEMMA MountKeeps ==
    ASSUME PlainTrue, MountStep
    PROVE  PlainTrue'
<1>1. PagesTypes'
  BY DEF PlainTrue, MountStep, PagesShown, PagesTypes
<1>2. RowsFall' /\ NumbersTrue'
  BY DEF PlainTrue, MountStep, PagesShown, RowsFall, NumbersTrue
<1>3. RangeTrue'
  <2>1. CASE c3' = c3
    BY <2>1 DEF PlainTrue, MountStep, PagesShown, RangeTrue, Blocks!Count
  <2>2. CASE c3' # c3
    <3>1. c3 = None /\ "index" \notin c2'
      BY <2>2 DEF PlainTrue, MountStep, RangeTrue
    <3>2. Blocks!Count = 0
      BY <3>1 DEF Blocks!Count
    <3>3. c5 \in Nat /\ c6 \in Nat \ {0} /\ (c5 = 0 \/ c5 * c6 < 0)
      BY <3>2, PagesBounds DEF PlainTrue, PagesTypes, RangeTrue
    <3>4. c5 = 0
      <4>1. c5 * c6 \in Nat
        BY <3>3
      <4> QED
        BY <3>3, <4>1
    <3> QED
      BY <3>1, <3>4 DEF MountStep, PagesShown, RangeTrue
  <2> QED
    BY <2>1, <2>2
<1> QED
  BY <1>1, <1>2, <1>3 DEF PlainTrue

LEMMA FallingGrows ==
    ASSUME NEW n \in Nat, NEW l \in Nat, n <= l, NEW rows, Falling(rows, n)
    PROVE  Falling(rows, l)
<1>1. PICK m \in 0 .. n, k \in 0 .. n : (k < m \/ k = 0) /\ rows = Down(m, k)
  BY DEF Falling
<1>2. m \in 0 .. l /\ k \in 0 .. l
  OBVIOUS
<1> QED
  BY <1>1, <1>2 DEF Falling

LEMMA NoRowsFall ==
    ASSUME NEW n \in Nat
    PROVE  Falling(<<>>, n)
<1>1. Down(0, 0) = <<>>
  BY DownIs
<1>2. 0 \in 0 .. n
  OBVIOUS
<1> QED
  BY <1>1, <1>2 DEF Falling

LEMMA LogKeeps ==
    ASSUME PlainTrue, Blocks!AddOreLog
    PROVE  PlainTrue'
<1>1. /\ c1 \in Nat /\ MaxBlocks \in Nat /\ c1 < MaxBlocks /\ c1' = c1 + 1
      /\ UNCHANGED <<c2, c3, c4, c5, c6, c7, c8, c9, c10, c11, c12, c13>>
  BY PagesBounds DEF PlainTrue, PagesTypes, Blocks!AddOreLog, Blocks!head
<1>2. PagesTypes'
  BY <1>1 DEF PlainTrue, PagesTypes
<1>3. RowsFall'
  <2>1. PICK l \in Nat : l = c1 + 1
    BY <1>1
  <2>2. Falling(c7, l) /\ \A q \in Requests : Falling(c8[q].rows, l)
    BY <1>1, <2>1, FallingGrows DEF PlainTrue, RowsFall
  <2> QED
    BY <1>1, <2>1, <2>2 DEF RowsFall
<1>4. NumbersTrue' /\ RangeTrue'
  BY <1>1 DEF PlainTrue, NumbersTrue, RangeTrue, Blocks!Count
<1> QED
  BY <1>2, <1>3, <1>4 DEF PlainTrue

LEMMA AskKeeps ==
    ASSUME PlainTrue, NEW p, NEW r, NEW q, AskStep(p, r, q)
    PROVE  PlainTrue'
<1> DEFINE asked == [pc |-> "asked", no |-> c9 + 1, start |-> p * r, limit |-> r, rows |-> <<>>]
<1>1. /\ p \in Nat /\ r \in RowsOptions /\ r \in Nat \ {0} /\ q \in Requests
      /\ p = 0 \/ p * r < Blocks!Count
      /\ c5' = p /\ c6' = r /\ c9 \in Nat /\ c9 < MaxTurns /\ c9' = c9 + 1 /\ c9' \in 1 .. MaxTurns
  BY PagesBounds DEF PlainTrue, PagesTypes, AskStep
<1>2. /\ c8 \in [Requests -> PageQuery] /\ c8[q].pc = "idle" /\ c8' = [c8 EXCEPT ![q] = asked]
      /\ UNCHANGED <<c1, c2, c3, c4, c7, c10, c11, c12, c13>>
  BY DEF PlainTrue, PagesTypes, AskStep
<1>3. asked \in PageQuery /\ asked.pc = "asked" /\ asked.no = c9 + 1 /\ asked.start = p * r
      /\ asked.limit = r /\ asked.rows = <<>>
  <2>1. p * r \in Nat /\ c9 + 1 \in Nat
    BY <1>1, Multiples
  <2> QED
    BY <1>1, <2>1 DEF PageQuery
<1> HIDE DEF asked
<1>4. \A x \in Requests : c8'[x] = IF x = q THEN asked ELSE c8[x]
  BY <1>2
<1>5. PagesTypes'
  <2>1. c8' \in [Requests -> PageQuery]
    BY <1>1, <1>2, <1>3
  <2>2. c12' \in 0 .. c9'
    BY <1>1, <1>2 DEF PlainTrue, PagesTypes
  <2> QED
    BY <1>1, <1>2, <2>1, <2>2 DEF PlainTrue, PagesTypes
<1>6. RowsFall'
  <2>1. c1 \in Nat
    BY PagesBounds DEF PlainTrue, PagesTypes
  <2> QED
    BY <1>2, <1>3, <1>4, <2>1, NoRowsFall DEF PlainTrue, RowsFall
<1>7. \A x \in Requests : c8[x].pc # "idle" => c8[x].no \in 1 .. c9 /\ c8[x].limit \in RowsOptions
  BY DEF PlainTrue, NumbersTrue
<1>8. NumbersTrue'
  <2>1. ASSUME NEW x \in Requests
        PROVE  IF c8'[x].pc = "idle" THEN c8'[x].no = 0 /\ c8'[x].limit = 0
               ELSE /\ c8'[x].limit \in RowsOptions /\ c8'[x].no \in 1 .. c9'
                    /\ c8'[x].no = c9' => c8'[x].start = c5' * c6' /\ c8'[x].limit = c6'
    <3>1. CASE x = q
      BY <1>1, <1>3, <1>4, <3>1
    <3>2. CASE x # q
      <4>1. c8'[x] = c8[x]
        BY <1>4, <3>2
      <4>2. CASE c8[x].pc = "idle"
        BY <4>1, <4>2 DEF PlainTrue, NumbersTrue
      <4>3. CASE c8[x].pc # "idle"
        BY <1>1, <1>7, <4>1, <4>3
      <4> QED
        BY <4>2, <4>3
    <3> QED
      BY <3>1, <3>2
  <2>2. ASSUME NEW x \in Requests, NEW y \in Requests,
               c8'[x].pc # "idle", c8'[y].pc # "idle", c8'[x].no = c8'[y].no
        PROVE  x = y
    <3>1. \A z \in Requests : z # q /\ c8'[z].pc # "idle" => c8'[z].no \in 1 .. c9
      BY <1>4, <1>7
    <3>2. c8'[q].no = c9 + 1
      BY <1>1, <1>3, <1>4
    <3>3. \A z \in 1 .. c9 : z # c9 + 1
      BY <1>1
    <3>4. CASE x = q \/ y = q
      BY <2>2, <3>1, <3>2, <3>3, <3>4
    <3>5. CASE x # q /\ y # q
      <4>1. c8'[x] = c8[x] /\ c8'[y] = c8[y]
        BY <1>4, <3>5
      <4> QED
        BY <2>2, <4>1 DEF PlainTrue, NumbersTrue
    <3> QED
      BY <3>4, <3>5
  <2>3. ASSUME c11 # None PROVE c11.no \in 1 .. c9' /\ c11.no # c9'
    <3>1. c11.no \in 1 .. c9
      BY <2>3 DEF PlainTrue, NumbersTrue
    <3> QED
      BY <1>1, <3>1
  <2>4. c11' = c11
    BY <1>2
  <2> QED
    BY <2>1, <2>2, <2>3, <2>4 DEF NumbersTrue
<1>9. RangeTrue'
  BY <1>1, <1>2 DEF PlainTrue, RangeTrue, Blocks!Count
<1> QED
  BY <1>5, <1>6, <1>8, <1>9 DEF PlainTrue

\* What the canister reads for a query.
LEMMA ReadIs ==
    ASSUME PagesTypes, NumbersTrue, NEW q \in Requests, Blocks!MainReads(q)
    PROVE  \E k \in 0 .. c1 :
             LET start == c8[q].start
                 limit == c8[q].limit
             IN  /\ start \in Nat /\ limit \in RowsOptions /\ limit \in Nat \ {0}
                 /\ k = PageLen(c1, start, limit)
                 /\ k <= limit /\ (k = 0 \/ k + start < Blocks!Lesser(c1, PageLimit))
                 /\ c8'[q] = [c8[q] EXCEPT !.pc = "answered", !.rows = Down(c1 - start, k)]
                 /\ \A x \in Requests : x # q => c8'[x] = c8[x]
<1>1. PICK n \in Nat : n = c1
  BY PagesBounds DEF PagesTypes
<1>2. PICK start \in Nat, limit \in Nat \ {0} :
        start = c8[q].start /\ limit = c8[q].limit /\ limit \in RowsOptions
  BY PagesBounds DEF PagesTypes, NumbersTrue, PageQuery, Blocks!MainReads
<1>3. PICK k : k = PageLen(n, start, limit)
  OBVIOUS
<1>4. /\ k \in Nat /\ k <= limit /\ (k = 0 \/ k + start < Blocks!Lesser(n, PageLimit))
  BY <1>3, PageIs
<1>5. Blocks!GetRecordRev(n, start, limit) = Down(n - start, k)
  BY <1>3, PageIs
<1>6. Blocks!Lesser(n, PageLimit) \in Nat /\ Blocks!Lesser(n, PageLimit) <= n
  BY LesserIs
<1>7. k \in 0 .. n
  BY <1>4, <1>6
<1>8. c8' = [c8 EXCEPT ![q].pc = "answered",
                       ![q].rows = Blocks!GetRecordRev(c1, c8[q].start, c8[q].limit)]
  BY DEF Blocks!MainReads
<1>9. c8 \in [Requests -> PageQuery]
  BY DEF PagesTypes
<1>10. c8'[q] = [c8[q] EXCEPT !.pc = "answered", !.rows = Down(n - start, k)]
  BY <1>1, <1>2, <1>5, <1>8, <1>9
<1>11. \A x \in Requests : x # q => c8'[x] = c8[x]
  BY <1>8, <1>9
<1> QED
  BY <1>1, <1>2, <1>3, <1>4, <1>7, <1>10, <1>11

LEMMA ReadKeeps ==
    ASSUME PlainTrue, NEW q \in Requests, Blocks!MainReads(q)
    PROVE  PlainTrue'
<1>1. UNCHANGED <<c1, c2, c3, c4, c5, c6, c7, c9, c10, c11, c12, c13, c14>>
  BY DEF Blocks!MainReads, Blocks!head
<1>2. PICK k \in 0 .. c1, start \in Nat, limit \in Nat :
        /\ start = c8[q].start /\ limit = c8[q].limit
        /\ k = 0 \/ k + start < Blocks!Lesser(c1, PageLimit)
        /\ c8'[q] = [c8[q] EXCEPT !.pc = "answered", !.rows = Down(c1 - start, k)]
        /\ \A x \in Requests : x # q => c8'[x] = c8[x]
  BY ReadIs DEF PlainTrue
<1>3. c1 \in Nat /\ k \in Nat
  BY PagesBounds, <1>2 DEF PlainTrue, PagesTypes
<1>4. PICK m \in Int : m = c1 - start
  BY <1>3
<1>5. (k < m /\ m \in 0 .. c1) \/ k = 0
  <2>1. PICK n \in Nat : n = c1
    BY <1>3
  <2>2. Blocks!Lesser(n, PageLimit) \in Nat /\ Blocks!Lesser(n, PageLimit) <= n
    BY LesserIs
  <2> QED
    BY <1>2, <1>3, <1>4, <2>1, <2>2
<1>6. Down(m, k) \in Seq(Nat) /\ Falling(Down(m, k), c1)
  <2>1. CASE k = 0
    <3>1. Down(m, k) \in Seq(Nat) /\ Down(m, k) = <<>>
      BY <1>3, <2>1, DownIs
    <3> QED
      BY <1>3, <3>1, NoRowsFall
  <2>2. CASE k # 0
    <3>1. k < m /\ m \in 0 .. c1 /\ k <= m
      BY <1>3, <1>5, <2>2
    <3>2. Down(m, k) \in Seq(Nat)
      BY <1>3, <3>1, DownIs
    <3> QED
      BY <1>2, <3>1, <3>2 DEF Falling
  <2> QED
    BY <2>1, <2>2
<1>7. c8 \in [Requests -> PageQuery] /\ c8[q].pc = "asked"
  BY DEF PlainTrue, PagesTypes, Blocks!MainReads
<1>8. /\ c8'[q].pc = "answered" /\ c8'[q].no = c8[q].no /\ c8'[q].start = c8[q].start
      /\ c8'[q].limit = c8[q].limit /\ c8'[q].rows = Down(m, k)
      /\ c8'[q] \in PageQuery
  BY <1>2, <1>4, <1>6, <1>7 DEF PageQuery
<1>9. PagesTypes'
  <2>1. c8' \in [Requests -> PageQuery]
    <3>1. \A x \in Requests : c8'[x] \in PageQuery
      BY <1>2, <1>7, <1>8
    <3>2. c8' = [x \in Requests |-> c8'[x]]
      BY <1>7 DEF Blocks!MainReads
    <3> QED
      BY <3>1, <3>2
  <2> QED
    BY <1>1, <2>1 DEF PlainTrue, PagesTypes
<1>10. RowsFall'
  BY <1>1, <1>2, <1>6, <1>8 DEF PlainTrue, RowsFall
<1>11. NumbersTrue'
  <2>1. \A x \in Requests : /\ c8'[x].no = c8[x].no /\ c8'[x].start = c8[x].start
                            /\ c8'[x].limit = c8[x].limit
                            /\ (c8'[x].pc = "idle" <=> c8[x].pc = "idle")
    BY <1>2, <1>7, <1>8
  <2> QED
    BY <1>1, <2>1 DEF PlainTrue, NumbersTrue
<1>12. RangeTrue'
  BY <1>1 DEF PlainTrue, RangeTrue, Blocks!Count
<1> QED
  BY <1>9, <1>10, <1>11, <1>12 DEF PlainTrue

\* A query is over, answered or rejected.
OverStep(q) ==
    /\ c8' = [c8 EXCEPT ![q] = Blocks!NoQuery]
    /\ c12' \in 0 .. c9 /\ c13' \in BOOLEAN /\ c10' \in 0 .. PageFailures
    /\ c7' \in {c7, c8[q].rows}
    /\ c11' = c11 \/ (/\ c11' = [no |-> c8[q].no, start |-> c8[q].start, limit |-> c8[q].limit]
                      /\ c8[q].pc # "idle")
    /\ UNCHANGED <<c1, c2, c3, c4, c5, c6, c9>>

LEMMA OverIs ==
    ASSUME PlainTrue, NEW q \in Requests, Blocks!Show(q) \/ Blocks!Rejected(q)
    PROVE  OverStep(q)
<1>1. c8[q].pc # "idle" => c8[q].no \in 0 .. c9
  <2>1. c9 \in Nat
    BY PagesBounds DEF PlainTrue, PagesTypes
  <2> QED
    BY <2>1 DEF PlainTrue, NumbersTrue
<1>2. c12 \in 0 .. c9 /\ c10 \in 0 .. PageFailures /\ c13 \in BOOLEAN
  BY DEF PlainTrue, PagesTypes
<1>3. CASE Blocks!Show(q)
  <2>1. /\ c8[q].pc = "answered" /\ c8' = [c8 EXCEPT ![q] = Blocks!NoQuery]
        /\ c12' = IF c12 < c8[q].no THEN c8[q].no ELSE c12
        /\ c13' = (c13 \/ c12 > c8[q].no)
        /\ c7' = c8[q].rows
        /\ c11' = [no |-> c8[q].no, start |-> c8[q].start, limit |-> c8[q].limit]
        /\ UNCHANGED <<c1, c2, c3, c4, c5, c6, c9, c10>>
    BY <1>3 DEF Blocks!Show, Blocks!Answered, Blocks!head
  <2> QED
    BY <1>1, <1>2, <2>1 DEF OverStep
<1>4. CASE Blocks!Rejected(q)
  <2>1. /\ c8[q].pc # "idle" /\ c8' = [c8 EXCEPT ![q] = Blocks!NoQuery]
        /\ c12' = IF c12 < c8[q].no THEN c8[q].no ELSE c12
        /\ c10 < PageFailures /\ c10' = c10 + 1
        /\ UNCHANGED <<c1, c2, c3, c4, c5, c6, c7, c9, c11, c13>>
    BY <1>4 DEF Blocks!Rejected, Blocks!head
  <2>2. c10' \in 0 .. PageFailures
    BY <1>2, <2>1, PagesBounds
  <2> QED
    BY <1>1, <1>2, <2>1, <2>2 DEF OverStep
<1> QED
  BY <1>3, <1>4

LEMMA OverKeeps ==
    ASSUME PlainTrue, NEW q \in Requests, OverStep(q)
    PROVE  PlainTrue'
<1>1. /\ c8 \in [Requests -> PageQuery] /\ c9 \in Nat /\ c1 \in Nat
      /\ UNCHANGED <<c1, c2, c3, c4, c5, c6, c9>>
  BY PagesBounds DEF PlainTrue, PagesTypes, OverStep
<1>2. \A x \in Requests : c8'[x] = IF x = q THEN Blocks!NoQuery ELSE c8[x]
  BY <1>1 DEF OverStep
<1>3. /\ Blocks!NoQuery \in PageQuery /\ Blocks!NoQuery.pc = "idle" /\ Blocks!NoQuery.no = 0
      /\ Blocks!NoQuery.limit = 0 /\ Blocks!NoQuery.rows = <<>>
  BY DEF Blocks!NoQuery, PageQuery
<1>4. PagesTypes'
  <2>1. c8' \in [Requests -> PageQuery]
    BY <1>1, <1>3 DEF OverStep
  <2> QED
    BY <1>1, <2>1 DEF PlainTrue, PagesTypes, OverStep
<1>5. RowsFall'
  <2>1. Falling(c7', c1)
    BY DEF PlainTrue, RowsFall, OverStep
  <2>2. \A x \in Requests : Falling(c8'[x].rows, c1)
    BY <1>1, <1>2, <1>3, NoRowsFall DEF PlainTrue, RowsFall
  <2> QED
    BY <1>1, <2>1, <2>2 DEF RowsFall
<1>6. NumbersTrue'
  <2>1. ASSUME NEW x \in Requests
        PROVE  IF c8'[x].pc = "idle" THEN c8'[x].no = 0 /\ c8'[x].limit = 0
               ELSE /\ c8'[x].limit \in RowsOptions /\ c8'[x].no \in 1 .. c9
                    /\ c8'[x].no = c9 => c8'[x].start = c5 * c6 /\ c8'[x].limit = c6
    <3>1. CASE x = q
      BY <1>2, <1>3, <3>1
    <3>2. CASE x # q
      <4>1. c8'[x] = c8[x]
        BY <1>2, <3>2
      <4> QED
        BY <4>1 DEF PlainTrue, NumbersTrue
    <3> QED
      BY <3>1, <3>2
  <2>2. ASSUME NEW x \in Requests, NEW y \in Requests,
               c8'[x].pc # "idle", c8'[y].pc # "idle", c8'[x].no = c8'[y].no
        PROVE  x = y
    <3>1. x # q /\ y # q
      BY <1>2, <1>3, <2>2
    <3>2. c8'[x] = c8[x] /\ c8'[y] = c8[y]
      BY <1>2, <3>1
    <3> QED
      BY <2>2, <3>2 DEF PlainTrue, NumbersTrue
  <2>3. c11' # None => /\ c11'.no \in 1 .. c9
                       /\ c11'.no = c9 => c11'.start = c5 * c6 /\ c11'.limit = c6
    <3>1. CASE c11' = c11
      BY <3>1 DEF PlainTrue, NumbersTrue
    <3>2. CASE /\ c11' = [no |-> c8[q].no, start |-> c8[q].start, limit |-> c8[q].limit]
               /\ c8[q].pc # "idle"
      <4>1. c11'.no = c8[q].no /\ c11'.start = c8[q].start /\ c11'.limit = c8[q].limit
        BY <3>2
      <4> QED
        BY <3>2, <4>1 DEF PlainTrue, NumbersTrue
    <3> QED
      BY <3>1, <3>2 DEF OverStep
  <2> QED
    BY <1>1, <2>1, <2>2, <2>3 DEF NumbersTrue
<1>7. RangeTrue'
  BY <1>1 DEF PlainTrue, RangeTrue, Blocks!Count
<1> QED
  BY <1>4, <1>5, <1>6, <1>7 DEF PlainTrue

(***************************************************************************)
(* Paging forward.  The blocks seen are an interval, lo to hi.  The page   *)
(* after one that ends at lo begins no lower than below lo, in a log that  *)
(* only grows: a page of a log of n that begins at start Fits lo.          *)
(***************************************************************************)
Fits(lo, start, n) == start + 2 <= PageLimit => lo + start <= n + 1 \/ lo <= 2

Bottom(rows) == rows[1] + 1 - Len(rows)

EndTrue ==
    \A q \in Requests :
      c8[q].pc = "answered" /\ c8[q].rows # <<>> =>
        Fits(Bottom(c8[q].rows), c8[q].start + c8[q].limit, c1)

SeenFrom(lo) ==
    /\ c11 # None /\ c11.no = c9 => Fits(lo, c5 * c6 + c6, c1)
    /\ \A q \in Requests :
         c8[q].no = c9 /\ c8[q].start # 0 =>
           /\ c8[q].pc = "asked" => Fits(lo, c8[q].start, c1)
           /\ c8[q].pc = "answered" /\ c8[q].rows = <<>> =>
                (c8[q].start + c8[q].limit + 2 <= PageLimit => lo <= 2)
           /\ c8[q].pc = "answered" /\ c8[q].rows # <<>> => lo <= c8[q].rows[1] + 1

SeenTrue ==
    \/ c14 = None \/ c14 = {}
    \/ \E lo \in 1 .. c1 : \E hi \in 1 .. c1 : lo <= hi /\ c14 = lo .. hi /\ SeenFrom(lo)

LEMMA FallingIs ==
    ASSUME NEW n \in Nat, NEW rows, Falling(rows, n)
    PROVE  /\ rows \in Seq(1 .. n)
           /\ \A i \in 1 .. Len(rows) - 1 : rows[i] = rows[i + 1] + 1
           /\ rows = <<>> => {rows[i] : i \in 1 .. Len(rows)} = {}
           /\ rows # <<>> => /\ rows[1] \in 1 .. n /\ Len(rows) \in 1 .. n /\ Len(rows) < rows[1]
                             /\ {rows[i] : i \in 1 .. Len(rows)} = Bottom(rows) .. rows[1]
<1>1. PICK m \in 0 .. n, k \in 0 .. n : (k < m \/ k = 0) /\ rows = Down(m, k)
  BY DEF Falling
<1>2. m \in Int /\ k \in Nat /\ (k <= m \/ k = 0)
  BY <1>1
<1>3. rows \in Seq(Nat) /\ Len(rows) = k /\ \A i \in 1 .. k : rows[i] = m + 1 - i
  BY <1>1, <1>2, DownIs
<1>4. \A i \in 1 .. k : m + 1 - i \in 1 .. n
  BY <1>1
<1>5. rows \in Seq(1 .. n)
  <2>1. rows = [i \in 1 .. k |-> m + 1 - i]
    BY <1>1 DEF Down
  <2>2. rows \in [1 .. k -> 1 .. n]
    BY <1>4, <2>1
  <2> QED
    BY <1>2, <2>2
<1>6. \A i \in 1 .. Len(rows) - 1 : rows[i] = rows[i + 1] + 1
  <2> SUFFICES ASSUME NEW i \in 1 .. Len(rows) - 1 PROVE rows[i] = rows[i + 1] + 1
    OBVIOUS
  <2>1. i \in 1 .. k /\ i + 1 \in 1 .. k
    BY <1>2, <1>3
  <2>2. rows[i] = m + 1 - i /\ rows[i + 1] = m + 1 - (i + 1)
    BY <1>3, <2>1
  <2> QED
    BY <1>2, <2>1, <2>2
<1>7. ASSUME rows = <<>> PROVE {rows[i] : i \in 1 .. Len(rows)} = {}
  BY <1>7
<1>8. ASSUME rows # <<>>
      PROVE  /\ rows[1] \in 1 .. n /\ Len(rows) \in 1 .. n /\ Len(rows) < rows[1]
             /\ {rows[i] : i \in 1 .. Len(rows)} = Bottom(rows) .. rows[1]
  <2>1. k # 0
    BY <1>2, <1>3, <1>8
  <2>2. 1 \in 1 .. k /\ k < m
    BY <1>1, <1>2, <2>1
  <2>3. rows[1] = m
    <3>1. rows[1] = m + 1 - 1
      BY <1>3, <2>2
    <3> QED
      BY <1>2, <3>1
  <2>4. ASSUME NEW h \in m + 1 - k .. m PROVE \E i \in 1 .. k : rows[i] = h
    <3>1. m + 1 - h \in 1 .. k
      BY <1>2
    <3>2. rows[m + 1 - h] = m + 1 - (m + 1 - h)
      BY <1>3, <3>1
    <3>3. rows[m + 1 - h] = h
      BY <1>2, <3>2
    <3> QED
      BY <3>1, <3>3
  <2>5. ASSUME NEW i \in 1 .. k PROVE rows[i] \in m + 1 - k .. m
    BY <1>2, <1>3
  <2>6. {rows[i] : i \in 1 .. Len(rows)} = m + 1 - k .. m
    BY <1>3, <2>4, <2>5
  <2>7. m \in 1 .. n /\ k \in 1 .. n
    BY <1>1, <2>2
  <2> QED
    BY <1>3, <2>2, <2>3, <2>6, <2>7 DEF Bottom
<1> QED
  BY <1>5, <1>6, <1>7, <1>8

\* How a page fits what follows it, and what came before.
LEMMA ReadFits ==
    ASSUME NEW n \in Nat, NEW start \in Nat, NEW limit \in Nat \ {0}, NEW k,
           k = PageLen(n, start, limit)
    PROVE  /\ k # 0 => Fits((n - start) + 1 - k, start + limit, n)
           /\ \A lo \in Nat : k # 0 /\ Fits(lo, start, n) => lo <= (n - start) + 1
           /\ \A lo \in Nat :
                k = 0 /\ start + limit + 2 <= PageLimit /\ Fits(lo, start, n) => lo <= 2
<1>1. PICK L \in Nat : L = Blocks!Lesser(n, PageLimit) /\ L <= n /\ L <= PageLimit
                       /\ L \in {n, PageLimit}
  BY LesserIs
<1>2. PICK e \in Int : /\ e = PageEnd(n, start, limit)
                       /\ e = IF start + limit >= L THEN L - 1 ELSE start + limit
  BY <1>1 DEF PageEnd
<1>3. k = IF e > start THEN e - start ELSE 0
  BY <1>2 DEF PageLen
<1>4. PageLimit \in Nat
  BY PagesBounds
<1>5. ASSUME k # 0 PROVE Fits((n - start) + 1 - k, start + limit, n)
  <2>1. k = e - start /\ k \in Nat
    BY <1>2, <1>3, <1>5
  <2>2. CASE start + limit >= L
    <3>1. e = L - 1
      BY <1>2, <2>2
    <3>2. CASE start + limit + 2 <= PageLimit
      <4>1. L = n
        BY <1>1, <1>4, <2>2, <3>2
      <4>2. (n - start) + 1 - k = 2
        BY <2>1, <3>1, <4>1
      <4> QED
        BY <4>2 DEF Fits
    <3>3. CASE ~(start + limit + 2 <= PageLimit)
      BY <3>3 DEF Fits
    <3> QED
      BY <3>2, <3>3
  <2>3. CASE ~(start + limit >= L)
    <3>1. e = start + limit
      BY <1>2, <2>3
    <3>2. (n - start) + 1 - k + (start + limit) <= n + 1
      BY <2>1, <3>1
    <3> QED
      BY <3>2 DEF Fits
  <2> QED
    BY <2>2, <2>3
<1>6. ASSUME NEW lo \in Nat, k # 0, Fits(lo, start, n) PROVE lo <= (n - start) + 1
  <2>1. e > start /\ e < L
    BY <1>1, <1>2, <1>3, <1>6
  <2>2. start + 2 <= PageLimit /\ start + 2 <= n
    BY <1>1, <1>2, <1>4, <2>1
  <2>3. lo + start <= n + 1 \/ lo <= 2
    BY <1>6, <2>2 DEF Fits
  <2> QED
    BY <2>2, <2>3
<1>7. ASSUME NEW lo \in Nat, k = 0, start + limit + 2 <= PageLimit, Fits(lo, start, n)
      PROVE  lo <= 2
  <2>1. e <= start
    BY <1>2, <1>3, <1>7
  <2>2. L <= start + 1
    BY <1>1, <1>2, <2>1
  <2>3. L = n
    BY <1>1, <1>4, <1>7, <2>2
  <2>4. lo + start <= n + 1 \/ lo <= 2
    BY <1>4, <1>7 DEF Fits
  <2> QED
    BY <2>2, <2>3, <2>4
<1> QED
  BY <1>5, <1>6, <1>7

LEMMA FitsLess ==
    ASSUME NEW a \in Int, NEW b \in Int, a <= b, NEW start \in Nat, NEW n \in Nat, NEW l \in Nat, n <= l,
           Fits(b, start, n)
    PROVE  Fits(a, start, l)
<1>1. CASE start + 2 <= PageLimit
  BY <1>1 DEF Fits
<1>2. CASE ~(start + 2 <= PageLimit)
  BY <1>2 DEF Fits
<1> QED
  BY <1>1, <1>2

\* What the interval becomes when a page is shown.
LEMMA Widened ==
    ASSUME NEW lo \in Int, NEW hi \in Int, lo <= hi, NEW a \in Int, NEW b \in Int, a <= b, lo <= b + 1
    PROVE  LET new == {h \in a .. b : \E k \in lo .. hi : h <= k}
           IN  (lo .. hi) \cup new = IF a < lo THEN a .. hi ELSE lo .. hi
<1> DEFINE new == {h \in a .. b : \E k \in lo .. hi : h <= k}
<1>1. new = {h \in a .. b : h <= hi}
  <2>1. ASSUME NEW h \in a .. b, h <= hi PROVE \E k \in lo .. hi : h <= k
    <3>1. hi \in lo .. hi
      OBVIOUS
    <3> QED
      BY <2>1, <3>1
  <2>2. ASSUME NEW h \in a .. b, NEW k \in lo .. hi, h <= k PROVE h <= hi
    BY <2>2
  <2> QED
    BY <2>1, <2>2
<1>2. \A h : h \in new <=> h \in a .. b /\ h <= hi
  BY <1>1
<1> HIDE DEF new
<1>3. ASSUME a < lo PROVE (lo .. hi) \cup new = a .. hi
  BY <1>2, <1>3
<1>4. ASSUME ~(a < lo) PROVE (lo .. hi) \cup new = lo .. hi
  BY <1>2, <1>4
<1> QED
  BY <1>3, <1>4 DEF new

PagesInv == PlainTrue /\ EndTrue /\ SeenTrue

LEMMA MountSees ==
    ASSUME PagesInv, MountStep
    PROVE  EndTrue' /\ SeenTrue'
<1>1. UNCHANGED <<c1, c5, c6, c8, c9, c11, c14>>
  BY DEF MountStep, PagesShown
<1>2. EndTrue'
  BY <1>1 DEF PagesInv, EndTrue
<1>3. SeenTrue'
  BY <1>1 DEF PagesInv, SeenTrue, SeenFrom
<1> QED
  BY <1>2, <1>3

LEMMA QueriesTyped ==
    ASSUME PlainTrue
    PROVE  /\ c1 \in Nat /\ c5 \in Nat /\ c6 \in Nat \ {0} /\ c9 \in Nat /\ c9 # 0
           /\ c5 * c6 \in Nat /\ c5 * c6 + c6 \in Nat /\ (c5 + 1) * c6 = c5 * c6 + c6
           /\ \A q \in Requests :
                /\ c8[q].pc \in {"idle", "asked", "answered"} /\ c8[q].no \in Nat
                /\ c8[q].start \in Nat /\ c8[q].limit \in Nat /\ c8[q].start + c8[q].limit \in Nat
                /\ c8[q].pc = "idle" => c8[q].no = 0
                /\ Falling(c8[q].rows, c1)
                /\ c8[q].rows # <<>> => Bottom(c8[q].rows) \in Int
<1>1. c1 \in Nat /\ c5 \in Nat /\ c6 \in Nat \ {0} /\ c9 \in Nat /\ c9 # 0
  BY PagesBounds DEF PlainTrue, PagesTypes
<1>2. PICK p \in Nat, r \in Nat \ {0} : p = c5 /\ r = c6
  BY <1>1
<1>3. p * r \in Nat /\ (p + 1) * r = p * r + r
  BY Multiples
<1>4. p * r + r \in Nat
  BY <1>3
<1>5. ASSUME NEW q \in Requests
      PROVE  /\ c8[q].pc \in {"idle", "asked", "answered"} /\ c8[q].no \in Nat
             /\ c8[q].start \in Nat /\ c8[q].limit \in Nat /\ c8[q].start + c8[q].limit \in Nat
  BY DEF PlainTrue, PagesTypes, PageQuery
<1>6. \A q \in Requests : c8[q].pc = "idle" => c8[q].no = 0
  BY DEF PlainTrue, NumbersTrue
<1>7. \A q \in Requests : Falling(c8[q].rows, c1)
  BY DEF PlainTrue, RowsFall
<1>8. ASSUME NEW q \in Requests, c8[q].rows # <<>> PROVE Bottom(c8[q].rows) \in Int
  <2>1. PICK rows : rows = c8[q].rows
    OBVIOUS
  <2>2. rows[1] \in 1 .. c1 /\ Len(rows) \in 1 .. c1
    BY <1>1, <1>7, <1>8, <2>1, FallingIs
  <2>3. Bottom(rows) \in Int
    BY <1>1, <2>2 DEF Bottom
  <2> QED
    BY <2>1, <2>3
<1> QED
  BY <1>1, <1>2, <1>3, <1>4, <1>5, <1>6, <1>7, <1>8

LEMMA LogSees ==
    ASSUME PagesInv, Blocks!AddOreLog
    PROVE  EndTrue' /\ SeenTrue'
<1>1. /\ c1' = c1 + 1 /\ UNCHANGED <<c5, c6, c8, c9, c11, c14>>
  BY DEF Blocks!AddOreLog
<1>2. PICK n \in Nat, l \in Nat : n = c1 /\ l = c1 + 1 /\ l = c1' /\ n <= l
  BY <1>1, QueriesTyped DEF PagesInv
<1>3. \A a \in Int, s \in Nat : Fits(a, s, n) => Fits(a, s, l)
  BY <1>2, FitsLess
<1>4. EndTrue'
  <2>1. ASSUME NEW q \in Requests, c8[q].pc = "answered", c8[q].rows # <<>>
        PROVE  Fits(Bottom(c8[q].rows), c8[q].start + c8[q].limit, l)
    <3>1. Bottom(c8[q].rows) \in Int /\ c8[q].start + c8[q].limit \in Nat
      BY <2>1, QueriesTyped DEF PagesInv
    <3>2. Fits(Bottom(c8[q].rows), c8[q].start + c8[q].limit, n)
      BY <1>2, <2>1 DEF PagesInv, EndTrue
    <3> QED
      BY <1>3, <3>1, <3>2
  <2> QED
    BY <1>1, <1>2, <2>1 DEF EndTrue
<1>5. SeenTrue'
  <2>1. CASE c14 = None \/ c14 = {}
    BY <1>1, <2>1 DEF SeenTrue
  <2>2. ASSUME NEW lo \in 1 .. c1, NEW hi \in 1 .. c1, lo <= hi, c14 = lo .. hi, SeenFrom(lo)
        PROVE  SeenTrue'
    <3>1. lo \in 1 .. c1' /\ hi \in 1 .. c1' /\ c14' = lo .. hi /\ lo \in Int
      BY <1>1, <1>2, <2>2
    <3>2. c11 # None /\ c11.no = c9 => Fits(lo, c5 * c6 + c6, l)
      <4>1. PICK s \in Nat : s = c5 * c6 + c6
        BY QueriesTyped DEF PagesInv
      <4>2. c11 # None /\ c11.no = c9 => Fits(lo, s, n)
        BY <1>2, <2>2, <4>1 DEF SeenFrom
      <4> QED
        BY <1>3, <3>1, <4>1, <4>2
    <3>3. ASSUME NEW q \in Requests, c8[q].no = c9, c8[q].start # 0, c8[q].pc = "asked"
          PROVE  Fits(lo, c8[q].start, l)
      <4>1. PICK s \in Nat : s = c8[q].start
        BY QueriesTyped DEF PagesInv
      <4>2. Fits(lo, s, n)
        BY <1>2, <2>2, <3>3, <4>1 DEF SeenFrom
      <4> QED
        BY <1>3, <3>1, <4>1, <4>2
    <3>4. SeenFrom(lo)'
      BY <1>1, <1>2, <2>2, <3>2, <3>3 DEF SeenFrom
    <3> QED
      BY <2>2, <3>1, <3>4 DEF SeenTrue
  <2> QED
    BY <2>1, <2>2 DEF PagesInv, SeenTrue
<1> QED
  BY <1>4, <1>5

LEMMA AskSees ==
    ASSUME PagesInv, NEW p, NEW r, NEW q, AskStep(p, r, q)
    PROVE  EndTrue' /\ SeenTrue'
<1> DEFINE asked == [pc |-> "asked", no |-> c9 + 1, start |-> p * r, limit |-> r, rows |-> <<>>]
<1>1. /\ c9' = c9 + 1 /\ q \in Requests /\ UNCHANGED <<c1, c11>>
      /\ asked.pc = "asked" /\ asked.start = p * r /\ asked.no = c9 + 1
  BY DEF AskStep
<1>2. \A x \in Requests : c8'[x] = IF x = q THEN asked ELSE c8[x]
  <2>1. c8 \in [Requests -> PageQuery] /\ c8' = [c8 EXCEPT ![q] = asked]
    BY DEF PagesInv, PlainTrue, PagesTypes, AskStep
  <2> HIDE DEF asked
  <2> QED
    BY <1>1, <2>1
<1> HIDE DEF asked
<1>3. EndTrue'
  <2>1. \A x \in Requests : c8'[x].pc = "answered" => c8'[x] = c8[x]
    BY <1>1, <1>2
  <2> QED
    BY <1>1, <2>1 DEF PagesInv, EndTrue
<1>4. SeenTrue'
  <2>1. CASE c14' = None \/ c14' = {}
    BY <2>1 DEF SeenTrue
  <2>2. ASSUME c14' = c14, r = c6, p = c5 + 1, c11 # None, c11.no = c9 PROVE SeenTrue'
    <3>1. CASE c14 = None \/ c14 = {}
      BY <2>2, <3>1 DEF SeenTrue
    <3>2. ASSUME NEW lo \in 1 .. c1, NEW hi \in 1 .. c1, lo <= hi, c14 = lo .. hi, SeenFrom(lo)
          PROVE  SeenTrue'
      <4>1. Fits(lo, p * r, c1)
        <5>1. p * r = c5 * c6 + c6
          BY <2>2, QueriesTyped DEF PagesInv
        <5> QED
          BY <2>2, <3>2, <5>1 DEF SeenFrom
      <4>2. c11'.no # c9'
        <5>1. c9 \in Nat
          BY QueriesTyped DEF PagesInv
        <5> QED
          BY <1>1, <2>2, <5>1
      <4>3. ASSUME NEW x \in Requests, c8'[x].no = c9' PROVE x = q
        <5> SUFFICES ASSUME x # q PROVE FALSE
          OBVIOUS
        <5>1. c8[x].no = c9 + 1
          BY <1>1, <1>2, <4>3
        <5>2. c8[x].no = 0 \/ c8[x].no \in 1 .. c9
          BY DEF PagesInv, PlainTrue, NumbersTrue
        <5>3. c9 \in Nat
          BY QueriesTyped DEF PagesInv
        <5> QED
          BY <5>1, <5>2, <5>3
      <4>4. SeenFrom(lo)'
        BY <1>1, <1>2, <4>1, <4>2, <4>3 DEF SeenFrom
      <4> QED
        BY <1>1, <2>2, <3>2, <4>4 DEF SeenTrue
    <3> QED
      BY <3>1, <3>2 DEF PagesInv, SeenTrue
  <2> QED
    BY <2>1, <2>2 DEF AskStep
<1> QED
  BY <1>3, <1>4

LEMMA ReadSees ==
    ASSUME PagesInv, NEW q \in Requests, Blocks!MainReads(q)
    PROVE  EndTrue' /\ SeenTrue'
<1>1. UNCHANGED <<c1, c5, c6, c9, c11, c14>> /\ c8[q].pc = "asked"
  BY DEF Blocks!MainReads, Blocks!head
<1>2. PICK k \in 0 .. c1, start \in Nat, limit \in Nat \ {0} :
        /\ start = c8[q].start /\ limit = c8[q].limit
        /\ k = PageLen(c1, start, limit)
        /\ k = 0 \/ k + start < Blocks!Lesser(c1, PageLimit)
        /\ c8'[q] = [c8[q] EXCEPT !.pc = "answered", !.rows = Down(c1 - start, k)]
        /\ \A x \in Requests : x # q => c8'[x] = c8[x]
  BY ReadIs DEF PagesInv, PlainTrue
<1>3. PICK n \in Nat : n = c1
  BY QueriesTyped DEF PagesInv
<1>4. PICK m \in Int : m = n - start
  OBVIOUS
<1>5. k \in Nat /\ (k < m \/ k = 0)
  <2>1. Blocks!Lesser(n, PageLimit) \in Nat /\ Blocks!Lesser(n, PageLimit) <= n
    BY LesserIs
  <2> QED
    BY <1>2, <1>3, <1>4, <2>1
<1>6. /\ c8'[q].pc = "answered" /\ c8'[q].no = c8[q].no /\ c8'[q].start = start
      /\ c8'[q].limit = limit /\ c8'[q].rows = Down(m, k)
  <2>1. c8[q] \in PageQuery
    BY DEF PagesInv, PlainTrue, PagesTypes
  <2> QED
    BY <1>2, <1>3, <1>4, <2>1 DEF PageQuery
<1>7. /\ Len(Down(m, k)) = k /\ (k = 0 => Down(m, k) = <<>>) /\ (k # 0 => Down(m, k)[1] = m)
  <2>1. Len(Down(m, k)) = k /\ (k = 0 => Down(m, k) = <<>>) /\ \A i \in 1 .. k : Down(m, k)[i] = m + 1 - i
    BY <1>5, DownIs
  <2>2. k # 0 => Down(m, k)[1] = m + 1 - 1
    BY <1>5, <2>1
  <2> QED
    BY <1>5, <2>1, <2>2
<1>8. /\ k # 0 => Fits(m + 1 - k, start + limit, n)
      /\ \A lo \in Nat : k # 0 /\ Fits(lo, start, n) => lo <= m + 1
      /\ \A lo \in Nat : k = 0 /\ start + limit + 2 <= PageLimit /\ Fits(lo, start, n) => lo <= 2
  BY <1>2, <1>3, <1>4, ReadFits
<1>9. EndTrue'
  <2>1. ASSUME c8'[q].rows # <<>> PROVE Fits(Bottom(c8'[q].rows), c8'[q].start + c8'[q].limit, n)
    <3>1. k # 0
      BY <1>6, <1>7, <2>1
    <3>2. Bottom(Down(m, k)) = m + 1 - k
      BY <1>7, <3>1 DEF Bottom
    <3> QED
      BY <1>6, <1>8, <3>1, <3>2
  <2> QED
    BY <1>1, <1>2, <1>3, <2>1 DEF PagesInv, EndTrue
<1>10. SeenTrue'
  <2>1. CASE c14 = None \/ c14 = {}
    BY <1>1, <2>1 DEF SeenTrue
  <2>2. ASSUME NEW lo \in 1 .. c1, NEW hi \in 1 .. c1, lo <= hi, c14 = lo .. hi, SeenFrom(lo)
        PROVE  SeenTrue'
    <3>1. lo \in Nat
      BY <1>3
    <3>2. ASSUME c8'[q].no = c9, c8'[q].start # 0
          PROVE  /\ k = 0 => (start + limit + 2 <= PageLimit => lo <= 2)
                 /\ k # 0 => lo <= m + 1
      <4>1. Fits(lo, start, n)
        BY <1>1, <1>2, <1>3, <1>6, <2>2, <3>2 DEF SeenFrom
      <4> QED
        BY <1>8, <3>1, <4>1
    <3>3. (k = 0 <=> c8'[q].rows = <<>>) /\ (k # 0 => c8'[q].rows[1] = m)
      BY <1>6, <1>7
    <3>4. SeenFrom(lo)'
      <4>1. (c11 # None /\ c11.no = c9 => Fits(lo, c5 * c6 + c6, c1))'
        BY <1>1, <2>2 DEF SeenFrom
      <4>2. ASSUME NEW x \in Requests, c8'[x].no = c9, c8'[x].start # 0
            PROVE  /\ c8'[x].pc = "asked" => Fits(lo, c8'[x].start, c1)
                   /\ c8'[x].pc = "answered" /\ c8'[x].rows = <<>> =>
                        (c8'[x].start + c8'[x].limit + 2 <= PageLimit => lo <= 2)
                   /\ c8'[x].pc = "answered" /\ c8'[x].rows # <<>> => lo <= c8'[x].rows[1] + 1
        <5>1. CASE x = q
          BY <1>6, <3>2, <3>3, <4>2, <5>1
        <5>2. CASE x # q
          <6>1. c8'[x] = c8[x]
            BY <1>2, <5>2
          <6> QED
            BY <2>2, <4>2, <6>1 DEF SeenFrom
        <5> QED
          BY <5>1, <5>2
      <4> QED
        BY <1>1, <4>1, <4>2 DEF SeenFrom
    <3> QED
      BY <1>1, <2>2, <3>4 DEF SeenTrue
  <2> QED
    BY <2>1, <2>2 DEF PagesInv, SeenTrue
<1> QED
  BY <1>9, <1>10

LEMMA OverEnds ==
    ASSUME PagesInv, NEW q \in Requests, OverStep(q)
    PROVE  EndTrue'
<1>1. \A x \in Requests : c8'[x] = IF x = q THEN Blocks!NoQuery ELSE c8[x]
  BY DEF PagesInv, PlainTrue, PagesTypes, OverStep
<1>2. Blocks!NoQuery.pc = "idle"
  BY DEF Blocks!NoQuery
<1>3. \A x \in Requests : c8'[x].pc = "answered" => c8'[x] = c8[x]
  BY <1>1, <1>2
<1>4. c1' = c1
  BY DEF OverStep
<1> QED
  BY <1>3, <1>4 DEF PagesInv, EndTrue

\* The page shown extends the interval, or is the first of a new one.
LEMMA ShowSees ==
    ASSUME PagesInv, NEW q \in Requests, Blocks!Show(q)
    PROVE  SeenTrue'
<1>1. /\ c8[q].pc = "answered" /\ UNCHANGED <<c1, c5, c6, c9>>
      /\ c11' = [no |-> c8[q].no, start |-> c8[q].start, limit |-> c8[q].limit]
  BY DEF Blocks!Show, Blocks!Answered
<1>2. PICK rows : rows = c8[q].rows
  OBVIOUS
<1>3. PICK new : new = {rows[i] : i \in 1 .. Len(rows)}
  OBVIOUS
<1>4. c14' = IF c14 = None \/ c8[q].no # c9 THEN None
             ELSE IF c8[q].start = 0 THEN new
             ELSE c14 \cup {h \in new : \E k \in c14 : h <= k}
  BY <1>2, <1>3 DEF Blocks!Show, Blocks!See
<1>5. CASE c14' = None
  BY <1>5 DEF SeenTrue
<1>6. ASSUME c14 # None, c8[q].no = c9,
             c14' = IF c8[q].start = 0 THEN new ELSE c14 \cup {h \in new : \E k \in c14 : h <= k}
      PROVE  SeenTrue'
  <2>1. PICK n \in Nat, start \in Nat, limit \in Nat :
          /\ n = c1 /\ start = c8[q].start /\ limit = c8[q].limit /\ start + limit = c5 * c6 + c6
    <3>1. c8[q].start = c5 * c6 /\ c8[q].limit = c6
      BY <1>1, <1>6 DEF PagesInv, PlainTrue, NumbersTrue
    <3> QED
      BY <3>1, QueriesTyped DEF PagesInv
  <2>2. /\ rows = <<>> => new = {}
        /\ rows # <<>> => /\ rows[1] \in 1 .. n /\ Len(rows) \in 1 .. n /\ Len(rows) < rows[1]
                          /\ new = Bottom(rows) .. rows[1]
    <3>1. Falling(rows, n)
      BY <1>2, <2>1, QueriesTyped DEF PagesInv
    <3> QED
      BY <1>3, <2>1, <3>1, FallingIs
  <2>3. rows # <<>> => Fits(Bottom(rows), start + limit, n)
    BY <1>1, <1>2, <2>1 DEF PagesInv, EndTrue
  <2>4. rows # <<>> => Bottom(rows) \in 1 .. n /\ Bottom(rows) <= rows[1]
    BY <2>1, <2>2 DEF Bottom
  \* Nothing else is under way for the page.
  <2>5. ASSUME NEW x \in Requests PROVE c8'[x].no # c9
    <3>1. c8'[x] = IF x = q THEN Blocks!NoQuery ELSE c8[x]
      BY DEF PagesInv, PlainTrue, PagesTypes, Blocks!Show, Blocks!Answered
    <3>2. c9 # 0
      BY QueriesTyped DEF PagesInv
    <3>3. CASE x = q
      BY <3>1, <3>2, <3>3 DEF Blocks!NoQuery
    <3>4. CASE x # q
      <4>1. c8[x].pc = "idle" => c8[x].no = 0
        BY QueriesTyped DEF PagesInv
      <4>2. c8[x].pc # "idle" => c8[x].no # c8[q].no
        BY <1>1, <3>4 DEF PagesInv, PlainTrue, NumbersTrue
      <4> QED
        BY <1>6, <3>1, <3>2, <3>4, <4>1, <4>2
    <3> QED
      BY <3>3, <3>4
  <2>6. ASSUME NEW lo \in 1 .. n, NEW hi \in 1 .. n, lo <= hi, c14' = lo .. hi,
               Fits(lo, start + limit, n)
        PROVE  SeenTrue'
    <3>1. SeenFrom(lo)'
      BY <1>1, <2>1, <2>5, <2>6 DEF SeenFrom
    <3>2. lo \in 1 .. c1' /\ hi \in 1 .. c1'
      BY <1>1, <2>1, <2>6
    <3> QED
      BY <2>6, <3>1, <3>2 DEF SeenTrue
  <2>7. CASE start = 0
    <3>1. c14' = new
      BY <1>6, <2>1, <2>7
    <3>2. CASE rows = <<>>
      BY <2>2, <3>1, <3>2 DEF SeenTrue
    <3>3. CASE rows # <<>>
      <4>1. PICK lo \in 1 .. n, hi \in 1 .. n : lo = Bottom(rows) /\ hi = rows[1]
        BY <2>2, <2>4, <3>3
      <4> QED
        BY <2>2, <2>3, <2>4, <2>6, <3>1, <3>3, <4>1
    <3> QED
      BY <3>2, <3>3
  <2>8. CASE start # 0
    <3>1. c14' = c14 \cup {h \in new : \E k \in c14 : h <= k}
      BY <1>6, <2>1, <2>8
    <3>2. CASE c14 = {}
      BY <3>1, <3>2 DEF SeenTrue
    <3>3. ASSUME NEW lo \in 1 .. c1, NEW hi \in 1 .. c1, lo <= hi, c14 = lo .. hi, SeenFrom(lo)
          PROVE  SeenTrue'
      <4>1. lo \in 1 .. n /\ hi \in 1 .. n /\ lo \in Int /\ hi \in Int
        BY <2>1
      <4>2. /\ rows = <<>> => (start + limit + 2 <= PageLimit => lo <= 2)
            /\ rows # <<>> => lo <= rows[1] + 1
        BY <1>1, <1>2, <1>6, <2>1, <2>8, <3>3 DEF SeenFrom
      <4>3. CASE rows = <<>>
        <5>1. c14' = lo .. hi
          BY <2>2, <3>1, <3>3, <4>3
        <5>2. Fits(lo, start + limit, n)
          BY <4>2, <4>3 DEF Fits
        <5> QED
          BY <2>6, <3>3, <4>1, <5>1, <5>2
      <4>4. CASE rows # <<>>
        <5>1. PICK a \in 1 .. n, b \in 1 .. n : a = Bottom(rows) /\ b = rows[1] /\ a <= b /\ lo <= b + 1
          BY <2>2, <2>4, <4>2, <4>4
        <5>2. a \in Int /\ b \in Int
          BY <5>1
        <5>3. c14' = IF a < lo THEN a .. hi ELSE lo .. hi
          <6>1. c14' = (lo .. hi) \cup {h \in a .. b : \E k \in lo .. hi : h <= k}
            BY <2>2, <3>1, <3>3, <4>4, <5>1
          <6> QED
            BY <3>3, <4>1, <5>1, <5>2, <6>1, Widened
        <5>4. Fits(a, start + limit, n)
          BY <2>3, <4>4, <5>1
        <5>5. CASE a < lo
          BY <2>6, <3>3, <4>1, <5>1, <5>2, <5>3, <5>4, <5>5
        <5>6. CASE ~(a < lo)
          <6>1. lo <= a
            BY <4>1, <5>2, <5>6
          <6>2. start + limit \in Nat
            OBVIOUS
          <6>3. Fits(lo, start + limit, n)
            BY <4>1, <5>2, <5>4, <6>1, <6>2, FitsLess
          <6> QED
            BY <2>6, <3>3, <4>1, <5>3, <5>6, <6>3
        <5> QED
          BY <5>5, <5>6
      <4> QED
        BY <4>3, <4>4
    <3> QED
      BY <1>6, <3>2, <3>3 DEF PagesInv, SeenTrue
  <2> QED
    BY <2>1, <2>7, <2>8
<1> QED
  BY <1>4, <1>5, <1>6

LEMMA PagesStep ==
    ASSUME PagesInv, Blocks!Next
    PROVE  PagesInv'
<1>1. PagesTypes /\ PlainTrue
  BY DEF PagesInv, PlainTrue
<1>2. CASE MountStep
  BY <1>1, <1>2, MountKeeps, MountSees DEF PagesInv
<1>3. ASSUME NEW p, NEW r, NEW q, AskStep(p, r, q) PROVE PagesInv'
  BY <1>1, <1>3, AskKeeps, AskSees DEF PagesInv
<1>4. ASSUME NEW q \in Requests, Blocks!MainReads(q) PROVE PagesInv'
  BY <1>1, <1>4, ReadKeeps, ReadSees DEF PagesInv
<1>5. ASSUME NEW q \in Requests, Blocks!Show(q) PROVE PagesInv'
  BY <1>1, <1>5, OverIs, OverKeeps, OverEnds, ShowSees DEF PagesInv
<1>6. ASSUME NEW q \in Requests, Blocks!Rejected(q) PROVE PagesInv'
  <2>1. SeenTrue'
    BY <1>6 DEF Blocks!Rejected, SeenTrue
  <2> QED
    BY <1>1, <1>6, <2>1, OverIs, OverKeeps, OverEnds DEF PagesInv
<1>7. CASE Blocks!AddOreLog
  BY <1>1, <1>7, LogKeeps, LogSees DEF PagesInv
<1> QED
  BY <1>1, <1>2, <1>3, <1>4, <1>5, <1>6, <1>7, PagesSteps

LEMMA PagesInit ==
    ASSUME Blocks!Init
    PROVE  PagesInv
<1> DEFINE first == [Blocks!NoQuery EXCEPT !.pc = "asked", !.no = 1, !.limit = FirstRows]
<1>1. /\ c1 \in 0 .. MaxBlocks /\ c1 \in Nat /\ c2 = {"index", "decimals"} /\ c3 = None
      /\ c4 = DefaultDecimals /\ c5 = 0 /\ c6 = FirstRows /\ FirstRows \in RowsOptions
      /\ FirstRows \in Nat \ {0} /\ c7 = <<>> /\ c9 = 1 /\ c9 \in 1 .. MaxTurns /\ c10 = 0
      /\ c10 \in 0 .. PageFailures /\ c11 = None /\ c12 = 0 /\ c13 = FALSE /\ c14 = {}
  BY PagesBounds DEF Blocks!Init
<1>2. PICK q \in Requests : c8 = [x \in Requests |-> IF x = q THEN first ELSE Blocks!NoQuery]
  BY DEF Blocks!Init
<1>3. /\ first \in PageQuery /\ first.pc = "asked" /\ first.no = 1 /\ first.limit = FirstRows
      /\ first.start = 0 /\ first.rows = <<>>
      /\ Blocks!NoQuery \in PageQuery /\ Blocks!NoQuery.pc = "idle" /\ Blocks!NoQuery.no = 0
      /\ Blocks!NoQuery.limit = 0 /\ Blocks!NoQuery.rows = <<>>
  <2>1. Blocks!NoQuery = [pc |-> "idle", no |-> 0, start |-> 0, limit |-> 0, rows |-> <<>>]
    BY DEF Blocks!NoQuery
  <2>2. /\ first \in PageQuery /\ first.pc = "asked" /\ first.no = 1 /\ first.start = 0
        /\ first.limit = FirstRows /\ first.rows = <<>>
    <3>1. PICK idle : idle = Blocks!NoQuery
      OBVIOUS
    <3>2. /\ idle \in PageQuery /\ idle.start = 0 /\ idle.rows = <<>>
      BY <2>1, <3>1 DEF PageQuery
    <3>3. first = [idle EXCEPT !.pc = "asked", !.no = 1, !.limit = FirstRows]
      BY <3>1
    <3> HIDE DEF first
    <3> QED
      BY <1>1, <3>2, <3>3 DEF PageQuery
  <2>3. <<>> \in Seq(Nat)
    OBVIOUS
  <2> HIDE DEF first
  <2> QED
    BY <1>1, <2>1, <2>2, <2>3 DEF PageQuery
<1> HIDE DEF first
<1>4. \A x \in Requests : c8[x] = IF x = q THEN first ELSE Blocks!NoQuery
  BY <1>2
<1>5. PagesTypes
  <2>1. c8 \in [Requests -> PageQuery]
    BY <1>2, <1>3
  <2>2. c12 \in 0 .. c9 /\ c3 \in (0 .. c1) \cup {None}
    BY <1>1
  <2> QED
    BY <1>1, <2>1, <2>2 DEF PagesTypes
<1>6. RowsFall
  BY <1>1, <1>3, <1>4, NoRowsFall DEF RowsFall
<1>7. c5 * c6 = 0
  BY <1>1
<1>8. NumbersTrue
  BY <1>1, <1>3, <1>4, <1>7 DEF NumbersTrue
<1>9. RangeTrue /\ EndTrue /\ SeenTrue
  BY <1>1, <1>3, <1>4 DEF RangeTrue, EndTrue, SeenTrue
<1> QED
  BY <1>5, <1>6, <1>8, <1>9 DEF PagesInv, PlainTrue

LEMMA PagesMean ==
    ASSUME PagesInv
    PROVE  Blocks!PagesCoverWindow /\ Blocks!RowsOfPage /\ Blocks!PageInRange /\ Blocks!NoneSkipped
<1>1. Blocks!PagesCoverWindow
  BY PagesCover DEF PagesInv, PlainTrue, PagesTypes
<1>2. Blocks!RowsOfPage
  BY DEF PagesInv, PlainTrue, NumbersTrue, Blocks!RowsOfPage
<1>3. Blocks!PageInRange
  <2>1. CASE c5 = 0
    BY <2>1 DEF Blocks!PageInRange
  <2>2. CASE c5 * c6 < Blocks!Count
    <3>1. PICK r \in Nat \ {0}, p \in Nat : r = c6 /\ p = c5
      BY QueriesTyped DEF PagesInv
    <3>2. PICK n \in Nat : n = Blocks!Count
      BY CountIs DEF PagesInv, PlainTrue
    <3>3. p + 1 \in 1 .. (n + r - 1) \div r
      BY <2>2, <3>1, <3>2, Listed
    <3> QED
      BY <2>2, <3>1, <3>2, <3>3 DEF Blocks!PageInRange, Blocks!OfferedPhone
  <2> QED
    BY <2>1, <2>2 DEF PagesInv, PlainTrue, RangeTrue
<1>4. Blocks!NoneSkipped
  <2>1. CASE c14 = None \/ c14 = {}
    BY <2>1 DEF Blocks!NoneSkipped
  <2>2. ASSUME NEW lo \in 1 .. c1, NEW hi \in 1 .. c1, c14 = lo .. hi PROVE Blocks!NoneSkipped
    <3>1. c1 \in Nat
      BY QueriesTyped DEF PagesInv
    <3>2. \A h \in lo .. hi, k \in lo .. hi : h .. k \subseteq lo .. hi
      BY <3>1
    <3> QED
      BY <2>2, <3>2 DEF Blocks!NoneSkipped
  <2> QED
    BY <2>1, <2>2 DEF PagesInv, SeenTrue
<1> QED
  BY <1>1, <1>2, <1>3, <1>4

LEMMA PagesHold == Spec => [](open = "blocks" => PagesInv)
<1> DEFINE Inv == open = "blocks" => PagesInv
<1>1. Init => Inv
  BY PagesInit DEF Init
<1>2. Inv /\ [Next]_state => Inv'
  <2> SUFFICES ASSUME open = "blocks", PagesInv, [Next]_state PROVE PagesInv'
    BY StaysOpen
  <2>1. Blocks!Next \/ UNCHANGED <<c1, c2, c3, c4, c5, c6, c7, c8, c9, c10, c11, c12, c13, c14>>
    BY DEF Next, state
  <2>2. CASE UNCHANGED <<c1, c2, c3, c4, c5, c6, c7, c8, c9, c10, c11, c12, c13, c14>>
    <3>1. PagesTypes' /\ RowsFall' /\ NumbersTrue' /\ RangeTrue'
      BY <2>2 DEF PagesInv, PlainTrue, PagesTypes, RowsFall, NumbersTrue, RangeTrue, Blocks!Count
    <3>2. EndTrue' /\ SeenTrue'
      BY <2>2 DEF PagesInv, EndTrue, SeenTrue, SeenFrom
    <3> QED
      BY <3>1, <3>2 DEF PagesInv, PlainTrue
  <2> QED
    BY <2>1, <2>2, PagesStep
<1> QED
  BY <1>1, <1>2, PTL DEF Spec

\* In every reachable state the dashboard tells the log: its pages, taken from one
\* log, hold every record of the window but its oldest, once each; the rows are those
\* of the page asked for, which exists; paging forward skips no block; and every cell of
\* the rankings, and their best rows, are what the log held when they were read.
THEOREM DashboardAlwaysTrue == Spec => []DashboardTrue
<1>1. (open = "blocks" => PagesInv) /\ (open = "tops" => TopsInv) => DashboardTrue
  BY PagesMean, TopsMean DEF DashboardTrue
<1> QED
  BY <1>1, PagesHold, TopsHold, PTL

(***************************************************************************)
(* The types of all the parts.                                             *)
(***************************************************************************)
LEMMA TopsTyped ==
    ASSUME TopsInv
    PROVE  Tops!TypeOK
<1>1. TopsTypes /\ BlocksCounted
  BY DEF TopsInv
<1>2. c2 \in [Dogs -> 0 .. MaxLog]
  <2>1. ASSUME NEW d \in Dogs PROVE c2[d] \in 0 .. MaxLog
    <3>1. PICK n \in Nat : n = Len(c6) /\ n <= MaxLog
      BY <1>1, TopsBounds DEF TopsTypes
    <3>2. PICK M : M = MinedBy({d})
      OBVIOUS
    <3>3. PICK I : I = 1 .. n /\ IsFiniteSet(I) /\ Cardinality(I) = n
      <4>1. IsFiniteSet(1 .. n) /\ Cardinality(1 .. n) = n
        BY FS_Interval
      <4> QED
        BY <4>1
    <3>4. M \subseteq I
      BY <3>1, <3>2, <3>3 DEF MinedBy
    <3>5. Cardinality(M) <= n /\ Cardinality(M) \in Nat
      BY <3>3, <3>4, FS_Subset, FS_CardinalityType
    <3>6. c2[d] = Cardinality(M)
      BY <1>1, <3>2 DEF BlocksCounted
    <3> QED
      BY <3>1, <3>5, <3>6, TopsBounds
  <2> QED
    BY <1>1, <2>1 DEF BlocksCounted
<1> QED
  BY <1>1, <1>2 DEF TopsInv, TopsTypes, LogRecord, Tops!TypeOK

LEMMA PagesTyped ==
    ASSUME PagesInv
    PROVE  Blocks!TypeOK
<1>1. /\ c1 \in Nat /\ c9 \in Nat
      /\ \A q \in Requests : c8[q].no \in Nat /\ (c8[q].pc = "idle" => c8[q].no = 0)
  BY QueriesTyped DEF PagesInv
<1>2. PagesTypes /\ RowsFall /\ NumbersTrue
  BY DEF PagesInv, PlainTrue
<1>3. ASSUME NEW rows \in {c7} \cup {c8[q].rows : q \in Requests}
      PROVE  rows \in Seq(1 .. c1) /\ \A i \in 1 .. Len(rows) - 1 : rows[i] = rows[i + 1] + 1
  <2>1. Falling(rows, c1)
    BY <1>2 DEF RowsFall
  <2>2. PICK n \in Nat : n = c1
    BY <1>1
  <2> QED
    BY <2>1, <2>2, FallingIs
<1>4. ASSUME NEW q \in Requests
      PROVE  /\ c8[q].pc \in {"idle", "asked", "answered"}
             /\ c8[q].no \in 0 .. c9 /\ c8[q].start \in Nat
             /\ c8[q].limit \in RowsOptions \cup {0}
  <2>1. c8[q].pc \in {"idle", "asked", "answered"} /\ c8[q].start \in Nat
    BY <1>2 DEF PagesTypes, PageQuery
  <2>2. CASE c8[q].pc = "idle"
    BY <1>1, <1>2, <2>1, <2>2 DEF NumbersTrue
  <2>3. CASE c8[q].pc # "idle"
    <3>1. c8[q].no \in 1 .. c9 /\ c8[q].limit \in RowsOptions
      BY <1>2, <2>3 DEF NumbersTrue
    <3> QED
      BY <1>1, <2>1, <3>1
  <2> QED
    BY <2>2, <2>3
<1>5. c14 = None \/ c14 \subseteq 1 .. c1
  <2>1. CASE c14 = None \/ c14 = {}
    BY <2>1
  <2>2. ASSUME NEW lo \in 1 .. c1, NEW hi \in 1 .. c1, c14 = lo .. hi PROVE c14 \subseteq 1 .. c1
    BY <1>1, <2>2
  <2> QED
    BY <2>1, <2>2 DEF PagesInv, SeenTrue
<1>6. c11 = None \/ c11.no \in 1 .. c9
  BY <1>2 DEF NumbersTrue
<1> QED
  BY <1>2, <1>3, <1>4, <1>5, <1>6 DEF PagesTypes, Blocks!TypeOK

\* TypeOK, for any values of the constants that satisfy the assumptions of the modules:
\* in every reachable state each of the ten parts keeps to its types, the rows of the log
\* are heights of blocks there are, newest first, and no count passes its bound.
THEOREM TypesAlwaysOK == Spec => []TypeOK
<1> DEFINE Part == open \in {"miners", "alliances", "wallet", "blocks", "tops", "message",
                             "figures", "batches", "feed", "icp"}
<1>1. Spec => []Part
  <2>1. Init => Part
    BY DEF Init
  <2>2. Part /\ [Next]_state => Part'
    BY StaysOpen
  <2> QED
    BY <2>1, <2>2, PTL DEF Spec
<1> DEFINE Inv == /\ open = "miners" => MinersInv
                  /\ open = "alliances" => CirclesInv
                  /\ open = "wallet" => WalletInv
                  /\ open = "blocks" => PagesInv
                  /\ open = "tops" => TopsInv
                  /\ open = "message" => MessageInv
                  /\ open = "figures" => FiguresInv
                  /\ open = "batches" => BatchesInv
                  /\ open = "feed" => FeedInv
                  /\ open = "icp" => IcpInv
<1>2. Part /\ Inv => TypeOK
  <2> SUFFICES ASSUME Part, Inv PROVE TypeOK
    OBVIOUS
  <2>1. CASE open = "miners"
    BY <2>1 DEF TypeOK, MinersInv
  <2>2. CASE open = "alliances"
    BY <2>2 DEF TypeOK, CirclesInv
  <2>3. CASE open = "wallet"
    BY <2>3, WalletMeans DEF TypeOK
  <2>4. CASE open = "blocks"
    BY <2>4, PagesTyped DEF TypeOK
  <2>5. CASE open = "tops"
    BY <2>5, TopsTyped DEF TypeOK
  <2>6. CASE open = "message"
    BY <2>6 DEF TypeOK, MessageInv
  <2>7. CASE open = "figures"
    BY <2>7, FiguresMean DEF TypeOK
  <2>8. CASE open = "batches"
    BY <2>8 DEF TypeOK, BatchesInv
  <2>9. CASE open = "feed"
    BY <2>9 DEF TypeOK, FeedInv
  <2>10. CASE open = "icp"
    BY <2>10, IcpInvMeans DEF TypeOK
  <2> QED
    BY <2>1, <2>2, <2>3, <2>4, <2>5, <2>6, <2>7, <2>8, <2>9, <2>10
<1>3. Spec => []Inv
  BY MinersHold, CirclesHold, WalletHolds, PagesHold, TopsHold, MessageHolds, FiguresHold,
     BatchesHold, FeedHolds, IcpHolds, PTL
<1> HIDE DEF Part, Inv
<1> QED
  BY <1>1, <1>2, <1>3, PTL
=============================================================================
