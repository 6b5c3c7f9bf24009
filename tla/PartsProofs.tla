----------------------------- MODULE PartsProofs ----------------------------
(***************************************************************************)
(* Proofs about the parts, for any values of their bounds: what holds      *)
(* while a part is open follows from that part's own initial states and    *)
(* steps, since a behaviour keeps to the part it opens.                    *)
(***************************************************************************)
EXTENDS Parts, Integers, FiniteSetTheorems, SequenceTheorems, WellFoundedInduction, TLAPS

(***************************************************************************)
(* A behaviour keeps to the part it opens.                                 *)
(***************************************************************************)
LEMMA StaysOpen ==
    ASSUME [Next]_state
    PROVE  open' = open
BY DEF Next, state, after14, after15, after17, after10, after8, after6, after2

(***************************************************************************)
(* Induction, over numbers and over the subsets of a finite set.           *)
(***************************************************************************)
LEMMA NatSetInduction ==
    ASSUME NEW P \in SUBSET Nat, 0 \in P, \A n \in P : n + 1 \in P
    PROVE  P = Nat
<1> SUFFICES ASSUME P # Nat PROVE FALSE
  OBVIOUS
<1> DEFINE Rest == Nat \ P
<1>1. PICK x \in Rest : \A y \in Rest : ~(<<y, x>> \in OpToRel(<, Nat))
  BY NatLessThanWellFounded, WFMin
<1>2. x \in Nat \ {0} /\ x - 1 \in Nat /\ x - 1 < x
  OBVIOUS
<1>3. x - 1 \in P
  BY <1>1, <1>2 DEF OpToRel
<1> QED
  BY <1>2, <1>3

LEMMA SubsetInduction ==
    ASSUME NEW S, IsFiniteSet(S), NEW P \in SUBSET (SUBSET S),
           \A T \in SUBSET S : (\A x \in T : T \ {x} \in P) => T \in P
    PROVE  P = SUBSET S
<1> DEFINE Q == {n \in Nat : \A T \in SUBSET S : Cardinality(T) = n => T \in P}
<1>1. 0 \in Q
  BY FS_Subset, FS_EmptySet
<1>2. ASSUME NEW n \in Q PROVE n + 1 \in Q
  <2> SUFFICES ASSUME NEW T \in SUBSET S, Cardinality(T) = n + 1 PROVE T \in P
    OBVIOUS
  <2>1. ASSUME NEW x \in T PROVE T \ {x} \in P
    <3>1. IsFiniteSet(T)
      BY FS_Subset
    <3>2. Cardinality(T \ {x}) = (n + 1) - 1
      BY <3>1, FS_RemoveElement
    <3>3. (n + 1) - 1 = n
      OBVIOUS
    <3>4. T \ {x} \in SUBSET S
      OBVIOUS
    <3> QED
      BY <3>2, <3>3, <3>4
  <2> QED
    BY <2>1
<1>3. Q = Nat
  <2>1. Q \in SUBSET Nat
    OBVIOUS
  <2> HIDE DEF Q
  <2> QED
    BY <1>1, <1>2, <2>1, NatSetInduction
<1>4. ASSUME NEW T \in SUBSET S PROVE T \in P
  <2>1. Cardinality(T) \in Q
    BY <1>3, FS_Subset, FS_CardinalityType
  <2> QED
    BY <2>1
<1> QED
  BY <1>4

(***************************************************************************)
(* Sums, as SumFunction makes them.                                        *)
(***************************************************************************)
One(T) == CHOOSE x \in T : TRUE
Sums(f, S, table) ==
    table = [T \in SUBSET S |-> IF T = {} THEN 0 ELSE f[One(T)] + table[T \ {One(T)}]]

LEMMA SumIs ==
    ASSUME NEW f, NEW S, S = DOMAIN f
    PROVE  Icp!SumFunction(f) = (CHOOSE table : Sums(f, S, table))[S]
BY DEF Icp!SumFunction, Icp!SumFunctionOnSet, Icp!FoldFunctionOnSet, Icp!MapThenFoldSet, Sums, One

\* The table of the subsets of at most n elements.
SmallSums(f, S, n, table) ==
    table = [T \in {U \in SUBSET S : Cardinality(U) <= n} |->
                IF T = {} THEN 0 ELSE f[One(T)] + table[T \ {One(T)}]]

LEMMA OneSmaller ==
    ASSUME NEW S, IsFiniteSet(S), NEW T \in SUBSET S, T # {}
    PROVE  /\ One(T) \in T
           /\ T \ {One(T)} \in SUBSET S
           /\ Cardinality(T) \in Nat
           /\ Cardinality(T \ {One(T)}) = Cardinality(T) - 1
<1>1. One(T) \in T
  BY DEF One
<1>2. IsFiniteSet(T)
  BY FS_Subset
<1> QED
  BY <1>1, <1>2, FS_RemoveElement, FS_CardinalityType

LEMMA SmallSumsExist ==
    ASSUME NEW f, NEW S, IsFiniteSet(S)
    PROVE  \A n \in Nat : \E table : SmallSums(f, S, n, table)
<1> DEFINE P == {n \in Nat : \E table : SmallSums(f, S, n, table)}
           Small(n) == {U \in SUBSET S : Cardinality(U) <= n}
<1>1. 0 \in P
  <2>1. ASSUME NEW T \in Small(0) PROVE T = {}
    <3> SUFFICES ASSUME T # {} PROVE FALSE
      OBVIOUS
    <3>1. Cardinality(T) \in Nat /\ Cardinality(T \ {One(T)}) = Cardinality(T) - 1
      BY OneSmaller
    <3>2. Cardinality(T \ {One(T)}) \in Nat
      BY FS_Subset, FS_CardinalityType
    <3> QED
      BY <3>1, <3>2
  <2>2. SmallSums(f, S, 0, [T \in Small(0) |-> 0])
    BY <2>1 DEF SmallSums
  <2> QED
    BY <2>2
<1>2. ASSUME NEW n \in P PROVE n + 1 \in P
  <2>1. PICK table : SmallSums(f, S, n, table)
    OBVIOUS
  <2> DEFINE next == [T \in Small(n + 1) |-> IF T = {} THEN 0 ELSE f[One(T)] + table[T \ {One(T)}]]
  <2>2. ASSUME NEW T \in Small(n + 1)
        PROVE  next[T] = IF T = {} THEN 0 ELSE f[One(T)] + next[T \ {One(T)}]
    <3>1. CASE T = {}
      BY <3>1
    <3>2. CASE T # {}
      <4> DEFINE U == T \ {One(T)}
      <4>1. U \in Small(n) /\ U \in Small(n + 1)
        <5>1. Cardinality(T) \in Nat /\ Cardinality(U) = Cardinality(T) - 1 /\ U \in SUBSET S
          BY <3>2, OneSmaller
        <5> HIDE DEF U
        <5> QED
          BY <5>1
      <4> HIDE DEF U
      <4>2. table[U] = IF U = {} THEN 0 ELSE f[One(U)] + table[U \ {One(U)}]
        BY <2>1, <4>1 DEF SmallSums
      <4>3. next[U] = table[U]
        BY <4>1, <4>2
      <4> QED
        BY <3>2, <4>3 DEF U
    <3> QED
      BY <3>1, <3>2
  <2>3. DOMAIN next = Small(n + 1) /\ next = [T \in Small(n + 1) |-> next[T]]
    OBVIOUS
  <2> HIDE DEF next
  <2>4. SmallSums(f, S, n + 1, next)
    BY <2>2, <2>3 DEF SmallSums
  <2> QED
    BY <2>4
<1>3. P = Nat
  <2>1. P \in SUBSET Nat
    OBVIOUS
  <2> HIDE DEF P
  <2> QED
    BY <1>1, <1>2, <2>1, NatSetInduction
<1> QED
  BY <1>3

LEMMA SumsAre ==
    ASSUME NEW f, IsFiniteSet(DOMAIN f)
    PROVE  \E table : Sums(f, DOMAIN f, table) /\ Icp!SumFunction(f) = table[DOMAIN f]
<1> DEFINE S == DOMAIN f
<1>1. PICK table : SmallSums(f, S, Cardinality(S), table)
  BY SmallSumsExist, FS_CardinalityType
<1>2. {U \in SUBSET S : Cardinality(U) <= Cardinality(S)} = SUBSET S
  BY FS_Subset
<1>3. Sums(f, S, table)
  BY <1>1, <1>2 DEF SmallSums, Sums
<1> QED
  BY <1>3, SumIs

\* A sum of naturals is one.
LEMMA SumOfNaturals ==
    ASSUME NEW S, IsFiniteSet(S), NEW f \in [S -> Nat]
    PROVE  Icp!SumFunction(f) \in Nat
<1>1. PICK table : Sums(f, S, table) /\ Icp!SumFunction(f) = table[S]
  BY SumsAre
<1> DEFINE P == {T \in SUBSET S : table[T] \in Nat}
<1>2. ASSUME NEW T \in SUBSET S, \A x \in T : T \ {x} \in P PROVE T \in P
  <2>1. table[T] = IF T = {} THEN 0 ELSE f[One(T)] + table[T \ {One(T)}]
    BY <1>1 DEF Sums
  <2>2. CASE T = {}
    BY <2>1, <2>2
  <2>3. CASE T # {}
    <3>1. One(T) \in T /\ T \ {One(T)} \in P /\ f[One(T)] \in Nat
      BY <1>2, <2>3, OneSmaller
    <3> QED
      BY <2>1, <2>3, <3>1
  <2> QED
    BY <2>2, <2>3
<1>3. P = SUBSET S
  <2>1. P \in SUBSET (SUBSET S)
    OBVIOUS
  <2> HIDE DEF P
  <2> QED
    BY <1>2, <2>1, SubsetInduction
<1> QED
  BY <1>1, <1>3

\* A sum of zeros is zero.
LEMMA SumOfZeros ==
    ASSUME NEW S, IsFiniteSet(S), NEW f, f = [s \in S |-> 0]
    PROVE  Icp!SumFunction(f) = 0
<1>1. PICK table : Sums(f, S, table) /\ Icp!SumFunction(f) = table[S]
  BY SumsAre
<1> DEFINE P == {T \in SUBSET S : table[T] = 0}
<1>2. ASSUME NEW T \in SUBSET S, \A x \in T : T \ {x} \in P PROVE T \in P
  <2>1. table[T] = IF T = {} THEN 0 ELSE f[One(T)] + table[T \ {One(T)}]
    BY <1>1 DEF Sums
  <2>2. CASE T = {}
    BY <2>1, <2>2
  <2>3. CASE T # {}
    <3>1. One(T) \in T /\ T \ {One(T)} \in P /\ f[One(T)] \in Nat
      BY <1>2, <2>3, OneSmaller
    <3> QED
      BY <2>1, <2>3, <3>1
  <2> QED
    BY <2>2, <2>3
<1>3. P = SUBSET S
  <2>1. P \in SUBSET (SUBSET S)
    OBVIOUS
  <2> HIDE DEF P
  <2> QED
    BY <1>2, <2>1, SubsetInduction
<1> QED
  BY <1>1, <1>3

\* A sum changes by what one of its terms does.
LEMMA SumUpdated ==
    ASSUME NEW S, IsFiniteSet(S), NEW f \in [S -> Nat], NEW s \in S, NEW v \in Nat,
           NEW g, g = [f EXCEPT ![s] = v]
    PROVE  Icp!SumFunction(g) = Icp!SumFunction(f) - f[s] + v
<1>1. PICK t : Sums(f, S, t) /\ Icp!SumFunction(f) = t[S]
  BY SumsAre
<1>2. PICK u : Sums(g, S, u) /\ Icp!SumFunction(g) = u[S]
  BY SumsAre
<1> DEFINE P == {T \in SUBSET S : t[T] \in Int /\ u[T] = t[T] + IF s \in T THEN v - f[s] ELSE 0}
<1>3. ASSUME NEW T \in SUBSET S, \A x \in T : T \ {x} \in P PROVE T \in P
  <2>1. /\ t[T] = IF T = {} THEN 0 ELSE f[One(T)] + t[T \ {One(T)}]
        /\ u[T] = IF T = {} THEN 0 ELSE g[One(T)] + u[T \ {One(T)}]
    BY <1>1, <1>2 DEF Sums
  <2>2. CASE T = {}
    BY <2>1, <2>2
  <2>3. CASE T # {}
    <3>1. PICK x \in T : x = One(T)
      BY <2>3, OneSmaller
    <3>2. PICK U : U = T \ {x}
      OBVIOUS
    <3>3. t[U] \in Int /\ u[U] = t[U] + (IF s \in U THEN v - f[s] ELSE 0)
      BY <1>3, <3>2
    <3>4. t[T] = f[x] + t[U] /\ u[T] = g[x] + u[U] /\ f[x] \in Nat /\ f[s] \in Nat
      BY <2>1, <2>3, <3>1, <3>2
    <3>5. CASE x = s
      BY <3>2, <3>3, <3>4, <3>5
    <3>6. CASE x # s
      BY <3>2, <3>3, <3>4, <3>6
    <3> QED
      BY <3>5, <3>6
  <2> QED
    BY <2>2, <2>3
<1>4. P = SUBSET S
  <2>1. P \in SUBSET (SUBSET S)
    OBVIOUS
  <2> HIDE DEF P
  <2> QED
    BY <1>3, <2>1, SubsetInduction
<1>5. S \in P
  BY <1>4
<1> QED
  BY <1>1, <1>2, <1>5

(***************************************************************************)
(* The message of the app.                                                 *)
(***************************************************************************)
LEMMA MessageBounds ==
    BarTicks \in Nat /\ HideTicks \in Nat /\ MaxPosts \in Nat /\ BarTicks < HideTicks
BY PartsAssumption DEF PartsAssumption, Message!NotificationsAssumption

MessageInv == Message!TypeOK /\ Message!BarTellsTime

LEMMA MessageInit ==
    ASSUME Message!Init
    PROVE  MessageInv
<1>1. Message!TypeOK
  <2>1. c3 \in 0 .. BarTicks /\ c4 \in 0 .. HideTicks /\ c6 \in 0 .. MaxPosts
    BY MessageBounds DEF Message!Init
  <2> QED
    BY <2>1 DEF Message!Init, Message!TypeOK
<1>2. Message!BarTellsTime
  BY DEF Message!Init, Message!BarTellsTime
<1> QED
  BY <1>1, <1>2 DEF MessageInv

LEMMA MessageTypes ==
    ASSUME Message!TypeOK, Message!Next
    PROVE  Message!TypeOK'
<1> USE MessageBounds DEF Message!TypeOK, Message!timer
<1>1. ASSUME NEW c \in Contents, Message!SetMessageIsOpen(c)
      PROVE  Message!TypeOK'
  <2>1. CASE c1 /\ c = c2
    BY <1>1, <2>1 DEF Message!SetMessageIsOpen
  <2>2. CASE ~(c1 /\ c = c2)
    <3>1. c4' = HideTicks /\ c5' = FALSE /\ c7' \in BOOLEAN
      BY <1>1, <2>2 DEF Message!SetMessageIsOpen
    <3>2. c3' \in 0 .. BarTicks /\ c4' \in 0 .. HideTicks /\ c6' \in 0 .. MaxPosts
      BY <1>1, <3>1 DEF Message!SetMessageIsOpen
    <3> QED
      BY <1>1, <3>1, <3>2 DEF Message!SetMessageIsOpen
  <2> QED
    BY <2>1, <2>2
<1>2. CASE Message!Tick
  BY <1>2 DEF Message!Tick, Message!TickBar
<1>3. CASE Message!Autohide \/ Message!UserCloses
  BY <1>3 DEF Message!Autohide, Message!UserCloses, Message!HandleMessageClose
<1>4. CASE Message!Enter
  BY <1>4 DEF Message!Enter
<1>5. CASE Message!Leave
  <2>1. HideTicks \div 2 \in 0 .. HideTicks
    OBVIOUS
  <2> QED
    BY <1>5, <2>1 DEF Message!Leave
<1> QED
  BY <1>1, <1>2, <1>3, <1>4, <1>5 DEF Message!Next

LEMMA MessageTime ==
    ASSUME MessageInv, Message!Next
    PROVE  Message!BarTellsTime'
<1> USE MessageBounds DEF MessageInv, Message!TypeOK, Message!BarTellsTime, Message!timer
<1>1. ASSUME NEW c \in Contents, Message!SetMessageIsOpen(c)
      PROVE  Message!BarTellsTime'
  <2>1. CASE c1 /\ c = c2
    BY <1>1, <2>1 DEF Message!SetMessageIsOpen
  <2>2. CASE ~(c1 /\ c = c2)
    BY <1>1, <2>2 DEF Message!SetMessageIsOpen
  <2> QED
    BY <2>1, <2>2
<1>2. CASE Message!Tick
  BY <1>2 DEF Message!Tick, Message!TickBar
<1>3. CASE Message!Autohide \/ Message!UserCloses
  BY <1>3 DEF Message!Autohide, Message!UserCloses, Message!HandleMessageClose
<1>4. CASE Message!Enter
  BY <1>4 DEF Message!Enter
<1>5. CASE Message!Leave
  BY <1>5 DEF Message!Leave
<1> QED
  BY <1>1, <1>2, <1>3, <1>4, <1>5 DEF Message!Next

\* While the message is open, its bar tells the time that is left to it.
LEMMA MessageHolds == Spec => [](open = "message" => MessageInv)
<1> DEFINE Inv == open = "message" => MessageInv
<1>1. Init => Inv
  BY MessageInit DEF Init
<1>2. Inv /\ [Next]_state => Inv'
  <2> SUFFICES ASSUME Inv, [Next]_state, open' = "message" PROVE MessageInv'
    OBVIOUS
  <2>1. open = "message" /\ MessageInv
    BY StaysOpen
  <2>2. Message!Next \/ UNCHANGED <<c1, c2, c3, c4, c5, c6, c7>>
    BY <2>1 DEF Next, state
  <2>3. CASE Message!Next
    BY <2>1, <2>3, MessageTypes, MessageTime DEF MessageInv
  <2>4. CASE UNCHANGED <<c1, c2, c3, c4, c5, c6, c7>>
    BY <2>1, <2>4 DEF MessageInv, Message!TypeOK, Message!BarTellsTime, Message!timer
  <2> QED
    BY <2>2, <2>3, <2>4
<1> QED
  BY <1>1, <1>2, PTL DEF Spec

\* BarTellsTime, for any number of messages and any times: the bar of the message is
\* what is left of its time (Snackbar.tsx:38).
THEOREM BarAlwaysTellsTime == Spec => []BarTellsTime
<1>1. (open = "message" => MessageInv) => BarTellsTime
  BY DEF MessageInv, BarTellsTime
<1> QED
  BY <1>1, MessageHolds, PTL

(***************************************************************************)
(* The ICP of main: c1 .. c5 are balance, call, kept, calls, failures.     *)
(***************************************************************************)
LEMMA IcpBounds == IsFiniteSet(Slots) /\ TopUps \subseteq Nat
BY PartsAssumption DEF Icp!TreasuryAssumption, Icp!IsFiniteSet, IsFiniteSet

\* The amount that a handler keeps is the share it sends next.
Handler(c) ==
    /\ c \in [awaits : Icp!Awaits, amount : Nat]
    /\ c.awaits = "mintDog" => c.amount = Icp!DogShare
    /\ c.awaits = "mintMain" => c.amount = Icp!MainShare
    /\ c.awaits \in {"deposit", "mint"} => c.amount > Icp!LedgerFee

IcpInv ==
    /\ c1 \in Nat /\ c3 \in Nat
    /\ DOMAIN c2 = Slots /\ c2 = [s \in Slots |-> c2[s]]
    /\ \A s \in Slots : Handler(c2[s])
    /\ Icp!Balanced

LEMMA IcpInvMeans ==
    ASSUME IcpInv
    PROVE  Icp!TypeOK /\ Icp!Balanced /\ Icp!WorthSending
<1>1. ASSUME NEW s \in Slots PROVE c2[s] \in [awaits : Icp!Awaits, amount : Nat]
  BY DEF IcpInv, Handler
<1>2. Icp!TypeOK
  BY <1>1 DEF IcpInv, Icp!TypeOK
<1>3. Icp!WorthSending
  BY DEF IcpInv, Handler, Icp!WorthSending
<1> QED
  BY <1>2, <1>3 DEF IcpInv

LEMMA OwedIsNat ==
    ASSUME NEW c, Handler(c)
    PROVE  Icp!OwedBy(c) \in Nat
BY DEF Handler, Icp!OwedBy, Icp!CreateFee, Icp!DogShare, Icp!MainShare

LEMMA IcpInit ==
    ASSUME Icp!Init
    PROVE  IcpInv
<1>1. ASSUME NEW s \in Slots PROVE Handler(c2[s]) /\ Icp!OwedBy(c2[s]) = 0
  BY DEF Icp!Init, Icp!Idle, Handler, Icp!Awaits, Icp!OwedBy
<1>2. Icp!Owed = [s \in Slots |-> 0]
  BY <1>1 DEF Icp!Owed
<1>3. Icp!SumFunction(Icp!Owed) = 0
  BY <1>2, SumOfZeros, IcpBounds
<1> QED
  BY <1>1, <1>3 DEF IcpInv, Icp!Init, Icp!Balanced

\* One handler goes on, and main's balance moves by what it has taken or sent.
Turn(s, next) ==
    /\ Handler(next)
    /\ c2' = [c2 EXCEPT ![s] = next]
    /\ c1' \in Nat /\ c3' \in Nat
    /\ c1' - c3' = c1 - c3 + Icp!OwedBy(next) - Icp!OwedBy(c2[s])

LEMMA TurnKeepsBalance ==
    ASSUME IcpInv, NEW s \in Slots, NEW next, Turn(s, next)
    PROVE  IcpInv'
<1>1. IsFiniteSet(Slots)
  BY IcpBounds
<1>2. Icp!Owed \in [Slots -> Nat] /\ Icp!OwedBy(next) \in Nat /\ Icp!Owed[s] = Icp!OwedBy(c2[s])
  BY OwedIsNat DEF IcpInv, Turn, Icp!Owed
<1>3. Icp!Owed' = [Icp!Owed EXCEPT ![s] = Icp!OwedBy(next)]
  BY DEF IcpInv, Turn, Icp!Owed
<1>4. PICK owed, owedNext : owed = Icp!Owed /\ owedNext = Icp!Owed'
  OBVIOUS
<1>5. Icp!SumFunction(owedNext) = Icp!SumFunction(owed) - owed[s] + Icp!OwedBy(next)
  BY <1>1, <1>2, <1>3, <1>4, SumUpdated
<1>6. Icp!SumFunction(owed) \in Nat
  BY <1>1, <1>2, <1>4, SumOfNaturals
<1>7. c1 = Icp!SumFunction(owed) + c3 /\ c1 \in Nat /\ c3 \in Nat /\ Icp!OwedBy(c2[s]) \in Nat
  BY <1>2, <1>4 DEF IcpInv, Icp!Balanced
<1>8. c1' = Icp!SumFunction(owedNext) + c3'
  BY <1>2, <1>4, <1>5, <1>6, <1>7 DEF Turn
<1>9. Icp!Balanced'
  BY <1>4, <1>8 DEF Icp!Balanced
<1>10. \A t \in Slots : Handler(c2[t])'
  BY DEF IcpInv, Turn, Handler
<1> QED
  BY <1>9, <1>10 DEF IcpInv, Turn

LEMMA IcpTurns ==
    ASSUME IcpInv, Icp!Next
    PROVE  \E s \in Slots : \E next : Turn(s, next)
<1>1. PICK s \in Slots : Icp!CreateDog(s) \/ Icp!AddCycles(s) \/ Icp!Answer(s)
  BY DEF Icp!Next
<1>2. c1 \in Nat /\ c3 \in Nat /\ Handler(c2[s]) /\ DOMAIN c2 = Slots
  BY <1>1 DEF IcpInv
<1> SUFFICES \E next : Turn(s, next)
  BY <1>1
<1> USE <1>2 DEF Icp!GoesOn, Icp!Suspended, Icp!Idle, Icp!Awaits, Icp!Take, Icp!Fails, Icp!CreateFee,
        Icp!DaoShare, Icp!DogShare, Icp!MainShare, Icp!LedgerFee, Icp!OwedBy, Handler, Turn
<1>3. ASSUME Icp!CreateDog(s)
      PROVE  Turn(s, Icp!Suspended("price", Icp!CreateFee))
  BY <1>3 DEF Icp!CreateDog
<1>4. ASSUME Icp!AddCycles(s)
      PROVE  \E n : Turn(s, Icp!Suspended("deposit", n))
  <2>1. PICK amount \in TopUps : Icp!LargeEnough(amount) /\ Icp!GoesOn(s, Icp!Suspended("deposit", Icp!Deposit(amount)))
    BY <1>4 DEF Icp!AddCycles
  <2>2. amount \in Nat
    BY IcpBounds
  <2>3. Handler(Icp!Suspended("deposit", Icp!Deposit(amount)))
    BY <2>1, <2>2 DEF Icp!LargeEnough, Icp!LeastTopUp, Icp!Deposit
  <2>4. c2[s] = Icp!Idle /\ c1' = c1 /\ c3' = c3
    BY <1>4 DEF Icp!AddCycles
  <2>5. Turn(s, Icp!Suspended("deposit", Icp!Deposit(amount)))
    BY <2>1, <2>3, <2>4
  <2> HIDE DEF Turn, Handler, Icp!Suspended
  <2> QED
    BY <2>5
<1>5. ASSUME Icp!CreateDogPaid(s)
      PROVE  Turn(s, Icp!Suspended("install", 0)) \/ Turn(s, Icp!Idle)
  BY <1>5 DEF Icp!CreateDogPaid
<1>6. ASSUME Icp!Installed(s)
      PROVE  Turn(s, Icp!Suspended("balance", 0)) \/ Turn(s, Icp!Idle)
  BY <1>6 DEF Icp!Installed
<1>7. ASSUME Icp!AddMainCycles(s)
      PROVE  Turn(s, Icp!Suspended("dao", 0)) \/ Turn(s, Icp!Idle)
  BY <1>7 DEF Icp!AddMainCycles, Icp!Enough
<1>8. ASSUME Icp!DaoPaid(s)
      PROVE  Turn(s, Icp!Suspended("mintDog", Icp!DogShare))
  BY <1>8 DEF Icp!DaoPaid, Icp!Send, Icp!HasFunds
<1>9. ASSUME Icp!MintTransfer(s, "mintDog", "notifyDog", Icp!MainNext)
      PROVE  Turn(s, Icp!Suspended("notifyDog", Icp!DogShare)) \/ Turn(s, Icp!MainNext)
  BY <1>9 DEF Icp!MintTransfer, Icp!MainNext, Icp!Send, Icp!HasFunds
<1>10. ASSUME Icp!MintTransfer(s, "mintMain", "notifyMain", Icp!Idle)
      PROVE  Turn(s, Icp!Suspended("notifyMain", Icp!MainShare)) \/ Turn(s, Icp!Idle)
  BY <1>10 DEF Icp!MintTransfer, Icp!Send, Icp!HasFunds
<1>11. ASSUME Icp!MintTransfer(s, "mint", "notify", Icp!Idle)
      PROVE  Turn(s, Icp!Suspended("notify", c2[s].amount)) \/ Turn(s, Icp!Idle)
  BY <1>11 DEF Icp!MintTransfer, Icp!Send, Icp!HasFunds
<1>12. ASSUME Icp!MintCycles(s, "notifyDog", Icp!MainNext)
      PROVE  Turn(s, Icp!MainNext)
  BY <1>12 DEF Icp!MintCycles, Icp!MainNext
<1>13. ASSUME Icp!MintCycles(s, "notifyMain", Icp!Idle) \/ Icp!MintCycles(s, "notify", Icp!Idle)
      PROVE  Turn(s, Icp!Idle)
  BY <1>13 DEF Icp!MintCycles
<1>14. ASSUME Icp!AddCyclesPaid(s)
      PROVE  Turn(s, Icp!Suspended("mint", c2[s].amount)) \/ Turn(s, Icp!Idle)
  BY <1>14 DEF Icp!AddCyclesPaid
<1> HIDE DEF Turn, Icp!Suspended, Icp!Idle
<1> QED
  BY <1>1, <1>3, <1>4, <1>5, <1>6, <1>7, <1>8, <1>9, <1>10, <1>11, <1>12, <1>13, <1>14 DEF Icp!Answer

LEMMA IcpNext ==
    ASSUME IcpInv, Icp!Next
    PROVE  IcpInv'
BY IcpTurns, TurnKeepsBalance

\* While main's ICP is looked at, the balance is what its handlers will send on and
\* what failed ones have left.
LEMMA IcpHolds == Spec => [](open = "icp" => IcpInv)
<1> DEFINE Inv == open = "icp" => IcpInv
<1>1. Init => Inv
  BY IcpInit DEF Init
<1>2. Inv /\ [Next]_state => Inv'
  <2> SUFFICES ASSUME Inv, [Next]_state, open' = "icp" PROVE IcpInv'
    OBVIOUS
  <2>1. open = "icp" /\ IcpInv
    BY StaysOpen
  <2>2. Icp!Next \/ UNCHANGED <<c1, c2, c3, c4, c5>>
    BY <2>1 DEF Next, state
  <2>3. CASE Icp!Next
    BY <2>1, <2>3, IcpNext
  <2>4. CASE UNCHANGED <<c1, c2, c3, c4, c5>>
    BY <2>1, <2>4 DEF IcpInv, Handler, Icp!Balanced, Icp!Owed
  <2> QED
    BY <2>2, <2>3, <2>4
<1> QED
  BY <1>1, <1>2, PTL DEF Spec

LEMMA LeastExists ==
    ASSUME NEW S \in SUBSET Nat, S # {}
    PROVE  \E m \in S : \A n \in S : m <= n
<1>1. PICK m \in S : \A n \in S : ~(<<n, m>> \in OpToRel(<, Nat))
  BY NatLessThanWellFounded, WFMin
<1>2. \A n \in S : ~(n < m)
  BY <1>1 DEF OpToRel
<1> QED
  BY <1>2

(***************************************************************************)
(* Ranks: how many members of a set of numbers are at most n.              *)
(***************************************************************************)
Rank(S, n) == Cardinality({j \in S : j <= n})

LEMMA RankStep ==
    ASSUME NEW S \in SUBSET (Nat \ {0})
    PROVE  /\ Rank(S, 0) = 0
           /\ \A n \in Nat : /\ Rank(S, n) \in Nat
                             /\ IsFiniteSet({j \in S : j <= n})
                             /\ Rank(S, n + 1) = Rank(S, n) + IF n + 1 \in S THEN 1 ELSE 0
<1>0. \A j \in S : j \in Nat /\ j # 0
  OBVIOUS
<1>1. {j \in S : j <= 0} = {}
  <2>1. \A j \in S : ~(j <= 0)
    BY <1>0
  <2> QED
    BY <2>1
<1>2. ASSUME NEW n \in Nat PROVE IsFiniteSet({j \in S : j <= n})
  <2>1. IsFiniteSet(1 .. n)
    BY FS_Interval
  <2>2. \A j \in S : j <= n => j \in 1 .. n
    BY <1>0
  <2>3. {j \in S : j <= n} \in SUBSET (1 .. n)
    BY <2>2
  <2> QED
    BY <2>1, <2>3, FS_Subset
<1>3. ASSUME NEW n \in Nat, n + 1 \in S PROVE Rank(S, n + 1) = Rank(S, n) + 1
  <2>1. {j \in S : j <= n + 1} = {j \in S : j <= n} \cup {n + 1}
    <3>1. \A j \in S : j <= n + 1 <=> j <= n \/ j = n + 1
      BY <1>0
    <3> QED
      BY <1>3, <3>1
  <2>2. n + 1 \notin {j \in S : j <= n}
    OBVIOUS
  <2> QED
    BY <1>2, <2>1, <2>2, FS_AddElement DEF Rank
<1>4. ASSUME NEW n \in Nat, n + 1 \notin S PROVE Rank(S, n + 1) = Rank(S, n)
  <2>1. {j \in S : j <= n + 1} = {j \in S : j <= n}
    <3>1. \A j \in S : j <= n + 1 <=> j <= n \/ j = n + 1
      BY <1>0
    <3> QED
      BY <1>4, <3>1
  <2> QED
    BY <2>1 DEF Rank
<1>5. \A n \in Nat : Rank(S, n) \in Nat
  BY <1>2, FS_CardinalityType DEF Rank
<1> QED
  BY <1>1, <1>2, <1>3, <1>4, <1>5, FS_EmptySet DEF Rank

LEMMA RankOrder ==
    ASSUME NEW S \in SUBSET (Nat \ {0})
    PROVE  /\ \A n \in Nat : Rank(S, n) \in Nat /\ Rank(S, n) <= n
           /\ \A m, n \in Nat : m <= n => Rank(S, m) <= Rank(S, n)
           /\ \A m \in Nat : \A i \in S : m < i => Rank(S, m) < Rank(S, i)
<1> USE RankStep
<1>1. \A m, n \in Nat : m <= n => Rank(S, m) <= Rank(S, n)
  <2> SUFFICES ASSUME NEW m \in Nat, NEW n \in Nat, m <= n PROVE Rank(S, m) <= Rank(S, n)
    OBVIOUS
  <2>1. \A j \in S : j <= m => j <= n
    OBVIOUS
  <2>2. IsFiniteSet({j \in S : j <= n})
    OBVIOUS
  <2>3. {j \in S : j <= m} \in SUBSET {j \in S : j <= n}
    BY <2>1
  <2> QED
    BY <2>2, <2>3, FS_Subset DEF Rank
<1>2. \A n \in Nat : Rank(S, n) <= n
  <2> DEFINE P == {n \in Nat : Rank(S, n) <= n}
  <2>1. 0 \in P /\ P \in SUBSET Nat
    OBVIOUS
  <2>2. ASSUME NEW n \in P PROVE n + 1 \in P
    <3>1. n \in Nat /\ n + 1 \in Nat /\ Rank(S, n) <= n
      OBVIOUS
    <3>2. Rank(S, n) \in Nat /\ Rank(S, n + 1) = Rank(S, n) + IF n + 1 \in S THEN 1 ELSE 0
      BY <3>1
    <3> QED
      BY <3>1, <3>2
  <2>3. P = Nat
    <3> HIDE DEF P
    <3> QED
      BY <2>1, <2>2, NatSetInduction
  <2> QED
    BY <2>3
<1>3. ASSUME NEW m \in Nat, NEW i \in S, m < i PROVE Rank(S, m) < Rank(S, i)
  <2>1. i - 1 \in Nat /\ (i - 1) + 1 = i /\ m <= i - 1
    BY <1>3
  <2>2. Rank(S, i) = Rank(S, i - 1) + 1 /\ Rank(S, i - 1) \in Nat
    <3>1. Rank(S, (i - 1) + 1) = Rank(S, i - 1) + IF (i - 1) + 1 \in S THEN 1 ELSE 0
      BY <2>1
    <3> QED
      BY <2>1, <3>1
  <2>3. Rank(S, m) <= Rank(S, i - 1) /\ Rank(S, m) \in Nat
    BY <1>1, <2>1
  <2> QED
    BY <2>2, <2>3
<1> QED
  BY <1>1, <1>2, <1>3

\* Every rank up to the highest is that of a member.
LEMMA RankOnto ==
    ASSUME NEW S \in SUBSET (Nat \ {0}), NEW n \in Nat, NEW k \in 1 .. Rank(S, n)
    PROVE  \E i \in S : i <= n /\ Rank(S, i) = k
<1> DEFINE P == {m \in Nat : \A j \in 1 .. Rank(S, m) : \E i \in S : i <= m /\ Rank(S, i) = j}
<1> USE RankStep
<1>1. 0 \in P /\ P \in SUBSET Nat
  OBVIOUS
<1>2. ASSUME NEW m \in P PROVE m + 1 \in P
  <2> SUFFICES ASSUME NEW j \in 1 .. Rank(S, m + 1)
               PROVE  \E i \in S : i <= m + 1 /\ Rank(S, i) = j
    OBVIOUS
  <2>1. Rank(S, m) \in Nat /\ Rank(S, m + 1) = Rank(S, m) + IF m + 1 \in S THEN 1 ELSE 0
    OBVIOUS
  <2>2. CASE j \in 1 .. Rank(S, m)
    <3>1. PICK i \in S : i <= m /\ Rank(S, i) = j
      BY <2>2
    <3> QED
      BY <3>1
  <2>3. CASE j \notin 1 .. Rank(S, m)
    <3>1. m + 1 \in S /\ Rank(S, m + 1) = Rank(S, m) + 1
      BY <2>1, <2>3
    <3>2. j = Rank(S, m + 1)
      BY <2>1, <2>3, <3>1
    <3> QED
      BY <3>1, <3>2
  <2> QED
    BY <2>2, <2>3
<1>3. P = Nat
  <2> HIDE DEF P
  <2> QED
    BY <1>1, <1>2, NatSetInduction
<1>4. n \in P
  BY <1>3
<1> QED
  BY <1>4

(***************************************************************************)
(* The batches: c1 .. c9 are what BatchTransact calls shape, batch, cursor, *)
(* wraps, fed, runs, doubtful, retries, failures.                           *)
(***************************************************************************)
shape == c1
batch == c2
cursor == c3
wraps == c4
fed == c5
runs == c6
doubtful == c7
retries == c8
USE DEF shape, batch, cursor, wraps, fed, runs, doubtful, retries

Steps == 1 .. N
Groups == 1 .. Batches!GroupOf(N)
First(g) == Batches!FirstOf(g)
\* The last step of a group.
Last(g) == IF g < Batches!GroupOf(N) THEN First(g + 1) - 1 ELSE N

LEMMA BatchBounds ==
    /\ N \in Nat \ {0} /\ Steps \subseteq Nat \ {0} /\ None \notin Steps /\ None \notin Nat \X Nat
    /\ Batches!Steps = Steps
    /\ MaxPrepares \in Nat /\ MaxRetries \in Nat /\ MaxFailures \in Nat
BY PartsAssumption DEF Batches!ShapesAssumption, Batches!Steps, Steps

LEMMA ShapeTypes ==
    ASSUME shape \in Shapes
    PROVE  /\ shape.ends \in SUBSET Steps /\ shape.callbacks \in SUBSET Steps
           /\ shape.methods \in SUBSET Steps
BY PartsAssumption, BatchBounds DEF Batches!ShapesAssumption

\* A step's group is one more than the ends before it.
LEMMA GroupIsRank ==
    ASSUME shape \in Shapes, NEW s \in Steps
    PROVE  Batches!GroupOf(s) = 1 + Rank(shape.ends, s - 1)
<1>0. (\A e \in shape.ends : e \in Nat) /\ s \in Nat
  BY ShapeTypes, BatchBounds
<1>1. \A e \in shape.ends : e < s <=> e <= s - 1
  BY <1>0
<1>2. {e \in shape.ends : e < s} = {j \in shape.ends : j <= s - 1}
  BY <1>1
<1>3. \A S : Batches!Cardinality(S) = Cardinality(S)
  BY DEF Batches!Cardinality, Cardinality
<1> QED
  BY <1>2, <1>3 DEF Batches!GroupOf, Rank

LEMMA GroupOrder ==
    ASSUME shape \in Shapes
    PROVE  /\ \A s \in Steps : Batches!GroupOf(s) \in Groups
           /\ Batches!GroupOf(1) = 1
           /\ Batches!GroupOf(N) \in Nat \ {0}
           /\ \A r, s \in Steps : r <= s => Batches!GroupOf(r) <= Batches!GroupOf(s)
           /\ \A s \in Steps : s < N => Batches!GroupOf(s + 1) =
                    IF s \in shape.ends THEN Batches!GroupOf(s) + 1 ELSE Batches!GroupOf(s)
<1>1. shape.ends \in SUBSET (Nat \ {0})
  BY ShapeTypes, BatchBounds
<1>2. \A s \in Steps : s - 1 \in Nat /\ (s - 1) + 1 = s
  BY BatchBounds
<1>3. \A s \in Steps : Batches!GroupOf(s) \in Nat \ {0}
  <2> TAKE s \in Steps
  <2>1. Rank(shape.ends, s - 1) \in Nat
    BY <1>1, <1>2, RankOrder
  <2> QED
    BY <2>1, GroupIsRank
<1>4. \A r, s \in Steps : r <= s => Batches!GroupOf(r) <= Batches!GroupOf(s)
  <2> SUFFICES ASSUME NEW r \in Steps, NEW s \in Steps, r <= s
               PROVE  Batches!GroupOf(r) <= Batches!GroupOf(s)
    OBVIOUS
  <2>1. r - 1 \in Nat /\ s - 1 \in Nat /\ r - 1 <= s - 1
    BY BatchBounds
  <2>2. Rank(shape.ends, r - 1) <= Rank(shape.ends, s - 1)
    BY <1>1, <2>1, RankOrder
  <2>3. Rank(shape.ends, r - 1) \in Nat /\ Rank(shape.ends, s - 1) \in Nat
    BY <1>1, <2>1, RankOrder
  <2> QED
    BY <2>2, <2>3, GroupIsRank
<1>5. 1 \in Steps /\ N \in Steps
  BY BatchBounds DEF Steps
<1>6. Batches!GroupOf(1) = 1
  <2>1. Rank(shape.ends, 1 - 1) = 0
    BY <1>1, RankStep
  <2> QED
    BY <1>5, <2>1, GroupIsRank
<1>7. ASSUME NEW s \in Steps, s < N
      PROVE  Batches!GroupOf(s + 1) =
                 IF s \in shape.ends THEN Batches!GroupOf(s) + 1 ELSE Batches!GroupOf(s)
  <2>1. s + 1 \in Steps /\ (s + 1) - 1 = s /\ (s - 1) + 1 = s /\ s - 1 \in Nat
    BY <1>7, BatchBounds DEF Steps
  <2>2. Rank(shape.ends, s) = Rank(shape.ends, s - 1) + IF s \in shape.ends THEN 1 ELSE 0
    <3>1. Rank(shape.ends, (s - 1) + 1)
              = Rank(shape.ends, s - 1) + IF (s - 1) + 1 \in shape.ends THEN 1 ELSE 0
      BY <1>1, <2>1, RankStep
    <3> QED
      BY <2>1, <3>1
  <2>3. Rank(shape.ends, s - 1) \in Nat
    BY <1>1, <2>1, RankOrder
  <2>4. Batches!GroupOf(s) = 1 + Rank(shape.ends, s - 1)
    BY GroupIsRank
  <2>5. Batches!GroupOf(s + 1) = 1 + Rank(shape.ends, s)
    BY <2>1, GroupIsRank
  <2> QED
    BY <2>2, <2>3, <2>4, <2>5
<1>8. \A s \in Steps : Batches!GroupOf(s) \in Groups
  <2> TAKE s \in Steps
  <2>1. s <= N
    BY DEF Steps
  <2> QED
    BY <1>3, <1>4, <1>5, <2>1 DEF Groups
<1> QED
  BY <1>3, <1>4, <1>5, <1>6, <1>7, <1>8

\* f is the first step of group g.
Leads(f, g) ==
    /\ f \in Steps /\ Batches!GroupOf(f) = g
    /\ \A r \in Steps : Batches!GroupOf(r) = g => f <= r
    /\ g = 1 => f = 1
    /\ g > 1 => f - 1 \in shape.ends

LEMMA FirstOfGroup ==
    ASSUME shape \in Shapes, NEW g \in Groups
    PROVE  Leads(First(g), g)
<1>1. shape.ends \in SUBSET (Nat \ {0})
  BY ShapeTypes, BatchBounds
<1>2. 1 \in Steps /\ N \in Steps /\ N \in Nat \ {0}
  BY BatchBounds DEF Steps
<1>3. g \in Nat \ {0} /\ g <= Batches!GroupOf(N) /\ Batches!GroupOf(N) \in Nat \ {0}
  BY GroupOrder DEF Groups
<1>4. \E f : Leads(f, g)
  <2>1. CASE g = 1
    <3>1. \A r \in Steps : 1 <= r
      BY DEF Steps
    <3>2. Leads(1, 1)
      BY <1>2, <3>1, GroupOrder DEF Leads
    <3> QED
      BY <2>1, <3>2
  <2>2. CASE g > 1
    <3>1. g - 1 \in 1 .. Rank(shape.ends, N - 1)
      <4>1. Batches!GroupOf(N) = 1 + Rank(shape.ends, N - 1)
        BY <1>2, GroupIsRank
      <4>2. Rank(shape.ends, N - 1) \in Nat
        BY <1>1, <1>2, RankOrder
      <4> QED
        BY <1>3, <2>2, <4>1, <4>2
    <3>2. PICK i \in shape.ends : i <= N - 1 /\ Rank(shape.ends, i) = g - 1
      BY <1>1, <1>2, <3>1, RankOnto
    <3>3. i \in Nat \ {0} /\ i + 1 \in Steps /\ (i + 1) - 1 = i
      BY <1>1, <1>2, <3>2 DEF Steps
    <3>4. Batches!GroupOf(i + 1) = g
      <4>1. Batches!GroupOf(i + 1) = 1 + Rank(shape.ends, i)
        BY <3>3, GroupIsRank
      <4> QED
        BY <1>3, <3>2, <4>1
    <3>5. ASSUME NEW r \in Steps, r <= i PROVE Batches!GroupOf(r) # g
      <4>1. r - 1 \in Nat /\ r - 1 < i
        BY <3>3, <3>5, BatchBounds
      <4>2. Rank(shape.ends, r - 1) < Rank(shape.ends, i) /\ Rank(shape.ends, r - 1) \in Nat
        BY <1>1, <4>1, RankOrder
      <4>3. Batches!GroupOf(r) = 1 + Rank(shape.ends, r - 1)
        BY GroupIsRank
      <4> QED
        BY <1>3, <3>2, <4>2, <4>3
    <3>6. \A r \in Steps : Batches!GroupOf(r) = g => i + 1 <= r
      BY <3>3, <3>5, BatchBounds
    <3>7. Leads(i + 1, g)
      BY <2>2, <3>3, <3>4, <3>6 DEF Leads
    <3> QED
      BY <3>7
  <2> QED
    BY <1>3, <2>1, <2>2
<1>5. PICK f : Leads(f, g)
  BY <1>4
<1>6. First(g) = f
  <2>1. f \in Batches!Members(g) /\ \A r \in Batches!Members(g) : f <= r
    BY <1>5, BatchBounds DEF Batches!Members, Leads
  <2>2. ASSUME NEW x \in Batches!Members(g), \A r \in Batches!Members(g) : x <= r
        PROVE  x = f
    <3>1. x \in Nat /\ f \in Nat /\ x <= f /\ f <= x
      BY <2>1, <2>2, BatchBounds DEF Batches!Members
    <3> QED
      BY <3>1
  <2> QED
    BY <2>1, <2>2 DEF First, Batches!FirstOf
<1> QED
  BY <1>5, <1>6

\* Groups are intervals, one after the other, from 1 to N.
LEMMA GroupLayout ==
    ASSUME shape \in Shapes, NEW g \in Groups
    PROVE  /\ First(g) \in Steps /\ Last(g) \in Steps /\ First(g) <= Last(g)
           /\ \A s \in Steps : Batches!GroupOf(s) = g <=> First(g) <= s /\ s <= Last(g)
           /\ g < Batches!GroupOf(N) => g + 1 \in Groups /\ First(g + 1) = Last(g) + 1
           /\ g = Batches!GroupOf(N) => Last(g) = N
<1> DEFINE G == Batches!GroupOf(N)
<1>1. G \in Nat \ {0} /\ g \in Nat \ {0} /\ g <= G /\ N \in Steps
  BY GroupOrder, BatchBounds DEF Groups, Steps
<1>2. First(g) \in Steps /\ Batches!GroupOf(First(g)) = g
  BY FirstOfGroup DEF Leads
<1>3. \A s \in Steps : Batches!GroupOf(s) \in Nat /\ Batches!GroupOf(s) <= G
  BY <1>1, GroupOrder DEF Groups
<1>4. CASE g < G
  <2>1. g + 1 \in Groups /\ g + 1 > 1
    BY <1>1, <1>4 DEF Groups
  <2>2. /\ First(g + 1) \in Steps /\ Batches!GroupOf(First(g + 1)) = g + 1
        /\ \A r \in Steps : Batches!GroupOf(r) = g + 1 => First(g + 1) <= r
        /\ First(g + 1) - 1 \in shape.ends
    BY <2>1, FirstOfGroup DEF Leads
  <2>3. PICK a \in Steps, b \in Steps : a = First(g) /\ b = First(g + 1) - 1
    BY <1>2, <2>2, ShapeTypes
  <2>4. First(g + 1) = b + 1 /\ Last(g) = b
    <3>1. First(g + 1) \in Nat
      BY <2>2, BatchBounds
    <3> QED
      BY <1>4, <2>3, <3>1 DEF Last
  <2>5. a < b + 1
    <3>1. \A r, s \in Steps : r <= s => Batches!GroupOf(r) <= Batches!GroupOf(s)
      BY GroupOrder
    <3>2. ~(b + 1 <= a)
      BY <1>1, <1>2, <2>2, <2>3, <2>4, <3>1
    <3> QED
      BY <3>2, BatchBounds
  <2>6. ASSUME NEW s \in Steps, a <= s, s <= b PROVE Batches!GroupOf(s) = g
    <3>1. g <= Batches!GroupOf(s) /\ Batches!GroupOf(s) <= g + 1
      <4>1. s <= b + 1
        BY <2>6, BatchBounds
      <4> QED
        BY <1>2, <2>2, <2>3, <2>4, <2>6, <4>1, GroupOrder
    <3>2. Batches!GroupOf(s) # g + 1
      BY <2>2, <2>4, <2>6, BatchBounds
    <3> QED
      BY <1>1, <1>3, <3>1, <3>2
  <2>7. ASSUME NEW s \in Steps, Batches!GroupOf(s) = g PROVE a <= s /\ s <= b
    <3>1. a <= s
      BY <2>3, <2>7, FirstOfGroup DEF Leads
    <3>2. ~(b + 1 <= s)
      BY <1>1, <2>2, <2>4, <2>7, GroupOrder
    <3> QED
      BY <3>1, <3>2, BatchBounds
  <2> QED
    BY <1>1, <1>4, <2>1, <2>3, <2>4, <2>5, <2>6, <2>7, BatchBounds
<1>5. CASE g = G
  <2>1. Last(g) = N
    BY <1>1, <1>5 DEF Last
  <2>2. First(g) <= N
    BY <1>2 DEF Steps
  <2>3. ASSUME NEW s \in Steps, First(g) <= s PROVE Batches!GroupOf(s) = g
    BY <1>1, <1>2, <1>3, <1>5, <2>3, GroupOrder
  <2>4. \A s \in Steps : s <= N
    BY DEF Steps
  <2> QED
    BY <1>1, <1>2, <1>5, <2>1, <2>2, <2>3, <2>4, FirstOfGroup DEF Leads
<1> QED
  BY <1>1, <1>4, <1>5

(***************************************************************************)
(* Groups as _prepareTrxArry lays them out, and places in them.            *)
(***************************************************************************)
Size(g) == Last(g) - First(g) + 1
Place(s) == Batches!Index(s)

LEMMA MembersAre ==
    ASSUME shape \in Shapes, NEW g \in Groups
    PROVE  /\ Batches!Members(g) = First(g) .. Last(g)
           /\ Size(g) \in Nat \ {0}
           /\ Batches!Cardinality(Batches!Members(g)) = Size(g)
<1>1. First(g) \in Nat /\ Last(g) \in Nat /\ First(g) <= Last(g) /\ First(g) >= 1 /\ Last(g) <= N
  BY GroupLayout, BatchBounds DEF Steps
<1>2. \A s \in Steps : Batches!GroupOf(s) = g <=> First(g) <= s /\ s <= Last(g)
  BY GroupLayout
<1>3. \A s : s \in First(g) .. Last(g) => s \in Steps /\ First(g) <= s /\ s <= Last(g)
  BY <1>1, BatchBounds DEF Steps
<1>4. \A s \in Steps : First(g) <= s /\ s <= Last(g) => s \in First(g) .. Last(g)
  <2> TAKE s \in Steps
  <2>1. s \in Nat
    BY BatchBounds
  <2> QED
    BY <1>1, <2>1
<1>5. Batches!Members(g) = First(g) .. Last(g)
  BY <1>2, <1>3, <1>4, BatchBounds DEF Batches!Members
<1>6. Cardinality(First(g) .. Last(g)) = Size(g)
  <2>1. \A a, b \in Nat : a <= b => Cardinality(a .. b) = b - a + 1
    BY FS_Interval
  <2> QED
    BY <1>1, <2>1 DEF Size
<1>7. \A S : Batches!Cardinality(S) = Cardinality(S)
  BY DEF Batches!Cardinality, Cardinality
<1> QED
  BY <1>1, <1>5, <1>6, <1>7 DEF Size

LEMMA PlaceIs ==
    ASSUME shape \in Shapes, NEW s \in Steps
    PROVE  /\ Batches!GroupOf(s) \in Groups
           /\ Place(s) \in 1 .. Size(Batches!GroupOf(s))
           /\ Place(s) = s - First(Batches!GroupOf(s)) + 1
           /\ First(Batches!GroupOf(s)) + Place(s) - 1 = s
<1>1. PICK g \in Groups : g = Batches!GroupOf(s)
  BY GroupOrder
<1>2. First(g) \in Nat /\ Last(g) \in Nat /\ First(g) <= s /\ s <= Last(g) /\ s \in Nat
  BY <1>1, GroupLayout, BatchBounds
<1>3. Place(s) = s - First(g) + 1
  BY <1>1 DEF Place, Batches!Index, First
<1> QED
  BY <1>1, <1>2, <1>3 DEF Size

\* A group as it was prepared.
Whole(g) == [k \in 1 .. Size(g) |-> First(g) + k - 1]

LEMMA PreparedIs ==
    ASSUME shape \in Shapes
    PROVE  /\ Batches!Prepared = [g \in Groups |-> Whole(g)]
           /\ Batches!Prepared \in Seq(Seq(Steps))
           /\ Len(Batches!Prepared) = Batches!GroupOf(N)
           /\ \A g \in Groups : /\ Whole(g) \in Seq(Steps) /\ Len(Whole(g)) = Size(g)
                                /\ Whole(g) # <<>>
                                /\ DOMAIN Whole(g) = 1 .. Size(g)
                                /\ Size(g) \in Nat \ {0}
           /\ \A s \in Steps : Whole(Batches!GroupOf(s))[Place(s)] = s
<1>1. \A g \in Groups :
        [k \in 1 .. Batches!Cardinality(Batches!Members(g)) |-> Batches!FirstOf(g) + k - 1] = Whole(g)
  BY MembersAre DEF Whole, First
<1>2. Batches!Prepared = [g \in Groups |-> Whole(g)]
  BY <1>1 DEF Batches!Prepared, Groups
<1>3. ASSUME NEW g \in Groups
      PROVE  /\ Whole(g) \in Seq(Steps) /\ Len(Whole(g)) = Size(g) /\ Whole(g) # <<>>
             /\ DOMAIN Whole(g) = 1 .. Size(g) /\ Size(g) \in Nat \ {0}
  <2>1. Size(g) \in Nat \ {0}
    BY MembersAre
  <2>2. First(g) \in Nat \ {0} /\ Last(g) \in Nat /\ Last(g) <= N
    BY GroupLayout, BatchBounds DEF Steps
  <2>3. PICK n \in Nat \ {0}, a \in Nat \ {0}, b \in Nat :
          n = Size(g) /\ a = First(g) /\ b = Last(g) /\ n = b - a + 1 /\ b <= N
    BY <2>1, <2>2 DEF Size
  <2>4. \A k \in 1 .. n : a + k - 1 \in Steps
    BY <2>3, BatchBounds DEF Steps
  <2>5. Whole(g) = [k \in 1 .. n |-> a + k - 1]
    BY <2>3 DEF Whole
  <2>6. Whole(g) \in [1 .. n -> Steps]
    BY <2>4, <2>5
  <2> QED
    BY <2>3, <2>6
<1>4. Batches!GroupOf(N) \in Nat
  BY GroupOrder
<1>5. Batches!Prepared \in [1 .. Batches!GroupOf(N) -> Seq(Steps)]
  BY <1>2, <1>3 DEF Groups
<1>6. ASSUME NEW s \in Steps PROVE Whole(Batches!GroupOf(s))[Place(s)] = s
  BY PlaceIs DEF Whole
<1> QED
  BY <1>2, <1>3, <1>4, <1>5, <1>6

(***************************************************************************)
(* trxArray[i][j] and the loops over it.                                   *)
(***************************************************************************)
Lists == Seq(Seq(Steps))

LEMMA AtIs ==
    ASSUME NEW trx \in Lists, NEW i, NEW j
    PROVE  /\ Batches!At(trx, i, j) \in Steps \cup {None}
           /\ i \in DOMAIN trx /\ j \in DOMAIN trx[i] =>
                Batches!At(trx, i, j) = trx[i][j] /\ trx[i][j] \in Steps
           /\ ~(i \in DOMAIN trx /\ j \in DOMAIN trx[i]) => Batches!At(trx, i, j) = None
<1>1. i \in DOMAIN trx => trx[i] \in Seq(Steps)
  BY DEF Lists
<1>2. i \in DOMAIN trx /\ j \in DOMAIN trx[i] => trx[i][j] \in Steps
  BY <1>1
<1> QED
  BY <1>2 DEF Batches!At

\* At a place there is a step.
Holds(trx, place) ==
    place # None => \E g \in DOMAIN trx : \E j \in DOMAIN trx[g] : place = <<g, j>>

LEMMA FollowingIs ==
    ASSUME NEW trx \in Lists, NEW i \in Nat \ {0}, NEW k \in Nat \ {0}
    PROVE  LET F == Batches!Following(trx, i, k) IN
           /\ i \in DOMAIN trx /\ k <= Len(trx[i]) => F = <<i, k>>
           /\ ~(i \in DOMAIN trx /\ k <= Len(trx[i])) =>
                /\ \A g \in DOMAIN trx :
                     i < g /\ trx[g] # <<>> /\ (\A h \in DOMAIN trx : i < h /\ h < g => trx[h] = <<>>)
                        => F = <<g, 1>>
                /\ (\A h \in DOMAIN trx : i < h => trx[h] = <<>>) => F = None
           /\ Holds(trx, F)
<1> DEFINE F == Batches!Following(trx, i, k)
           Nonempty == {g \in i + 1 .. Len(trx) : trx[g] # <<>>}
           Inside == i \in DOMAIN trx /\ k <= Len(trx[i])
           Least == CHOOSE g \in Nonempty : \A h \in Nonempty : g <= h
<1>0. Len(trx) \in Nat /\ DOMAIN trx = 1 .. Len(trx) /\ \A g \in DOMAIN trx : trx[g] \in Seq(Steps)
  BY DEF Lists
<1>1. Inside => F = <<i, k>>
  BY DEF Batches!Following
<1>2. ~Inside /\ Nonempty # {} => F = <<Least, 1>>
  BY DEF Batches!Following
<1>3. ~Inside /\ Nonempty = {} => F = None
  BY DEF Batches!Following
<1>4. \A g : g \in Nonempty <=> g \in DOMAIN trx /\ i < g /\ trx[g] # <<>>
  BY <1>0
<1>5. ASSUME NEW g \in DOMAIN trx, i < g, trx[g] # <<>>,
             \A h \in DOMAIN trx : i < h /\ h < g => trx[h] = <<>>
      PROVE  Least = g
  <2>1. g \in Nonempty /\ \A h \in Nonempty : g <= h
    BY <1>0, <1>4, <1>5
  <2>2. ASSUME NEW x \in Nonempty, \A h \in Nonempty : x <= h PROVE x = g
    <3>1. x \in Nat /\ g \in Nat /\ x <= g /\ g <= x
      BY <1>0, <1>4, <2>1, <2>2
    <3> QED
      BY <3>1
  <2> HIDE DEF Nonempty
  <2> QED
    BY <2>1, <2>2
<1>6. (\A h \in DOMAIN trx : i < h => trx[h] = <<>>) => Nonempty = {}
  BY <1>4
<1>7. Nonempty # {} => Least \in Nonempty
  <2>1. Nonempty \in SUBSET Nat
    BY <1>0, <1>4
  <2>2. Nonempty # {} => \E m \in Nonempty : \A n \in Nonempty : m <= n
    BY <2>1, LeastExists
  <2> HIDE DEF Nonempty
  <2> QED
    BY <2>2
<1>8. Holds(trx, F)
  <2>1. CASE Inside
    <3>1. k \in DOMAIN trx[i]
      BY <1>0, <2>1
    <3> QED
      BY <1>1, <2>1, <3>1 DEF Holds
  <2>2. CASE ~Inside /\ Nonempty # {}
    <3>1. PICK g \in DOMAIN trx : g = Least /\ trx[g] # <<>>
      BY <1>4, <1>7, <2>2
    <3>2. 1 \in DOMAIN trx[g]
      BY <1>0, <3>1
    <3>3. F = <<g, 1>>
      BY <1>2, <2>2, <3>1
    <3> HIDE DEF F
    <3> QED
      BY <3>2, <3>3 DEF Holds
  <2>3. CASE ~Inside /\ Nonempty = {}
    BY <1>3, <2>3 DEF Holds
  <2> QED
    BY <2>1, <2>2, <2>3
<1>9. \A g \in DOMAIN trx :
        i < g /\ trx[g] # <<>> /\ (\A h \in DOMAIN trx : i < h /\ h < g => trx[h] = <<>>)
           => Nonempty # {}
  BY <1>4
<1> HIDE DEF F, Nonempty, Least, Inside
<1>10. ~Inside => \A g \in DOMAIN trx :
        i < g /\ trx[g] # <<>> /\ (\A h \in DOMAIN trx : i < h /\ h < g => trx[h] = <<>>)
           => F = <<g, 1>>
  BY <1>2, <1>5, <1>9
<1>11. ~Inside /\ (\A h \in DOMAIN trx : i < h => trx[h] = <<>>) => F = None
  BY <1>3, <1>6
<1> QED
  BY <1>1, <1>8, <1>10, <1>11 DEF F, Inside

(***************************************************************************)
(* The filter of retryExecute.                                             *)
(***************************************************************************)
Done(s) == batch.stepState[s] = "done"
Kept(group) == {i \in DOMAIN group : ~Done(group[i])}
Nth(group, k) == CHOOSE i \in Kept(group) : Rank(Kept(group), i) = k

LEMMA PicksAre ==
    ASSUME NEW group \in Seq(Steps)
    PROVE  LET out == Batches!NotDone(group) IN
           /\ Kept(group) \in SUBSET (Nat \ {0})
           /\ Rank(Kept(group), Len(group)) \in Nat
           /\ out = [k \in 1 .. Rank(Kept(group), Len(group)) |-> group[Nth(group, k)]]
           /\ \A k \in 1 .. Rank(Kept(group), Len(group)) :
                Nth(group, k) \in Kept(group) /\ Rank(Kept(group), Nth(group, k)) = k
<1> DEFINE K == Kept(group)
           n == Len(group)
<1>1. n \in Nat /\ DOMAIN group = 1 .. n
  OBVIOUS
<1>2. K \in SUBSET (Nat \ {0}) /\ \A i \in K : i <= n
  BY <1>1 DEF Kept
<1>3. {j \in K : j <= n} = K
  BY <1>2
<1>4. Cardinality(K) = Rank(K, n)
  BY <1>3 DEF Rank
<1>5. \A S : Batches!Cardinality(S) = Cardinality(S)
  BY DEF Batches!Cardinality, Cardinality
<1>6. Rank(K, n) \in Nat
  BY <1>1, <1>2, RankOrder
<1>7. ASSUME NEW k \in 1 .. Rank(K, n)
      PROVE  Nth(group, k) \in K /\ Rank(K, Nth(group, k)) = k
  <2>1. \E i \in K : i <= n /\ Rank(K, i) = k
    BY <1>1, <1>2, RankOnto
  <2> HIDE DEF K
  <2>2. \E i \in K : Rank(K, i) = k
    BY <2>1
  <2> QED
    BY <2>2 DEF Nth, K
<1>8. Batches!NotDone(group) = [k \in 1 .. Rank(K, n) |-> group[Nth(group, k)]]
  <2>1. K = {i \in DOMAIN group : batch.stepState[group[i]] # "done"}
    BY DEF Kept, Done
  <2> HIDE DEF K
  <2>2. \A k : Nth(group, k) = CHOOSE i \in K : Batches!Cardinality({j \in K : j <= i}) = k
    BY <1>5 DEF Nth, Rank, K
  <2>3. Batches!NotDone(group) =
          [k \in 1 .. Batches!Cardinality(K) |->
             group[CHOOSE i \in K : Batches!Cardinality({j \in K : j <= i}) = k]]
    BY <2>1 DEF Batches!NotDone
  <2> QED
    BY <1>4, <1>5, <2>2, <2>3
<1> QED
  BY <1>2, <1>6, <1>7, <1>8

LEMMA NotDoneIs ==
    ASSUME NEW group \in Seq(Steps)
    PROVE  LET out == Batches!NotDone(group) IN
           /\ out \in Seq(Steps)
           /\ \E pick \in [DOMAIN out -> DOMAIN group] :
                /\ \A k \in DOMAIN out : out[k] = group[pick[k]] /\ k <= pick[k]
                /\ \A j, k \in DOMAIN out : j < k => pick[j] < pick[k]
           /\ 1 \in DOMAIN group /\ ~Done(group[1]) => 1 \in DOMAIN out /\ out[1] = group[1]
<1> DEFINE K == Kept(group)
           n == Len(group)
           out == Batches!NotDone(group)
           m == Rank(K, n)
           pick == [k \in 1 .. m |-> Nth(group, k)]
<1>1. n \in Nat /\ DOMAIN group = 1 .. n
  OBVIOUS
<1>2. K \in SUBSET (Nat \ {0}) /\ \A i \in K : i \in DOMAIN group
  BY PicksAre DEF Kept
<1>3. /\ m \in Nat /\ out = [k \in 1 .. m |-> group[Nth(group, k)]]
      /\ \A k \in 1 .. m : Nth(group, k) \in K /\ Rank(K, Nth(group, k)) = k
  BY PicksAre
<1> HIDE DEF K, n, out, m
<1>4. \A k \in 1 .. m : pick[k] \in K /\ pick[k] \in DOMAIN group /\ Rank(K, pick[k]) = k
                        /\ out[k] = group[pick[k]] /\ pick[k] \in Nat
  BY <1>2, <1>3
<1>5. DOMAIN out = 1 .. m /\ pick \in [DOMAIN out -> DOMAIN group]
  BY <1>3, <1>4
<1> HIDE DEF pick
<1>6. out \in Seq(Steps)
  <2>1. \A k \in 1 .. m : out[k] \in Steps
    BY <1>4
  <2>2. out \in [1 .. m -> Steps]
    BY <1>3, <2>1
  <2> QED
    BY <1>3, <2>2
<1>7. ASSUME NEW k \in 1 .. m PROVE k <= pick[k]
  <2>1. Rank(K, pick[k]) <= pick[k]
    BY <1>2, <1>4, RankOrder
  <2> QED
    BY <1>4, <2>1
<1>8. ASSUME NEW j \in 1 .. m, NEW k \in 1 .. m, j < k PROVE pick[j] < pick[k]
  <2>1. pick[k] <= pick[j] => Rank(K, pick[k]) <= Rank(K, pick[j])
    BY <1>2, <1>4, RankOrder
  <2>2. pick[j] \in Nat /\ pick[k] \in Nat /\ Rank(K, pick[k]) = k /\ Rank(K, pick[j]) = j
    BY <1>4
  <2> QED
    BY <1>8, <2>1, <2>2
<1>9. ASSUME 1 \in DOMAIN group, ~Done(group[1])
      PROVE  1 \in 1 .. m /\ out[1] = group[1]
  <2>1. 1 \in K
    BY <1>9 DEF K, Kept
  <2>2. Rank(K, 1) = 1
    <3>1. Rank(K, 0) = 0 /\ Rank(K, 0 + 1) = Rank(K, 0) + IF 0 + 1 \in K THEN 1 ELSE 0
      BY <1>2, RankStep
    <3> QED
      BY <2>1, <3>1
  <2>3. 1 <= n
    BY <1>1, <1>9
  <2>4. Rank(K, 1) <= m
    BY <1>1, <1>2, <2>3, RankOrder DEF m
  <2>5. 1 \in 1 .. m
    BY <1>3, <2>2, <2>4
  <2>6. pick[1] \in K /\ Rank(K, pick[1]) = 1 /\ out[1] = group[pick[1]] /\ pick[1] \in Nat
    BY <1>4, <2>5
  <2>7. 1 < pick[1] => Rank(K, 1) < Rank(K, pick[1])
    BY <1>2, <2>6, RankOrder
  <2>8. pick[1] >= 1
    BY <1>2, <2>6
  <2>9. pick[1] = 1
    BY <2>2, <2>6, <2>7, <2>8
  <2> QED
    BY <2>5, <2>6, <2>9
<1>10. \E p \in [DOMAIN out -> DOMAIN group] :
          /\ \A k \in DOMAIN out : out[k] = group[p[k]] /\ k <= p[k]
          /\ \A j, k \in DOMAIN out : j < k => p[j] < p[k]
  <2>1. \A k \in DOMAIN out : out[k] = group[pick[k]] /\ k <= pick[k]
    BY <1>4, <1>5, <1>7
  <2>2. \A j, k \in DOMAIN out : j < k => pick[j] < pick[k]
    BY <1>5, <1>8
  <2> QED
    BY <1>5, <2>1, <2>2
<1> QED
  BY <1>5, <1>6, <1>9, <1>10 DEF out

\* Where the steps before the c-th are done and no other, the filter cuts them off.
LEMMA NotDoneCuts ==
    ASSUME NEW group \in Seq(Steps), NEW c \in 1 .. Len(group) + 1,
           \A i \in DOMAIN group : Done(group[i]) <=> i < c
    PROVE  Batches!NotDone(group) = [k \in 1 .. Len(group) - c + 1 |-> group[c + k - 1]]
<1> DEFINE K == Kept(group)
           n == Len(group)
<1>1. n \in Nat /\ DOMAIN group = 1 .. n /\ c \in Nat \ {0} /\ c <= n + 1
  OBVIOUS
<1>2. \A i : i \in K <=> i \in c .. n
  BY <1>1 DEF Kept
<1>3. ASSUME NEW i \in Nat, c <= i, i <= n PROVE Rank(K, i) = i - c + 1
  <2>1. \A j : j \in {x \in K : x <= i} <=> j \in c .. i
    BY <1>1, <1>2, <1>3
  <2>2. {x \in K : x <= i} = c .. i
    BY <2>1
  <2>3. Cardinality(c .. i) = i - c + 1
    BY <1>1, <1>3, FS_Interval
  <2> QED
    BY <2>2, <2>3 DEF Rank
<1>4. Rank(K, n) = n - c + 1
  <2>1. CASE c <= n
    BY <1>1, <1>3, <2>1
  <2>2. CASE c = n + 1
    <3>1. {x \in K : x <= n} = {}
      BY <1>1, <1>2, <2>2
    <3>2. Rank(K, n) = 0
      BY <3>1, FS_EmptySet DEF Rank
    <3> QED
      BY <1>1, <2>2, <3>2
  <2> QED
    BY <1>1, <2>1, <2>2
<1>5. \A k \in 1 .. Rank(K, n) : Nth(group, k) \in K /\ Rank(K, Nth(group, k)) = k
  BY PicksAre
<1> HIDE DEF K
<1>6. ASSUME NEW k \in 1 .. n - c + 1 PROVE Nth(group, k) = c + k - 1
  <2>1. PICK i : i = Nth(group, k) /\ i \in K /\ Rank(K, i) = k
    BY <1>4, <1>5
  <2>2. i \in Nat /\ c <= i /\ i <= n
    BY <1>1, <1>2, <2>1
  <2>3. i - c + 1 = k
    BY <1>3, <2>1, <2>2
  <2> QED
    BY <1>1, <2>1, <2>2, <2>3
<1>7. Batches!NotDone(group) = [k \in 1 .. n - c + 1 |-> group[Nth(group, k)]]
  BY <1>4, PicksAre DEF K
<1> QED
  BY <1>6, <1>7

(***************************************************************************)
(* What the callbacks leave.                                               *)
(***************************************************************************)
Marks == [Steps -> {"idle", "done", "error"}]

\* What the fields have in common with b, of which a callback has marked a step.
Noted(f, b, e, mark) ==
    /\ f \in Batches!Fields
    /\ f.trxArray = b.trxArray
    /\ f.stepState = [b.stepState EXCEPT ![e] = mark]

LEMMA TimesIs ==
    ASSUME NEW e \in Steps, NEW n \in Nat, NEW list \in Seq(Steps)
    PROVE  /\ list \o Batches!Times(e, n) \in Seq(Steps)
           /\ n > 0 => list \o Batches!Times(e, n) # <<>>
<1>1. Batches!Times(e, n) \in [1 .. n -> Steps]
  BY DEF Batches!Times
<1>2. Batches!Times(e, n) \in Seq(Steps) /\ Len(Batches!Times(e, n)) = n
  BY <1>1
<1>3. list \o Batches!Times(e, n) \in Seq(Steps)
  BY <1>2
<1>4. Len(list \o Batches!Times(e, n)) = Len(list) + n /\ Len(list) \in Nat
  BY <1>2
<1>5. n > 0 => Len(list \o Batches!Times(e, n)) # 0
  BY <1>4
<1> QED
  BY <1>3, <1>5

LEMMA NoteIs ==
    ASSUME NEW b \in Batches!Fields, NEW e \in Steps, NEW s \in Steps, NEW n \in Nat \ {0}
    PROVE  /\ LET f == Batches!Note(b, e, s, TRUE, n)
              IN  Noted(f, b, e, "done") /\ f.state = b.state /\ f.FailedSteps = b.FailedSteps
           /\ LET f == Batches!Note(b, e, s, FALSE, n)
              IN  Noted(f, b, e, "error") /\ f.state = "error" /\ f.FailedSteps # <<>>
           /\ LET f == Batches!NoteFailure(b, e, n)
              IN  Noted(f, b, e, "error") /\ f.state = "error" /\ f.FailedSteps # <<>>
<1>0. b.completed \in Seq(Steps) /\ b.FailedSteps \in Seq(Steps) /\ n \in Nat /\ n > 0
  BY BatchBounds DEF Batches!Fields
<1>1. /\ b.completed \o Batches!Times(e, n) \in Seq(Steps)
      /\ b.FailedSteps \o Batches!Times(e, n) \in Seq(Steps)
      /\ b.FailedSteps \o Batches!Times(e, n) # <<>>
  BY <1>0, TimesIs
<1> USE BatchBounds DEF Batches!Fields, Noted
<1>2. Batches!Step(e + 1) \in Steps \cup {None}
  BY DEF Batches!Step
<1>3. [b.stepState EXCEPT ![e] = "done"] \in Marks /\ [b.stepState EXCEPT ![e] = "error"] \in Marks
  BY DEF Marks
<1>4. [b.results EXCEPT ![e] = s] \in [Steps -> Steps \cup {None}]
  OBVIOUS
<1>5. Batches!Note(b, e, s, TRUE, n) =
        [b EXCEPT !.completed = @ \o Batches!Times(e, n), !.activeStep = Batches!Step(e + 1),
                  !.results = [b.results EXCEPT ![e] = s],
                  !.stepState = [b.stepState EXCEPT ![e] = "done"]]
  BY DEF Batches!Note
<1>6. Batches!Note(b, e, s, FALSE, n) =
        [b EXCEPT !.FailedSteps = @ \o Batches!Times(e, n),
                  !.results = [b.results EXCEPT ![e] = s],
                  !.stepState = [b.stepState EXCEPT ![e] = "error"], !.state = "error"]
  BY DEF Batches!Note
<1>7. Batches!NoteFailure(b, e, n) =
        [b EXCEPT !.FailedSteps = @ \o Batches!Times(e, n), !.activeStep = e,
                  !.stepState = [b.stepState EXCEPT ![e] = "error"], !.state = "error"]
  BY DEF Batches!NoteFailure
<1>8. LET f == Batches!Note(b, e, s, TRUE, n)
      IN  Noted(f, b, e, "done") /\ f.state = b.state /\ f.FailedSteps = b.FailedSteps
  BY <1>1, <1>2, <1>3, <1>4, <1>5 DEF Marks
<1>9. LET f == Batches!Note(b, e, s, FALSE, n)
      IN  Noted(f, b, e, "error") /\ f.state = "error" /\ f.FailedSteps # <<>>
  BY <1>1, <1>2, <1>3, <1>4, <1>6 DEF Marks
<1>10. LET f == Batches!NoteFailure(b, e, n)
       IN  Noted(f, b, e, "error") /\ f.state = "error" /\ f.FailedSteps # <<>>
  BY <1>1, <1>2, <1>3, <1>4, <1>7 DEF Marks
<1> QED
  BY <1>8, <1>9, <1>10

\* The step that the wrappers of s find.
FoundIn(b, s) == Batches!At(b.trxArray, Batches!GroupOf(s), Place(s))

\* After a failure: the fields are as they were, or list and mark the step found.
Failed(f, threw, b, s) ==
    \/ f = b /\ threw
    \/ /\ FoundIn(b, s) \in Steps /\ Noted(f, b, FoundIn(b, s), "error")
       /\ f.state = "error" /\ f.FailedSteps # <<>>

LEMMA OnFailIs ==
    ASSUME NEW b \in Batches!Fields, NEW s \in Steps, wraps \in Nat \ {0}
    PROVE  \E f \in Batches!Fields : \E threw \in BOOLEAN :
              Batches!OnFail(b, s) = Batches!Result(f, threw) /\ Failed(f, threw, b, s)
<1> DEFINE e == FoundIn(b, s)
<1>1. e \in Steps \cup {None}
  <2>1. b.trxArray \in Lists
    BY BatchBounds DEF Batches!Fields, Lists
  <2> QED
    BY <2>1, AtIs DEF FoundIn
<1>2. CASE e = None \/ s \notin shape.callbacks
  <2>1. Batches!OnFail(b, s) = Batches!Result(b, TRUE)
    BY <1>2 DEF Batches!OnFail, FoundIn, Place
  <2>2. Failed(b, TRUE, b, s)
    BY DEF Failed
  <2> QED
    BY <2>1, <2>2
<1>3. CASE ~(e = None \/ s \notin shape.callbacks)
  <2>1. Batches!OnFail(b, s) = Batches!Result(Batches!NoteFailure(b, e, wraps), FALSE)
    BY <1>3 DEF Batches!OnFail, FoundIn, Place
  <2> DEFINE f == Batches!NoteFailure(b, e, wraps)
  <2>2. e \in Steps
    BY <1>1, <1>3
  <2>3. Noted(f, b, e, "error") /\ f.state = "error" /\ f.FailedSteps # <<>>
    BY <2>2, NoteIs
  <2>4. f \in Batches!Fields
    BY <2>3 DEF Noted
  <2> HIDE DEF f
  <2>5. Failed(f, FALSE, b, s)
    BY <2>2, <2>3 DEF Failed
  <2> QED
    BY <2>1, <2>4, <2>5 DEF f
<1> QED
  BY <1>2, <1>3

\* After a success: a wrapper or the innermost throws, or the step found is marked.
Succeeded(f, threw, b, s) ==
    \/ /\ f = b /\ threw
       /\ FoundIn(b, s) = None \/ s \notin shape.callbacks
       /\ FoundIn(b, s) = None \/ wraps = 1
    \/ /\ ~threw /\ FoundIn(b, s) \in Steps /\ Noted(f, b, FoundIn(b, s), "done")
       /\ f.state = b.state /\ f.FailedSteps = b.FailedSteps
       /\ s \in shape.callbacks \/ wraps > 1

LEMMA FoundIsStep ==
    ASSUME NEW b \in Batches!Fields, NEW s
    PROVE  FoundIn(b, s) \in Steps \cup {None}
<1>1. b.trxArray \in Lists
  BY BatchBounds DEF Batches!Fields, Lists
<1> QED
  BY <1>1, AtIs DEF FoundIn

LEMMA OnSuccessIs ==
    ASSUME NEW b \in Batches!Fields, NEW s \in Steps, wraps \in Nat \ {0}
    PROVE  /\ \E f \in Batches!Fields : \E threw \in BOOLEAN :
                Batches!OnSuccess(b, s, TRUE) = Batches!Result(f, threw) /\ Succeeded(f, threw, b, s)
           /\ \E f \in Batches!Fields : \E threw \in BOOLEAN :
                Batches!OnSuccess(b, s, FALSE) = Batches!Result(f, threw) /\ Failed(f, threw, b, s)
<1> DEFINE e == FoundIn(b, s)
           own == s \in shape.callbacks
           n == IF own THEN wraps ELSE wraps - 1
<1>1. e \in Steps \cup {None}
  BY FoundIsStep
<1>2. ASSUME e = None
      PROVE  \A ok \in BOOLEAN : Batches!OnSuccess(b, s, ok) = Batches!Result(b, TRUE)
  BY <1>2 DEF Batches!OnSuccess, FoundIn, Place
<1>3. ASSUME e # None
      PROVE  \A ok \in BOOLEAN : Batches!OnSuccess(b, s, ok) =
               Batches!Result(Batches!Note(b, e, s, ok, n), ~own /\ wraps = 1)
  BY <1>3 DEF Batches!OnSuccess, FoundIn, Place
<1>4. CASE e = None
  <2>1. Succeeded(b, TRUE, b, s) /\ Failed(b, TRUE, b, s)
    BY <1>4 DEF Succeeded, Failed
  <2> QED
    BY <1>2, <1>4, <2>1
<1>5. CASE e # None /\ n = 0
  <2>1. ~own /\ wraps = 1
    BY <1>5
  <2>2. \A ok \in BOOLEAN : Batches!Note(b, e, s, ok, n) = b
    BY <1>5 DEF Batches!Note
  <2>3. \A ok \in BOOLEAN : Batches!OnSuccess(b, s, ok) = Batches!Result(b, TRUE)
    BY <1>3, <1>5, <2>1, <2>2
  <2>4. Succeeded(b, TRUE, b, s) /\ Failed(b, TRUE, b, s)
    BY <2>1 DEF Succeeded, Failed
  <2> QED
    BY <2>3, <2>4
<1>6. CASE e # None /\ n # 0
  <2> DEFINE good == Batches!Note(b, e, s, TRUE, n)
             bad == Batches!Note(b, e, s, FALSE, n)
  <2>1. e \in Steps /\ n \in Nat \ {0} /\ (own \/ wraps > 1) /\ ((~own /\ wraps = 1) <=> FALSE)
    BY <1>1, <1>6
  <2>2. /\ Batches!OnSuccess(b, s, TRUE) = Batches!Result(good, FALSE)
        /\ Batches!OnSuccess(b, s, FALSE) = Batches!Result(bad, FALSE)
    BY <1>3, <1>6, <2>1
  <2>3. /\ Noted(good, b, e, "done") /\ good.state = b.state /\ good.FailedSteps = b.FailedSteps
        /\ Noted(bad, b, e, "error") /\ bad.state = "error" /\ bad.FailedSteps # <<>>
    <3>1. PICK x \in Steps, m \in Nat \ {0} : x = e /\ m = n
      BY <2>1
    <3>2. LET f == Batches!Note(b, x, s, TRUE, m)
          IN  Noted(f, b, x, "done") /\ f.state = b.state /\ f.FailedSteps = b.FailedSteps
      BY NoteIs
    <3>3. LET f == Batches!Note(b, x, s, FALSE, m)
          IN  Noted(f, b, x, "error") /\ f.state = "error" /\ f.FailedSteps # <<>>
      BY NoteIs
    <3> HIDE DEF e, n
    <3> QED
      BY <3>1, <3>2, <3>3
  <2> HIDE DEF good, bad
  <2>4. Succeeded(good, FALSE, b, s) /\ Failed(bad, FALSE, b, s)
    BY <2>1, <2>3 DEF Succeeded, Failed
  <2>5. good \in Batches!Fields /\ bad \in Batches!Fields
    BY <2>3 DEF Noted
  <2> QED
    BY <2>2, <2>4, <2>5
<1> QED
  BY <1>4, <1>5, <1>6

LEMMA OnNoMethodIs ==
    ASSUME NEW b \in Batches!Fields, NEW s \in Steps, wraps \in Nat \ {0}
    PROVE  \E f \in Batches!Fields : \E threw \in BOOLEAN :
              Batches!OnNoMethod(b, s) = Batches!Result(f, threw) /\ Failed(f, threw, b, s)
<1>1. PICK f1 \in Batches!Fields, t1 \in BOOLEAN :
        Batches!OnFail(b, s) = Batches!Result(f1, t1) /\ Failed(f1, t1, b, s)
  BY OnFailIs
<1>2. PICK f2 \in Batches!Fields, t2 \in BOOLEAN :
        Batches!OnFail(f1, s) = Batches!Result(f2, t2) /\ Failed(f2, t2, f1, s)
  BY OnFailIs
<1>3. Batches!Result(f1, t1).threw = t1 /\ Batches!Result(f1, t1).fields = f1
  BY DEF Batches!Result
<1>4. CASE t1
  <2>1. Batches!OnNoMethod(b, s) = Batches!Result(f1, t1)
    BY <1>1, <1>3, <1>4 DEF Batches!OnNoMethod
  <2> QED
    BY <1>1, <2>1
<1>5. CASE ~t1
  <2>1. Batches!OnNoMethod(b, s) = Batches!Result(f2, t2)
    BY <1>1, <1>2, <1>3, <1>5 DEF Batches!OnNoMethod
  <2>2. /\ FoundIn(b, s) \in Steps /\ Noted(f1, b, FoundIn(b, s), "error")
        /\ f1.state = "error" /\ f1.FailedSteps # <<>>
    BY <1>1, <1>5 DEF Failed
  <2>3. FoundIn(f1, s) = FoundIn(b, s)
    BY <2>2 DEF FoundIn, Noted
  <2>4. Failed(f2, t2, b, s)
    <3>1. CASE f2 = f1 /\ t2
      BY <2>2, <3>1 DEF Failed
    <3>2. CASE /\ Noted(f2, f1, FoundIn(f1, s), "error")
               /\ f2.state = "error" /\ f2.FailedSteps # <<>>
      <4>1. b.stepState \in Marks /\ b.stepState = [r \in Steps |-> b.stepState[r]]
        BY BatchBounds DEF Batches!Fields, Marks
      <4>2. f2.stepState = [b.stepState EXCEPT ![FoundIn(b, s)] = "error"]
        BY <2>2, <2>3, <3>2, <4>1 DEF Noted
      <4>3. Noted(f2, b, FoundIn(b, s), "error")
        BY <2>2, <3>2, <4>2 DEF Noted
      <4> QED
        BY <2>2, <3>2, <4>3 DEF Failed
    <3> QED
      BY <1>2, <3>1, <3>2 DEF Failed
  <2> QED
    BY <2>1, <2>4
<1> QED
  BY <1>4, <1>5

\* What the end of a step makes of the fields.
Leaves(f, mark) ==
    /\ batch' \in Batches!Fields
    /\ batch'.state = mark /\ batch'.trxArray = f.trxArray /\ batch'.stepState = f.stepState
    /\ batch'.FailedSteps = f.FailedSteps

NextPlace == Batches!Following(batch.trxArray, cursor[1], cursor[2] + 1)

LEMMA ProceedIs ==
    ASSUME NEW f \in Batches!Fields, NEW threw \in BOOLEAN,
           Batches!Proceed(Batches!Result(f, threw))
    PROVE  /\ threw \/ (f.state = "error" /\ f.FailedSteps # <<>>) =>
                cursor' = None /\ Leaves(f, "error")
           /\ ~threw /\ f.state = "running" /\ f.FailedSteps = <<>> =>
                /\ cursor' = NextPlace
                /\ Leaves(f, IF NextPlace = None THEN "done" ELSE "running")
<1> DEFINE next == NextPlace
           stops == threw \/ f.state = "error" \/ next = None
<1>1. Batches!Result(f, threw).threw = threw /\ Batches!Result(f, threw).fields = f
  BY DEF Batches!Result
<1>2. /\ cursor' = IF stops THEN None ELSE next
      /\ batch' = CASE ~stops -> f
                    [] threw -> [f EXCEPT !.state = "error"]
                    [] OTHER -> [f EXCEPT !.state = IF f.FailedSteps = <<>> THEN "done" ELSE "error"]
  BY <1>1 DEF Batches!Proceed, NextPlace
<1>3. \A mark \in {"idle", "running", "error", "done"} :
        batch' = [f EXCEPT !.state = mark] => Leaves(f, mark)
  BY DEF Batches!Fields, Leaves
<1>4. batch' = f => Leaves(f, f.state)
  BY DEF Leaves
<1> HIDE DEF next
<1>5. ASSUME threw PROVE cursor' = None /\ batch' = [f EXCEPT !.state = "error"]
  BY <1>2, <1>5
<1>6. ASSUME ~threw, f.state = "error", f.FailedSteps # <<>>
      PROVE  cursor' = None /\ batch' = [f EXCEPT !.state = "error"]
  BY <1>2, <1>6
<1>7. ASSUME ~threw, f.state = "running", f.FailedSteps = <<>>, next = None
      PROVE  cursor' = None /\ batch' = [f EXCEPT !.state = "done"]
  BY <1>2, <1>7
<1>8. ASSUME ~threw, f.state = "running", f.FailedSteps = <<>>, next # None
      PROVE  cursor' = next /\ batch' = f
  BY <1>2, <1>8
<1> QED
  BY <1>3, <1>4, <1>5, <1>6, <1>7, <1>8 DEF next

(***************************************************************************)
(* A step of the batch either ends the loops in 'error' or lets them go on. *)
(***************************************************************************)
Finds(s) == FoundIn(batch, s)

Stops(s) ==
    /\ cursor' = None /\ batch' \in Batches!Fields /\ batch'.state = "error"
    /\ batch'.trxArray = batch.trxArray
    /\ \/ batch'.stepState = batch.stepState
       \/ Finds(s) \in Steps /\ batch'.stepState = [batch.stepState EXCEPT ![Finds(s)] = "error"]
    /\ UNCHANGED <<shape, wraps, fed, retries>>
    /\ \/ UNCHANGED <<runs, doubtful>>
       \/ /\ runs' = [runs EXCEPT ![s] = @ + 1]
          /\ \/ doubtful' = doubtful \cup {s}
             \/ doubtful' = doubtful /\ (Finds(s) = None \/ s \notin shape.callbacks)

\* The step that is fed, when the wrappers find the last step of a group.
Feeds(s) == Batches!At(batch.trxArray, Batches!GroupOf(s) + 1, 1)

Goes(s) ==
    /\ Finds(s) \in Steps
    /\ cursor' = NextPlace
    /\ batch' \in Batches!Fields
    /\ batch'.state = IF NextPlace = None THEN "done" ELSE "running"
    /\ batch'.trxArray = batch.trxArray
    /\ batch'.stepState = [batch.stepState EXCEPT ![Finds(s)] = "done"]
    /\ batch'.FailedSteps = <<>>
    /\ UNCHANGED <<shape, wraps, doubtful, retries>>
    /\ runs' = [runs EXCEPT ![s] = @ + 1]
    /\ fed' = IF Finds(s) \in shape.ends /\ Feeds(s) # None
              THEN [fed EXCEPT ![Feeds(s)] = s] ELSE fed

LEMMA FedIs ==
    ASSUME NEW s \in Steps
    PROVE  Batches!Fed(s) = IF Finds(s) \in shape.ends /\ (s \in shape.callbacks \/ wraps > 1)
                            THEN Feeds(s) ELSE None
BY DEF Batches!Fed, Finds, FoundIn, Place, Feeds

\* What a failure leaves, once the loops have seen it.
LEMMA FailureStops ==
    ASSUME NEW s \in Steps, NEW f \in Batches!Fields, NEW threw \in BOOLEAN,
           Failed(f, threw, batch, s), Batches!Proceed(Batches!Result(f, threw)),
           batch \in Batches!Fields
    PROVE  /\ cursor' = None /\ batch' \in Batches!Fields /\ batch'.state = "error"
           /\ batch'.trxArray = batch.trxArray
           /\ \/ batch'.stepState = batch.stepState
              \/ Finds(s) \in Steps /\ batch'.stepState = [batch.stepState EXCEPT ![Finds(s)] = "error"]
<1>1. threw \/ (f.state = "error" /\ f.FailedSteps # <<>>)
  BY DEF Failed
<1>2. cursor' = None /\ Leaves(f, "error")
  BY <1>1, ProceedIs
<1> QED
  BY <1>2 DEF Failed, Noted, Leaves, Finds

LEMMA AnswersAre ==
    ASSUME Batches!TypeOK, cursor # None, batch.state = "running", batch.FailedSteps = <<>>,
           wraps \in Nat \ {0}, Batches!Current \in Steps, Batches!Answer
    PROVE  /\ Stops(Batches!Current) \/ Goes(Batches!Current)
           /\ c9' \in 0 .. MaxFailures
<1> DEFINE s == Batches!Current
<1>0. /\ s \in Steps /\ batch \in Batches!Fields /\ c9 \in 0 .. MaxFailures /\ MaxFailures \in Nat
      /\ shape \in Shapes
  BY BatchBounds DEF Batches!TypeOK
<1>1. CASE Batches!Succeeds
  <2>1. /\ runs' = [runs EXCEPT ![s] = @ + 1]
        /\ Batches!Proceed(Batches!OnSuccess(batch, s, TRUE))
        /\ fed' = IF Batches!Fed(s) # None THEN [fed EXCEPT ![Batches!Fed(s)] = s] ELSE fed
        /\ UNCHANGED <<shape, wraps, doubtful, retries, c9>>
    BY <1>1 DEF Batches!Succeeds
  <2>2. PICK f \in Batches!Fields, threw \in BOOLEAN :
          Batches!OnSuccess(batch, s, TRUE) = Batches!Result(f, threw) /\ Succeeded(f, threw, batch, s)
    BY <1>0, OnSuccessIs
  <2>3. Batches!Proceed(Batches!Result(f, threw))
    BY <2>1, <2>2
  <2>4. Finds(s) \in Steps \cup {None}
    BY <1>0, FoundIsStep DEF Finds
  <2>5. shape.ends \in SUBSET Steps /\ None \notin shape.ends
    BY <1>0, ShapeTypes, BatchBounds
  <2> HIDE DEF s
  <2>6. CASE threw
    <3>1. /\ Finds(s) = None \/ s \notin shape.callbacks
          /\ Finds(s) = None \/ (s \notin shape.callbacks /\ wraps = 1)
          /\ f = batch
      BY <2>2, <2>6 DEF Succeeded, Finds
    <3>2. cursor' = None /\ Leaves(f, "error")
      BY <2>3, <2>6, ProceedIs
    <3>3. fed' = fed
      <4>1. Batches!Fed(s) = None
        BY <1>0, <2>5, <3>1, FedIs
      <4> QED
        BY <2>1, <4>1
    <3>4. Stops(s)
      BY <2>1, <3>1, <3>2, <3>3 DEF Stops, Leaves
    <3> QED
      BY <1>0, <2>1, <3>4 DEF s
  <2>7. CASE ~threw
    <3>1. /\ Finds(s) \in Steps /\ Noted(f, batch, Finds(s), "done")
          /\ f.state = "running" /\ f.FailedSteps = <<>>
          /\ s \in shape.callbacks \/ wraps > 1
      BY <2>2, <2>7 DEF Succeeded, Finds
    <3>2. cursor' = NextPlace /\ Leaves(f, IF NextPlace = None THEN "done" ELSE "running")
      BY <2>3, <2>7, <3>1, ProceedIs
    <3>3. fed' = IF Finds(s) \in shape.ends /\ Feeds(s) # None
                 THEN [fed EXCEPT ![Feeds(s)] = s] ELSE fed
      BY <1>0, <2>1, <3>1, FedIs
    <3>4. Goes(s)
      BY <2>1, <3>1, <3>2, <3>3 DEF Goes, Leaves, Noted
    <3> QED
      BY <1>0, <2>1, <3>4 DEF s
  <2> QED
    BY <2>6, <2>7
<1>2. CASE Batches!Errs
  <2>1. PICK f \in Batches!Fields, threw \in BOOLEAN :
          Batches!OnSuccess(batch, s, FALSE) = Batches!Result(f, threw) /\ Failed(f, threw, batch, s)
    BY <1>0, OnSuccessIs
  <2>2. /\ Batches!Proceed(Batches!Result(f, threw)) /\ c9 < MaxFailures /\ c9' = c9 + 1
        /\ UNCHANGED <<shape, wraps, fed, runs, doubtful, retries>>
    BY <1>2, <2>1 DEF Batches!Errs
  <2> HIDE DEF s
  <2>3. Stops(s)
    BY <1>0, <2>1, <2>2, FailureStops DEF Stops
  <2> QED
    BY <1>0, <2>2, <2>3 DEF s
<1>3. CASE Batches!Rejected
  <2>1. PICK f \in Batches!Fields, threw \in BOOLEAN :
          Batches!OnFail(batch, s) = Batches!Result(f, threw) /\ Failed(f, threw, batch, s)
    BY <1>0, OnFailIs
  <2>2. /\ Batches!Proceed(Batches!Result(f, threw)) /\ c9 < MaxFailures /\ c9' = c9 + 1
        /\ UNCHANGED <<shape, wraps, fed, runs, doubtful, retries>>
    BY <1>3, <2>1 DEF Batches!Rejected
  <2> HIDE DEF s
  <2>3. Stops(s)
    BY <1>0, <2>1, <2>2, FailureStops DEF Stops
  <2> QED
    BY <1>0, <2>2, <2>3 DEF s
<1>4. CASE Batches!AnswerLost
  <2>1. PICK f \in Batches!Fields, threw \in BOOLEAN :
          Batches!OnFail(batch, s) = Batches!Result(f, threw) /\ Failed(f, threw, batch, s)
    BY <1>0, OnFailIs
  <2>2. /\ Batches!Proceed(Batches!Result(f, threw)) /\ c9 < MaxFailures /\ c9' = c9 + 1
        /\ runs' = [runs EXCEPT ![s] = @ + 1] /\ doubtful' = doubtful \cup {s}
        /\ UNCHANGED <<shape, wraps, fed, retries>>
    BY <1>4, <2>1 DEF Batches!AnswerLost
  <2> HIDE DEF s
  <2>3. Stops(s)
    BY <1>0, <2>1, <2>2, FailureStops DEF Stops
  <2> QED
    BY <1>0, <2>2, <2>3 DEF s
<1>5. CASE Batches!NoMethod
  <2>1. PICK f \in Batches!Fields, threw \in BOOLEAN :
          Batches!OnNoMethod(batch, s) = Batches!Result(f, threw) /\ Failed(f, threw, batch, s)
    BY <1>0, OnNoMethodIs
  <2>2. /\ Batches!Proceed(Batches!Result(f, threw))
        /\ UNCHANGED <<shape, wraps, fed, runs, doubtful, retries, c9>>
    BY <1>5, <2>1 DEF Batches!NoMethod
  <2> HIDE DEF s
  <2>3. Stops(s)
    BY <1>0, <2>1, <2>2, FailureStops DEF Stops
  <2> QED
    BY <1>0, <2>2, <2>3 DEF s
<1>6. CASE Batches!NoActor
  <2>1. /\ Batches!Proceed(Batches!Result(batch, TRUE)) /\ c9 < MaxFailures /\ c9' = c9 + 1
        /\ UNCHANGED <<shape, wraps, fed, runs, doubtful, retries>>
    BY <1>6 DEF Batches!NoActor
  <2>2. Failed(batch, TRUE, batch, s)
    BY DEF Failed
  <2> HIDE DEF s
  <2>3. Stops(s)
    BY <1>0, <2>1, <2>2, FailureStops DEF Stops
  <2> QED
    BY <1>0, <2>1, <2>3 DEF s
<1> QED
  BY <1>1, <1>2, <1>3, <1>4, <1>5, <1>6 DEF Batches!Answer

(***************************************************************************)
(* What holds between the steps of a batch.                                *)
(***************************************************************************)
\* Nothing has been cut out of a group that is not through: the steps before p are
\* done, in order, and p is the next.
Clean(p) ==
    /\ \A s \in Steps : Done(s) <=> s < p
    /\ \A s \in Steps : s < p => runs[s] > 0 /\ (s \in shape.ends /\ s < N => fed[s + 1] = s)
    /\ \A g \in Groups :
         \/ batch.trxArray[g] = Whole(g)
         \/ batch.trxArray[g] = <<>> /\ \A s \in Steps : Batches!GroupOf(s) = g => s < p
    /\ cursor # None => p \in Steps /\ cursor = <<Batches!GroupOf(p), Place(p)>>
    /\ batch.state = "done" => p = N + 1
    /\ shape.callbacks = Steps /\ wraps = 1 =>
         \A s \in Steps \ doubtful : runs[s] = IF s < p THEN 1 ELSE 0

\* A retry has cut the first steps out of group g.  What is left of it stands before
\* its place, so that the wrappers of its last step find none: the loops never get
\* through it again.
Stuck(g) ==
    LET left == batch.trxArray[g]
    IN  /\ left # <<>>
        /\ \A k \in DOMAIN left : Batches!GroupOf(left[k]) = g /\ k < Place(left[k])
        /\ \A j, k \in DOMAIN left : j < k => left[j] < left[k]
        /\ ~Done(left[1])
        /\ \A h \in Groups : h < g => batch.trxArray[h] = <<>>
        /\ \A s \in Steps : Batches!GroupOf(s) < g => runs[s] > 0
        /\ cursor # None => \E k \in DOMAIN left : cursor = <<g, k>>
        /\ batch.state # "done"
        /\ retries > 0
        /\ retries = 1 =>
             /\ \A k \in DOMAIN left : left[k] = left[1] + k - 1
             /\ \A s \in Steps :
                  s < (IF cursor = None THEN left[1] ELSE left[cursor[2]]) => runs[s] > 0

BatchInv ==
    /\ cursor # None <=> batch.state = "running"
    /\ batch.state = "running" => batch.FailedSteps = <<>>
    /\ batch.state = "idle" <=> wraps = 0
    /\ batch.state = "idle" => \A s \in Steps : runs[s] = 0
    /\ batch.state # "idle" =>
         /\ DOMAIN batch.trxArray = Groups
         /\ (\E p \in 1 .. N + 1 : Clean(p)) \/ (\E g \in Groups : Stuck(g))

LEMMA LayoutStays ==
    ASSUME shape' = shape
    PROVE  /\ Groups' = Groups /\ Batches!Prepared' = Batches!Prepared
           /\ \A s : Batches!GroupOf(s)' = Batches!GroupOf(s) /\ Place(s)' = Place(s)
           /\ \A g : Whole(g)' = Whole(g)
<1>1. \A s : Batches!GroupOf(s)' = Batches!GroupOf(s)
  BY DEF Batches!GroupOf
<1>2. \A g : Batches!Members(g)' = Batches!Members(g)
  BY <1>1 DEF Batches!Members
<1>3. \A g : First(g)' = First(g) /\ Batches!FirstOf(g)' = Batches!FirstOf(g)
  BY <1>2 DEF First, Batches!FirstOf
<1>4. \A g : Last(g)' = Last(g)
  BY <1>1, <1>3 DEF Last
<1>5. \A g : Size(g)' = Size(g)
  BY <1>3, <1>4 DEF Size
<1>6. \A g : Whole(g)' = Whole(g)
  BY <1>3, <1>5 DEF Whole
<1>7. \A s : Place(s)' = Place(s)
  BY <1>1, <1>3 DEF Place, Batches!Index
<1>8. Groups' = Groups
  BY <1>1 DEF Groups
<1>9. Batches!Prepared' = Batches!Prepared
  BY <1>1, <1>2, <1>3 DEF Batches!Prepared
<1> QED
  BY <1>1, <1>6, <1>7, <1>8, <1>9

\* The place of the next step: the next in its group, or the first of the next group.
LEMMA Successor ==
    ASSUME shape \in Shapes, NEW s \in Steps
    PROVE  /\ s < N /\ s \in shape.ends =>
                /\ s + 1 \in Steps /\ Batches!GroupOf(s + 1) = Batches!GroupOf(s) + 1
                /\ Batches!GroupOf(s) + 1 \in Groups
                /\ Place(s + 1) = 1 /\ Place(s) = Size(Batches!GroupOf(s))
                /\ First(Batches!GroupOf(s) + 1) = s + 1
           /\ s < N /\ s \notin shape.ends =>
                /\ s + 1 \in Steps /\ Batches!GroupOf(s + 1) = Batches!GroupOf(s)
                /\ Place(s + 1) = Place(s) + 1
           /\ s = N => Place(s) = Size(Batches!GroupOf(s))
<1>1. PICK g \in Groups : g = Batches!GroupOf(s)
  BY GroupOrder
<1>2. /\ First(g) \in Nat /\ Last(g) \in Nat /\ First(g) <= s /\ s <= Last(g) /\ s \in Nat
      /\ g \in Nat /\ N \in Nat
  <2>1. First(g) \in Steps /\ Last(g) \in Steps /\ First(g) <= s /\ s <= Last(g)
    BY <1>1, GroupLayout
  <2>2. g \in Nat
    BY DEF Groups
  <2> QED
    BY <2>1, <2>2, BatchBounds
<1>3. Place(s) = s - First(g) + 1 /\ Size(g) = Last(g) - First(g) + 1
  BY <1>1, PlaceIs DEF Size
<1>4. ASSUME s < N, s \in shape.ends
      PROVE  /\ s + 1 \in Steps /\ Batches!GroupOf(s + 1) = g + 1 /\ g + 1 \in Groups
             /\ Place(s + 1) = 1 /\ Place(s) = Size(g) /\ First(g + 1) = s + 1
  <2>1. s + 1 \in Steps
    BY <1>2, <1>4 DEF Steps
  <2>2. Batches!GroupOf(s + 1) = g + 1
    BY <1>1, <1>4, GroupOrder
  <2>3. g + 1 \in Groups
    BY <2>1, <2>2, GroupOrder
  <2>4. g < Batches!GroupOf(N) /\ Batches!GroupOf(N) \in Nat
    BY <1>2, <2>3, GroupOrder DEF Groups
  <2>5. First(g + 1) = Last(g) + 1
    BY <2>4, GroupLayout
  <2>6. First(g + 1) <= s + 1
    BY <2>1, <2>2, <2>3, GroupLayout
  <2>7. First(g + 1) = s + 1 /\ Last(g) = s
    BY <1>2, <2>5, <2>6
  <2>8. Place(s + 1) = (s + 1) - First(g + 1) + 1
    BY <2>1, <2>2, PlaceIs
  <2> QED
    BY <1>2, <1>3, <2>1, <2>2, <2>3, <2>7, <2>8
<1>5. ASSUME s < N, s \notin shape.ends
      PROVE  s + 1 \in Steps /\ Batches!GroupOf(s + 1) = g /\ Place(s + 1) = Place(s) + 1
  <2>1. s + 1 \in Steps
    BY <1>2, <1>5 DEF Steps
  <2>2. Batches!GroupOf(s + 1) = g
    BY <1>1, <1>5, GroupOrder
  <2>3. Place(s + 1) = (s + 1) - First(g) + 1
    BY <2>1, <2>2, PlaceIs
  <2> QED
    BY <1>2, <1>3, <2>1, <2>2, <2>3
<1>6. ASSUME s = N PROVE Place(s) = Size(g)
  <2>1. Last(g) = N
    BY <1>1, <1>6, GroupLayout
  <2> QED
    BY <1>2, <1>3, <1>6, <2>1
<1> QED
  BY <1>1, <1>4, <1>5, <1>6

LEMMA BatchFacts ==
    ASSUME Batches!TypeOK, BatchInv
    PROVE  /\ shape \in Shapes /\ batch \in Batches!Fields /\ batch.trxArray \in Lists
           /\ batch.stepState \in Marks
           /\ runs \in [Steps -> Nat] /\ fed \in [Steps -> Steps \cup {None}]
           /\ wraps \in Nat /\ retries \in Nat /\ doubtful \in SUBSET Steps
           /\ cursor # None => wraps \in Nat \ {0} /\ DOMAIN batch.trxArray = Groups
                               /\ batch.state = "running" /\ batch.FailedSteps = <<>>
           /\ \A g \in DOMAIN batch.trxArray : batch.trxArray[g] \in Seq(Steps)
<1> USE BatchBounds
<1>1. /\ shape \in Shapes /\ batch \in Batches!Fields
      /\ runs \in [Steps -> Nat] /\ fed \in [Steps -> Steps \cup {None}]
      /\ wraps \in Nat /\ retries \in Nat /\ doubtful \in SUBSET Steps
  BY DEF Batches!TypeOK
<1>2. batch.trxArray \in Lists /\ batch.stepState \in Marks
  BY <1>1 DEF Batches!Fields, Lists, Marks
<1>3. cursor # None => wraps # 0 /\ DOMAIN batch.trxArray = Groups
                       /\ batch.state = "running" /\ batch.FailedSteps = <<>>
  BY DEF BatchInv
<1>4. \A g \in DOMAIN batch.trxArray : batch.trxArray[g] \in Seq(Steps)
  BY <1>2 DEF Lists
<1> QED
  BY <1>1, <1>2, <1>3, <1>4

LEMMA CleanCurrent ==
    ASSUME Batches!TypeOK, BatchInv, NEW p \in 1 .. N + 1, Clean(p), cursor # None
    PROVE  /\ p \in Steps /\ Batches!Current = p /\ Finds(p) = p
           /\ cursor[1] = Batches!GroupOf(p) /\ cursor[2] = Place(p)
           /\ batch.trxArray[Batches!GroupOf(p)] = Whole(Batches!GroupOf(p))
<1>1. shape \in Shapes /\ batch.trxArray \in Lists /\ DOMAIN batch.trxArray = Groups
  BY BatchFacts
<1>2. p \in Steps /\ cursor = <<Batches!GroupOf(p), Place(p)>>
  BY DEF Clean
<1>3. PICK g \in Groups : g = Batches!GroupOf(p)
  BY <1>1, <1>2, GroupOrder
<1>4. batch.trxArray[g] = Whole(g)
  <2>1. ~(p < p)
    BY <1>2, BatchBounds
  <2> QED
    BY <1>2, <1>3, <2>1 DEF Clean
<1>5. Place(p) \in DOMAIN Whole(g) /\ Whole(g)[Place(p)] = p
  BY <1>1, <1>2, <1>3, PlaceIs, PreparedIs
<1>6. Finds(p) = p
  BY <1>1, <1>3, <1>4, <1>5, AtIs DEF Finds, FoundIn
<1>7. cursor[1] = g /\ cursor[2] = Place(p)
  BY <1>2, <1>3
<1>8. Batches!Current = p
  BY <1>4, <1>5, <1>7 DEF Batches!Current
<1> QED
  BY <1>2, <1>3, <1>4, <1>6, <1>7, <1>8

LEMMA CleanNext ==
    ASSUME Batches!TypeOK, BatchInv, NEW p \in 1 .. N + 1, Clean(p), cursor # None
    PROVE  /\ p = N => NextPlace = None
           /\ p # N => p + 1 \in Steps /\ NextPlace = <<Batches!GroupOf(p + 1), Place(p + 1)>>
           /\ p < N /\ p \in shape.ends => Feeds(p) = p + 1
           /\ p = N => Feeds(p) = None
<1> DEFINE trx == batch.trxArray
<1>1. shape \in Shapes /\ trx \in Lists /\ DOMAIN trx = Groups
  BY BatchFacts
<1>2. p \in Steps
  BY CleanCurrent
<1>3. PICK g \in Groups : g = Batches!GroupOf(p)
  BY <1>1, <1>2, GroupOrder
<1>4. cursor[1] = g /\ cursor[2] = Place(p) /\ trx[g] = Whole(g)
  BY <1>3, CleanCurrent
<1>5. Len(trx[g]) = Size(g) /\ Size(g) \in Nat \ {0}
  BY <1>1, <1>4, PreparedIs
<1>6. Place(p) \in Nat \ {0} /\ Place(p) + 1 \in Nat \ {0} /\ g \in Nat \ {0} /\ p \in Nat /\ N \in Nat
  BY <1>1, <1>2, <1>3, <1>5, PlaceIs, BatchBounds DEF Groups
<1> DEFINE F == Batches!Following(trx, g, Place(p) + 1)
<1>7. NextPlace = F
  BY <1>4 DEF NextPlace
<1>8. /\ Place(p) + 1 <= Size(g) => F = <<g, Place(p) + 1>>
      /\ ~(Place(p) + 1 <= Size(g)) =>
           /\ \A h \in Groups :
                g < h /\ trx[h] # <<>> /\ (\A i \in Groups : g < i /\ i < h => trx[i] = <<>>)
                  => F = <<h, 1>>
           /\ (\A h \in Groups : g < h => trx[h] = <<>>) => F = None
  <2> HIDE DEF trx
  <2>1. g \in DOMAIN trx
    BY <1>1
  <2>2. PICK k \in Nat \ {0} : k = Place(p) + 1
    BY <1>6
  <2> QED
    <3>1. LET E == Batches!Following(trx, g, k) IN
          /\ g \in DOMAIN trx /\ k <= Len(trx[g]) => E = <<g, k>>
          /\ ~(g \in DOMAIN trx /\ k <= Len(trx[g])) =>
                /\ \A h \in DOMAIN trx :
                     g < h /\ trx[h] # <<>> /\ (\A i \in DOMAIN trx : g < i /\ i < h => trx[i] = <<>>)
                        => E = <<h, 1>>
                /\ (\A h \in DOMAIN trx : g < h => trx[h] = <<>>) => E = None
      BY <1>1, <1>6, FollowingIs
    <3> QED
      BY <1>1, <1>5, <2>1, <2>2, <3>1
<1>9. ASSUME p < N, p \in shape.ends
      PROVE  /\ p + 1 \in Steps /\ NextPlace = <<Batches!GroupOf(p + 1), Place(p + 1)>>
             /\ Feeds(p) = p + 1
  <2>1. /\ p + 1 \in Steps /\ Batches!GroupOf(p + 1) = g + 1 /\ g + 1 \in Groups
        /\ Place(p + 1) = 1 /\ Place(p) = Size(g)
    BY <1>1, <1>2, <1>3, <1>9, Successor
  <2>2. trx[g + 1] = Whole(g + 1)
    <3>1. ~(p + 1 < p)
      BY <1>6
    <3> QED
      BY <2>1, <3>1 DEF Clean
  <2>3. trx[g + 1] # <<>>
    BY <1>1, <2>1, <2>2, PreparedIs
  <2>4. \A i \in Groups : ~(g < i /\ i < g + 1)
    BY <1>6 DEF Groups
  <2>5. F = <<g + 1, 1>>
    <3> HIDE DEF F, trx
    <3>1. ~(Place(p) + 1 <= Size(g)) /\ g < g + 1
      BY <1>5, <1>6, <2>1
    <3> QED
      BY <1>8, <2>1, <2>3, <2>4, <3>1
  <2>6. Feeds(p) = p + 1
    <3>1. Whole(g + 1)[1] = p + 1 /\ 1 \in DOMAIN Whole(g + 1)
      <4>1. Whole(Batches!GroupOf(p + 1))[Place(p + 1)] = p + 1
        BY <1>1, <2>1, PreparedIs
      <4>2. Place(p + 1) \in DOMAIN Whole(Batches!GroupOf(p + 1))
        BY <1>1, <2>1, PlaceIs, PreparedIs
      <4> QED
        BY <2>1, <4>1, <4>2
    <3>2. Feeds(p) = Batches!At(trx, g + 1, 1)
      BY <1>3 DEF Feeds
    <3> QED
      BY <1>1, <2>1, <2>2, <3>1, <3>2, AtIs
  <2> QED
    BY <1>7, <2>1, <2>5, <2>6
<1>10. ASSUME p < N, p \notin shape.ends
       PROVE  p + 1 \in Steps /\ NextPlace = <<Batches!GroupOf(p + 1), Place(p + 1)>>
  <2>1. /\ p + 1 \in Steps /\ Batches!GroupOf(p + 1) = g /\ Place(p + 1) = Place(p) + 1
    BY <1>1, <1>2, <1>3, <1>10, Successor
  <2>2. Place(p + 1) <= Size(g)
    BY <1>1, <1>5, <2>1, PlaceIs
  <2> HIDE DEF F
  <2> QED
    BY <1>7, <1>8, <2>1, <2>2
<1>11. ASSUME p = N PROVE NextPlace = None /\ Feeds(p) = None
  <2>1. Place(p) = Size(g) /\ g = Batches!GroupOf(N)
    BY <1>1, <1>2, <1>3, <1>11, Successor
  <2>2. \A h \in Groups : ~(g < h)
    BY <1>6, <2>1 DEF Groups
  <2>3. F = None
    <3> HIDE DEF F, trx
    <3>1. ~(Place(p) + 1 <= Size(g))
      BY <1>5, <1>6, <2>1
    <3> QED
      BY <1>8, <2>2, <3>1
  <2>4. Feeds(p) = None
    <3>1. g + 1 \notin Groups
      BY <1>6, <2>1 DEF Groups
    <3>2. Feeds(p) = Batches!At(trx, g + 1, 1)
      BY <1>3 DEF Feeds
    <3> QED
      BY <1>1, <3>1, <3>2, AtIs
  <2> QED
    BY <1>7, <2>3, <2>4
<1>12. p # N => p < N
  BY <1>2, <1>6 DEF Steps
<1> QED
  BY <1>9, <1>10, <1>11, <1>12

\* The same, with the layout of the groups taken before the step.
LEMMA CleanAfter ==
    ASSUME shape' = shape, NEW p \in Nat,
           \A s \in Steps : batch'.stepState[s] = "done" <=> s < p,
           \A s \in Steps : s < p => runs'[s] > 0 /\ (s \in shape.ends /\ s < N => fed'[s + 1] = s),
           \A g \in Groups :
             \/ batch'.trxArray[g] = Whole(g)
             \/ batch'.trxArray[g] = <<>> /\ \A s \in Steps : Batches!GroupOf(s) = g => s < p,
           cursor' # None => p \in Steps /\ cursor' = <<Batches!GroupOf(p), Place(p)>>,
           batch'.state = "done" => p = N + 1,
           shape.callbacks = Steps /\ wraps' = 1 =>
             \A s \in Steps \ doubtful' : runs'[s] = IF s < p THEN 1 ELSE 0
    PROVE  Clean(p)'
<1>1. /\ Groups' = Groups
      /\ \A s : Batches!GroupOf(s)' = Batches!GroupOf(s) /\ Place(s)' = Place(s)
      /\ \A g : Whole(g)' = Whole(g)
  BY LayoutStays
<1>2. \A s \in Steps : Done(s)' <=> s < p
  BY DEF Done
<1>3. \A s \in Steps : s < p => runs'[s] > 0 /\ (s \in shape'.ends /\ s < N => fed'[s + 1] = s)
  OBVIOUS
<1>4. \A g \in Groups' :
             \/ batch'.trxArray[g] = Whole(g)'
             \/ batch'.trxArray[g] = <<>> /\ \A s \in Steps : Batches!GroupOf(s)' = g => s < p
  BY <1>1
<1>5. cursor' # None => p \in Steps /\ cursor' = <<Batches!GroupOf(p)', Place(p)'>>
  BY <1>1
<1>6. shape'.callbacks = Steps /\ wraps' = 1 =>
             \A s \in Steps \ doubtful' : runs'[s] = IF s < p THEN 1 ELSE 0
  OBVIOUS
<1> QED
  BY <1>2, <1>3, <1>4, <1>5, <1>6 DEF Clean

LEMMA GoesClean ==
    ASSUME Batches!TypeOK, BatchInv, NEW p \in 1 .. N + 1, Clean(p), cursor # None, Goes(p)
    PROVE  p + 1 \in 1 .. N + 1 /\ Clean(p + 1)'
<1>0. p \in Steps /\ p \in Nat /\ N \in Nat /\ p <= N /\ p + 1 \in Nat /\ p + 1 \in 1 .. N + 1
  <2>1. p \in Steps
    BY CleanCurrent
  <2> QED
    BY <2>1, BatchBounds DEF Steps
<1>1. /\ Finds(p) = p /\ shape \in Shapes /\ batch.stepState \in Marks /\ runs \in [Steps -> Nat]
      /\ fed \in [Steps -> Steps \cup {None}]
  BY CleanCurrent, BatchFacts
<1>2. /\ shape' = shape /\ wraps' = wraps /\ doubtful' = doubtful
      /\ batch'.trxArray = batch.trxArray
      /\ batch'.stepState = [batch.stepState EXCEPT ![p] = "done"]
      /\ cursor' = NextPlace
      /\ batch'.state = IF NextPlace = None THEN "done" ELSE "running"
      /\ runs' = [runs EXCEPT ![p] = @ + 1]
      /\ fed' = IF p \in shape.ends /\ Feeds(p) # None THEN [fed EXCEPT ![Feeds(p)] = p] ELSE fed
  BY <1>1 DEF Goes
<1>3. \A s \in Steps : s < p + 1 <=> s < p \/ s = p
  BY <1>0, BatchBounds
<1>4. ASSUME NEW s \in Steps PROVE batch'.stepState[s] = "done" <=> s < p + 1
  <2>1. batch.stepState[s] = "done" <=> s < p
    BY DEF Clean, Done
  <2> QED
    BY <1>1, <1>2, <1>3, <2>1 DEF Marks
<1>5. ASSUME NEW s \in Steps, s < p + 1 PROVE runs'[s] > 0
  <2>1. s < p => runs[s] > 0
    BY DEF Clean
  <2> QED
    BY <1>1, <1>2, <1>3, <1>5, <2>1
<1>6. ASSUME NEW s \in Steps, s < p + 1, s \in shape.ends, s < N PROVE fed'[s + 1] = s
  <2>0. s + 1 \in Steps /\ s \in Nat
    BY <1>0, <1>6, BatchBounds DEF Steps
  <2>1. p < N /\ p \in shape.ends => Feeds(p) = p + 1 /\ p + 1 \in Steps
    <3>1. p < N => p + 1 \in Steps
      BY <1>0 DEF Steps
    <3> QED
      BY <3>1, CleanNext
  <2>2. p = N => Feeds(p) = None
    BY CleanNext
  <2>3. CASE s = p
    BY <1>1, <1>2, <1>6, <2>0, <2>1, <2>3, BatchBounds
  <2>4. CASE s < p
    <3>1. fed[s + 1] = s
      BY <1>6, <2>4 DEF Clean
    <3>2. s + 1 # p + 1
      BY <1>0, <2>0, <2>4
    <3>3. p < N \/ p = N
      BY <1>0
    <3>4. fed' = fed \/ fed' = [fed EXCEPT ![p + 1] = p]
      BY <1>2, <2>1, <2>2, <3>3
    <3> QED
      BY <1>1, <2>0, <3>1, <3>2, <3>4
  <2> QED
    BY <1>3, <1>6, <2>3, <2>4
<1>7. ASSUME NEW g \in Groups
      PROVE  \/ batch'.trxArray[g] = Whole(g)
             \/ batch'.trxArray[g] = <<>> /\ \A s \in Steps : Batches!GroupOf(s) = g => s < p + 1
  <2>1. \/ batch.trxArray[g] = Whole(g)
        \/ batch.trxArray[g] = <<>> /\ \A s \in Steps : Batches!GroupOf(s) = g => s < p
    BY DEF Clean
  <2> QED
    BY <1>2, <1>3, <2>1
<1>8. cursor' # None =>
        p + 1 \in Steps /\ cursor' = <<Batches!GroupOf(p + 1), Place(p + 1)>>
  BY <1>2, CleanNext
<1>9. batch'.state = "done" => p + 1 = N + 1
  <2>1. ASSUME p # N PROVE NextPlace # None
    <3>1. p + 1 \in Steps /\ NextPlace = <<Batches!GroupOf(p + 1), Place(p + 1)>>
      BY <2>1, CleanNext
    <3>2. Batches!GroupOf(p + 1) \in Nat
      BY <1>1, <3>1, GroupOrder DEF Groups
    <3>3. Place(p + 1) \in Nat
      BY <1>1, <3>1, PlaceIs
    <3> QED
      BY <3>1, <3>2, <3>3, BatchBounds
  <2> QED
    BY <1>0, <1>2, <2>1
<1>10. ASSUME shape.callbacks = Steps, wraps' = 1, NEW s \in Steps \ doubtful'
       PROVE  runs'[s] = IF s < p + 1 THEN 1 ELSE 0
  <2>1. runs[s] = IF s < p THEN 1 ELSE 0
    BY <1>2, <1>10 DEF Clean
  <2>2. ~(p < p)
    BY <1>0
  <2>3. CASE s = p
    <3>1. runs'[s] = runs[s] + 1
      BY <1>0, <1>1, <1>2, <2>3
    <3>2. runs[s] = 0
      BY <2>1, <2>2, <2>3
    <3>3. s < p + 1
      BY <1>3, <1>10, <2>3
    <3> QED
      BY <3>1, <3>2, <3>3
  <2>4. CASE s # p
    <3>1. runs'[s] = runs[s]
      BY <1>0, <1>1, <1>2, <1>10, <2>4
    <3>2. s < p + 1 <=> s < p
      BY <1>3, <1>10, <2>4
    <3> QED
      BY <2>1, <3>1, <3>2
  <2> QED
    BY <2>3, <2>4
<1> QED
  BY <1>0, <1>2, <1>4, <1>5, <1>6, <1>7, <1>8, <1>9, <1>10, CleanAfter

LEMMA StopsClean ==
    ASSUME Batches!TypeOK, BatchInv, NEW p \in 1 .. N + 1, Clean(p), cursor # None, Stops(p)
    PROVE  Clean(p)'
<1>0. p \in Steps /\ p \in Nat /\ ~(p < p)
  <2>1. p \in Steps
    BY CleanCurrent
  <2> QED
    BY <2>1, BatchBounds
<1>1. /\ Finds(p) = p /\ Finds(p) # None
      /\ batch.stepState \in Marks /\ runs \in [Steps -> Nat]
  BY <1>0, CleanCurrent, BatchFacts, BatchBounds
<1>2. /\ shape' = shape /\ wraps' = wraps /\ fed' = fed /\ cursor' = None
      /\ batch'.state = "error" /\ batch'.trxArray = batch.trxArray
      /\ \/ batch'.stepState = batch.stepState
         \/ batch'.stepState = [batch.stepState EXCEPT ![p] = "error"]
      /\ \/ runs' = runs /\ doubtful' = doubtful
         \/ /\ runs' = [runs EXCEPT ![p] = @ + 1]
            /\ doubtful' = doubtful \cup {p} \/ (doubtful' = doubtful /\ p \notin shape.callbacks)
  BY <1>1 DEF Stops
<1>3. ASSUME NEW s \in Steps PROVE batch'.stepState[s] = "done" <=> s < p
  <2>1. batch.stepState[s] = "done" <=> s < p
    BY DEF Clean, Done
  <2> QED
    BY <1>0, <1>1, <1>2, <2>1 DEF Marks
<1>4. ASSUME NEW s \in Steps, s < p
      PROVE  runs'[s] > 0 /\ (s \in shape.ends /\ s < N => fed'[s + 1] = s)
  <2>1. runs[s] > 0 /\ (s \in shape.ends /\ s < N => fed[s + 1] = s)
    BY <1>4 DEF Clean
  <2>2. runs'[s] > 0
    BY <1>0, <1>1, <1>2, <1>4, <2>1
  <2> QED
    BY <1>2, <2>1, <2>2
<1>5. ASSUME NEW g \in Groups
      PROVE  \/ batch'.trxArray[g] = Whole(g)
             \/ batch'.trxArray[g] = <<>> /\ \A s \in Steps : Batches!GroupOf(s) = g => s < p
  BY <1>2 DEF Clean
<1>6. ASSUME shape.callbacks = Steps, wraps' = 1, NEW s \in Steps \ doubtful'
      PROVE  runs'[s] = IF s < p THEN 1 ELSE 0
  <2>1. p \in shape.callbacks
    BY <1>0, <1>6
  <2>2. s \in Steps \ doubtful /\ runs'[s] = runs[s]
    BY <1>0, <1>1, <1>2, <1>6, <2>1
  <2>3. runs[s] = IF s < p THEN 1 ELSE 0
    BY <1>2, <1>6, <2>2 DEF Clean
  <2> QED
    BY <2>2, <2>3
<1> QED
  BY <1>0, <1>2, <1>3, <1>4, <1>5, <1>6, CleanAfter

\* What is left of a group stands before its place, its first step not done.
Remains(left, g, marks) ==
    /\ left # <<>> /\ left \in Seq(Steps)
    /\ \A k \in DOMAIN left : Batches!GroupOf(left[k]) = g /\ k < Place(left[k])
    /\ \A j, k \in DOMAIN left : j < k => left[j] < left[k]
    /\ marks[left[1]] # "done"

LEMMA StuckAfter ==
    ASSUME shape' = shape, NEW g \in Groups, NEW left, batch'.trxArray[g] = left,
           Remains(left, g, batch'.stepState),
           \A h \in Groups : h < g => batch'.trxArray[h] = <<>>,
           \A s \in Steps : Batches!GroupOf(s) < g => runs'[s] > 0,
           cursor' # None => \E k \in DOMAIN left : cursor' = <<g, k>>,
           batch'.state # "done", retries' > 0,
           retries' = 1 =>
             /\ \A k \in DOMAIN left : left[k] = left[1] + k - 1
             /\ \A s \in Steps :
                  s < (IF cursor' = None THEN left[1] ELSE left[cursor'[2]]) => runs'[s] > 0
    PROVE  Stuck(g)'
<1>1. /\ Groups' = Groups
      /\ \A s : Batches!GroupOf(s)' = Batches!GroupOf(s) /\ Place(s)' = Place(s)
  BY LayoutStays
<1>2. /\ \A k \in DOMAIN left : Batches!GroupOf(left[k])' = g /\ k < Place(left[k])'
      /\ \A s \in Steps : Batches!GroupOf(s)' < g => runs'[s] > 0
      /\ ~Done(left[1])' /\ \A h \in Groups' : h < g => batch'.trxArray[h] = <<>>
  BY <1>1 DEF Remains, Done
<1> QED
  BY <1>1, <1>2 DEF Stuck, Remains, Done

\* The loops are at the k-th step of what is left of group g.
StandsAt(left, k, g) ==
    /\ left = batch.trxArray[g] /\ left \in Seq(Steps)
    /\ k \in DOMAIN left /\ k \in Nat \ {0} /\ 1 \in DOMAIN left
    /\ left[k] \in Steps /\ left[1] \in Steps /\ left[1] <= left[k]
    /\ cursor = <<g, k>> /\ cursor[1] = g /\ cursor[2] = k
    /\ Batches!Current = left[k]
    /\ Remains(left, g, batch.stepState)

LEMMA StuckCurrent ==
    ASSUME Batches!TypeOK, BatchInv, NEW g \in Groups, Stuck(g), cursor # None
    PROVE  \E left, k : StandsAt(left, k, g)
<1>1. DOMAIN batch.trxArray = Groups /\ batch.trxArray[g] \in Seq(Steps)
  BY BatchFacts
<1>2. PICK k \in DOMAIN batch.trxArray[g] : cursor = <<g, k>>
  BY DEF Stuck
<1>3. PICK left \in Seq(Steps) : left = batch.trxArray[g]
  BY <1>1
<1>4. k \in DOMAIN left /\ k \in Nat \ {0} /\ left[k] \in Steps /\ 1 \in DOMAIN left /\ left[1] \in Steps
  BY <1>2, <1>3
<1>5. Remains(left, g, batch.stepState)
  BY <1>3 DEF Stuck, Remains, Done
<1>6. left[1] <= left[k]
  <2>1. k = 1 \/ 1 < k
    BY <1>4
  <2>2. left[1] \in Nat /\ left[k] \in Nat
    BY <1>4, BatchBounds
  <2> QED
    BY <1>4, <1>5, <2>1, <2>2 DEF Remains
<1>7. Batches!Current = left[k]
  BY <1>2, <1>3 DEF Batches!Current
<1>8. StandsAt(left, k, g)
  BY <1>2, <1>3, <1>4, <1>5, <1>6, <1>7 DEF StandsAt
<1> QED
  BY <1>8

LEMMA StopsStuck ==
    ASSUME Batches!TypeOK, BatchInv, NEW g \in Groups, Stuck(g), cursor # None,
           Stops(Batches!Current)
    PROVE  Stuck(g)'
<1>0. PICK left, k : StandsAt(left, k, g)
  BY StuckCurrent
<1>1. PICK s \in Steps :
        /\ left = batch.trxArray[g] /\ k \in DOMAIN left /\ s = left[k] /\ s = Batches!Current
        /\ cursor # None /\ cursor[2] = k /\ left[1] <= s /\ Remains(left, g, batch.stepState)
        /\ k \in Nat \ {0} /\ left \in Seq(Steps) /\ 1 \in DOMAIN left /\ left[1] \in Steps
  BY <1>0 DEF StandsAt
<1>2. /\ batch.stepState \in Marks /\ runs \in [Steps -> Nat] /\ left[1] \in Steps /\ left[1] \in Nat
      /\ s \in Nat
  <2>1. batch.stepState \in Marks /\ runs \in [Steps -> Nat]
    BY BatchFacts
  <2> QED
    BY <1>1, <2>1, BatchBounds
<1>3. /\ shape' = shape /\ retries' = retries /\ cursor' = None
      /\ batch'.state = "error" /\ batch'.trxArray = batch.trxArray
      /\ \/ batch'.stepState = batch.stepState
         \/ Finds(s) \in Steps /\ batch'.stepState = [batch.stepState EXCEPT ![Finds(s)] = "error"]
      /\ runs' = runs \/ runs' = [runs EXCEPT ![s] = @ + 1]
  BY <1>1 DEF Stops
<1>4. batch'.stepState[left[1]] # "done"
  BY <1>1, <1>2, <1>3 DEF Remains, Marks
<1>5. Remains(left, g, batch'.stepState)
  BY <1>1, <1>4 DEF Remains
<1>6. \A r \in Steps : runs[r] > 0 => runs'[r] > 0
  BY <1>1, <1>2, <1>3
<1>7. ASSUME retries' = 1
      PROVE  /\ \A j \in DOMAIN left : left[j] = left[1] + j - 1
             /\ \A r \in Steps : r < left[1] => runs'[r] > 0
  <2>1. /\ \A j \in DOMAIN left : left[j] = left[1] + j - 1
        /\ \A r \in Steps : r < s => runs[r] > 0
    BY <1>1, <1>3, <1>7 DEF Stuck
  <2>2. \A r \in Steps : r < left[1] => r < s
    BY <1>1, <1>2, BatchBounds
  <2> QED
    BY <1>6, <2>1, <2>2
<1>8. /\ \A h \in Groups : h < g => batch'.trxArray[h] = <<>>
      /\ \A r \in Steps : Batches!GroupOf(r) < g => runs'[r] > 0
      /\ batch'.state # "done" /\ retries' > 0 /\ batch'.trxArray[g] = left
  BY <1>1, <1>3, <1>6 DEF Stuck
<1> QED
  BY <1>3, <1>5, <1>7, <1>8, StuckAfter

LEMMA GoesStuck ==
    ASSUME Batches!TypeOK, BatchInv, NEW g \in Groups, Stuck(g), cursor # None,
           Goes(Batches!Current)
    PROVE  Stuck(g)'
<1>0. PICK left, k : StandsAt(left, k, g)
  BY StuckCurrent
<1>1. PICK s \in Steps :
        /\ left = batch.trxArray[g] /\ k \in DOMAIN left /\ s = left[k] /\ s = Batches!Current
        /\ cursor # None /\ cursor[1] = g /\ cursor[2] = k /\ Remains(left, g, batch.stepState)
        /\ k \in Nat \ {0} /\ left \in Seq(Steps) /\ 1 \in DOMAIN left /\ left[1] \in Steps
  BY <1>0 DEF StandsAt
<1>2. /\ batch.stepState \in Marks /\ runs \in [Steps -> Nat]
      /\ 1 \in DOMAIN left /\ left[1] \in Steps /\ left \in Seq(Steps)
      /\ shape \in Shapes /\ batch.trxArray \in Lists /\ DOMAIN batch.trxArray = Groups
      /\ g \in Nat \ {0}
  <2>1. g \in Nat \ {0}
    BY DEF Groups
  <2> QED
    BY <1>1, <2>1, BatchFacts
<1>3. /\ Finds(s) \in Steps
      /\ shape' = shape /\ retries' = retries /\ cursor' = NextPlace
      /\ batch'.state = (IF NextPlace = None THEN "done" ELSE "running")
      /\ batch'.trxArray = batch.trxArray
      /\ batch'.stepState = [batch.stepState EXCEPT ![Finds(s)] = "done"]
      /\ runs' = [runs EXCEPT ![s] = @ + 1]
  BY <1>1 DEF Goes
<1>4. Batches!GroupOf(s) = g /\ k < Place(s) /\ Place(s) \in Nat
  <2>1. Batches!GroupOf(s) = g /\ k < Place(s)
    BY <1>1 DEF Remains
  <2>2. Place(s) \in Nat
    BY <1>2, PlaceIs
  <2> QED
    BY <2>1, <2>2
\* The wrappers found a step: there is one further on.
<1>5. Place(s) \in DOMAIN left /\ Finds(s) = left[Place(s)]
  <2>1. Finds(s) = Batches!At(batch.trxArray, g, Place(s))
    BY <1>4 DEF Finds, FoundIn
  <2>2. Finds(s) # None
    BY <1>3, BatchBounds
  <2> QED
    BY <1>1, <1>2, <2>1, <2>2, AtIs
<1>6. k + 1 \in DOMAIN left /\ k + 1 <= Len(left) /\ k + 1 \in Nat \ {0}
  BY <1>1, <1>2, <1>4, <1>5
<1>7. NextPlace = <<g, k + 1>>
  <2>1. PICK j \in Nat \ {0} : j = k + 1
    BY <1>6
  <2>2. Batches!Following(batch.trxArray, g, j) = <<g, j>>
    BY <1>1, <1>2, <1>6, <2>1, FollowingIs
  <2> QED
    BY <1>1, <2>1, <2>2 DEF NextPlace
<1>8. NextPlace # None
  BY <1>2, <1>6, <1>7, BatchBounds
<1>9. batch'.stepState[left[1]] # "done"
  <2>1. 1 < Place(s)
    <3>1. k \in Nat /\ k >= 1
      BY <1>1
    <3> QED
      BY <1>4, <3>1
  <2>2. left[1] < left[Place(s)]
    BY <1>1, <1>2, <1>5, <2>1 DEF Remains
  <2>3. left[1] # Finds(s)
    <3>1. left[1] \in Nat /\ Finds(s) \in Nat /\ left[1] < Finds(s)
      BY <1>2, <1>3, <1>5, <2>2, BatchBounds
    <3> QED
      BY <3>1
  <2> QED
    BY <1>1, <1>2, <1>3, <2>3 DEF Remains, Marks
<1>10. Remains(left, g, batch'.stepState)
  BY <1>1, <1>9 DEF Remains
<1>11. \A r \in Steps : runs[r] > 0 => runs'[r] > 0
  BY <1>1, <1>2, <1>3
<1>12. ASSUME retries' = 1
       PROVE  /\ \A j \in DOMAIN left : left[j] = left[1] + j - 1
              /\ \A r \in Steps : r < left[k + 1] => runs'[r] > 0
  <2>1. /\ \A j \in DOMAIN left : left[j] = left[1] + j - 1
        /\ \A r \in Steps : r < s => runs[r] > 0
    BY <1>1, <1>3, <1>12 DEF Stuck
  <2>2. left[k + 1] = s + 1
    <3>1. left[1] \in Nat /\ left[k] = left[1] + k - 1 /\ left[k + 1] = left[1] + (k + 1) - 1
      BY <1>1, <1>2, <1>6, <2>1, BatchBounds
    <3>2. k \in Nat /\ left[k] = s
      BY <1>1
    <3> QED
      BY <3>1, <3>2
  <2>3. \A r \in Steps : r < s + 1 => r < s \/ r = s
    BY BatchBounds
  <2>4. runs'[s] > 0
    BY <1>2, <1>3
  <2> QED
    BY <1>11, <2>1, <2>2, <2>3, <2>4
<1>13. /\ \A h \in Groups : h < g => batch'.trxArray[h] = <<>>
       /\ \A r \in Steps : Batches!GroupOf(r) < g => runs'[r] > 0
       /\ retries' > 0 /\ batch'.trxArray[g] = left
  BY <1>1, <1>3, <1>11 DEF Stuck
<1>14. cursor' = <<g, k + 1>> /\ cursor' # None /\ batch'.state # "done" /\ cursor'[2] = k + 1
  BY <1>3, <1>7, <1>8
<1>15. retries' = 1 =>
             /\ \A j \in DOMAIN left : left[j] = left[1] + j - 1
             /\ \A r \in Steps :
                  r < (IF cursor' = None THEN left[1] ELSE left[cursor'[2]]) => runs'[r] > 0
  BY <1>12, <1>14
<1> QED
  BY <1>3, <1>6, <1>10, <1>13, <1>14, <1>15, StuckAfter

(***************************************************************************)
(* The loops start again, over all steps or over those that are not done.  *)
(***************************************************************************)
Starts(trx, marks) ==
    /\ batch' \in Batches!Fields
    /\ batch'.trxArray = trx /\ batch'.stepState = marks /\ batch'.FailedSteps = <<>>
    /\ cursor' = Batches!Following(trx, 1, 1)
    /\ batch'.state = IF cursor' = None THEN "done" ELSE "running"

LEMMA ProcessIs ==
    ASSUME NEW b \in Batches!Fields, Batches!Process(b)
    PROVE  Starts(b.trxArray, b.stepState)
<1> DEFINE n == Len(b.completed) + 1
           started == [b EXCEPT !.state = "running", !.FailedSteps = <<>>,
                                !.activeStep = Batches!Step(n)]
           first == Batches!Following(b.trxArray, 1, 1)
<1>1. cursor' = first /\ batch' = IF first = None THEN [started EXCEPT !.state = "done"] ELSE started
  BY DEF Batches!Process
<1>2. Batches!Step(n) \in Steps \cup {None}
  BY BatchBounds DEF Batches!Step
<1>3. <<>> \in Seq(Steps)
  OBVIOUS
<1> HIDE DEF n, first
<1>4. /\ started \in Batches!Fields /\ started.state = "running" /\ started.trxArray = b.trxArray
      /\ started.stepState = b.stepState /\ started.FailedSteps = <<>>
  BY <1>2, <1>3, BatchBounds DEF Batches!Fields
<1>5. \A f \in Batches!Fields : LET e == [f EXCEPT !.state = "done"] IN
        /\ e \in Batches!Fields /\ e.state = "done" /\ e.trxArray = f.trxArray
        /\ e.stepState = f.stepState /\ e.FailedSteps = f.FailedSteps
  BY DEF Batches!Fields
<1> HIDE DEF started
<1>6. CASE first = None
  BY <1>1, <1>4, <1>5, <1>6 DEF Starts, first
<1>7. CASE first # None
  BY <1>1, <1>4, <1>7 DEF Starts, first
<1> QED
  BY <1>6, <1>7

\* The loops start at the first group that is not empty.
LEMMA FirstPlace ==
    ASSUME shape \in Shapes, NEW trx \in Lists, DOMAIN trx = Groups
    PROVE  /\ \A g \in Groups :
                trx[g] # <<>> /\ (\A h \in Groups : h < g => trx[h] = <<>>)
                   => Batches!Following(trx, 1, 1) = <<g, 1>>
           /\ (\A g \in Groups : trx[g] = <<>>) => Batches!Following(trx, 1, 1) = None
<1> DEFINE F == Batches!Following(trx, 1, 1)
<1>1. \A g \in Groups : trx[g] \in Seq(Steps) /\ g \in Nat \ {0}
  <2>1. \A g \in DOMAIN trx : trx[g] \in Seq(Steps)
    BY DEF Lists
  <2>2. \A g \in Groups : g \in Nat \ {0}
    BY DEF Groups
  <2> QED
    BY <2>1, <2>2
<1>2. 1 \in Groups
  BY GroupOrder DEF Groups
<1>3. /\ 1 <= Len(trx[1]) => F = <<1, 1>>
      /\ ~(1 <= Len(trx[1])) =>
           /\ \A g \in Groups :
                1 < g /\ trx[g] # <<>> /\ (\A h \in Groups : 1 < h /\ h < g => trx[h] = <<>>)
                  => F = <<g, 1>>
           /\ (\A h \in Groups : 1 < h => trx[h] = <<>>) => F = None
  <2>1. PICK i \in Nat \ {0} : i = 1
    OBVIOUS
  <2>2. LET E == Batches!Following(trx, i, i) IN
          /\ i \in DOMAIN trx /\ i <= Len(trx[i]) => E = <<i, i>>
          /\ ~(i \in DOMAIN trx /\ i <= Len(trx[i])) =>
                /\ \A h \in DOMAIN trx :
                     i < h /\ trx[h] # <<>> /\ (\A j \in DOMAIN trx : i < j /\ j < h => trx[j] = <<>>)
                        => E = <<h, 1>>
                /\ (\A h \in DOMAIN trx : i < h => trx[h] = <<>>) => E = None
    BY FollowingIs
  <2> QED
    BY <1>2, <2>1, <2>2
<1> HIDE DEF F
<1>4. ASSUME NEW g \in Groups, trx[g] # <<>>, \A h \in Groups : h < g => trx[h] = <<>>
      PROVE  F = <<g, 1>>
  <2>1. CASE g = 1
    <3>1. Len(trx[1]) \in Nat /\ Len(trx[1]) # 0
      BY <1>1, <1>2, <1>4, <2>1
    <3> QED
      BY <1>3, <2>1, <3>1
  <2>2. CASE g # 1
    <3>1. 1 < g
      BY <1>1, <2>2
    <3>2. Len(trx[1]) = 0
      BY <1>2, <1>4, <3>1
    <3> QED
      BY <1>3, <1>4, <3>1, <3>2
  <2> QED
    BY <2>1, <2>2
<1>5. ASSUME \A g \in Groups : trx[g] = <<>> PROVE F = None
  <2>1. Len(trx[1]) = 0
    BY <1>2, <1>5
  <2> QED
    BY <1>3, <1>5, <2>1
<1> QED
  BY <1>4, <1>5 DEF F

LEMMA NotDoneOfNone == Batches!NotDone(<<>>) = <<>>
<1>1. <<>> \in Seq(Steps)
  OBVIOUS
<1>2. PICK out : out = Batches!NotDone(<<>>) /\ out \in Seq(Steps)
  BY <1>1, NotDoneIs
<1>3. \E pick \in [DOMAIN out -> DOMAIN <<>>] : TRUE
  BY <1>1, <1>2, NotDoneIs
<1>4. DOMAIN out = {}
  BY <1>3
<1> QED
  BY <1>2, <1>4

\* What the filter leaves of a whole group when the steps before p are done.
LEMMA CutWhole ==
    ASSUME shape \in Shapes, NEW g \in Groups, NEW p \in 1 .. N + 1,
           \A s \in Steps : Done(s) <=> s < p
    PROVE  /\ p <= First(g) => Batches!NotDone(Whole(g)) = Whole(g)
           /\ Last(g) < p => Batches!NotDone(Whole(g)) = <<>>
           /\ First(g) < p /\ p <= Last(g) =>
                Batches!NotDone(Whole(g)) = [k \in 1 .. Last(g) - p + 1 |-> p + k - 1]
<1>1. PICK a \in Nat \ {0}, z \in Nat, n \in Nat \ {0} :
        /\ a = First(g) /\ z = Last(g) /\ n = Size(g) /\ n = z - a + 1 /\ a <= z /\ z <= N
  <2>1. First(g) \in Nat \ {0} /\ Last(g) \in Nat /\ First(g) <= Last(g) /\ Last(g) <= N
    <3>1. First(g) \in Steps /\ Last(g) \in Steps /\ First(g) <= Last(g)
      BY GroupLayout
    <3> QED
      BY <3>1, BatchBounds DEF Steps
  <2> QED
    BY <2>1, MembersAre DEF Size
<1>2. p \in Nat \ {0} /\ p <= N + 1 /\ N \in Nat
  BY BatchBounds
<1>3. PICK w \in Seq(Steps) : w = Whole(g) /\ Len(w) = n /\ DOMAIN w = 1 .. n
                              /\ w = [k \in 1 .. n |-> a + k - 1]
  BY <1>1, PreparedIs DEF Whole
<1>4. \A i \in 1 .. n : w[i] = a + i - 1 /\ w[i] \in Steps
  BY <1>3
<1>5. \A i \in 1 .. n : Done(w[i]) <=> a + i - 1 < p
  BY <1>4
<1>6. ASSUME p <= a PROVE Batches!NotDone(w) = w
  <2>1. PICK c \in 1 .. Len(w) + 1 : c = 1
    BY <1>1, <1>3
  <2>2. \A i \in 1 .. n : a + i - 1 < p <=> i < c
    BY <1>1, <1>2, <1>6, <2>1
  <2>3. \A i \in DOMAIN w : Done(w[i]) <=> i < c
    BY <1>3, <1>5, <2>2
  <2>4. Batches!NotDone(w) = [k \in 1 .. Len(w) - c + 1 |-> w[c + k - 1]]
    BY <2>3, NotDoneCuts
  <2>5. Len(w) - c + 1 = n /\ \A k \in 1 .. n : c + k - 1 = k
    BY <1>1, <1>3, <2>1
  <2> QED
    BY <1>3, <2>4, <2>5
<1>7. ASSUME z < p PROVE Batches!NotDone(w) = <<>>
  <2>0. n + 1 \in 1 .. n + 1 /\ Len(w) = n
    BY <1>1, <1>3
  <2>1. PICK c \in 1 .. Len(w) + 1 : c = n + 1
    BY <2>0
  <2>2. \A i \in 1 .. n : a + i - 1 < p <=> i < c
    BY <1>1, <1>2, <1>7, <2>1
  <2>3. \A i \in DOMAIN w : Done(w[i]) <=> i < c
    BY <1>3, <1>5, <2>2
  <2>4. Batches!NotDone(w) = [k \in 1 .. Len(w) - c + 1 |-> w[c + k - 1]]
    BY <2>3, NotDoneCuts
  <2>5. Len(w) - c + 1 = 0
    BY <1>1, <1>3, <2>1
  <2>6. PICK out : out = Batches!NotDone(w) /\ out \in Seq(Steps)
    BY NotDoneIs
  <2>7. DOMAIN out = 1 .. 0
    BY <2>4, <2>5, <2>6
  <2> QED
    BY <2>6, <2>7
<1>8. ASSUME a < p, p <= z PROVE Batches!NotDone(w) = [k \in 1 .. z - p + 1 |-> p + k - 1]
  <2>0. p - a + 1 \in 1 .. n + 1 /\ Len(w) = n /\ p - a + 1 \in Nat
    BY <1>1, <1>2, <1>3, <1>8
  <2>1. PICK c \in 1 .. Len(w) + 1 : c = p - a + 1
    BY <2>0
  <2>2. \A i \in 1 .. n : a + i - 1 < p <=> i < c
    <3>1. \A x, y, i, d \in Int : d = x - y + 1 => (y + i - 1 < x <=> i < d)
      OBVIOUS
    <3>2. p \in Int /\ a \in Int /\ c \in Int /\ \A i \in 1 .. n : i \in Int
      BY <1>1, <1>2, <2>0, <2>1
    <3> QED
      BY <2>1, <3>1, <3>2
  <2>3. \A i \in DOMAIN w : Done(w[i]) <=> i < c
    BY <1>3, <1>5, <2>2
  <2>4. Batches!NotDone(w) = [k \in 1 .. Len(w) - c + 1 |-> w[c + k - 1]]
    BY <2>3, NotDoneCuts
  <2>5. Len(w) - c + 1 = z - p + 1
    BY <1>1, <1>2, <1>3, <2>1
  <2>6. \A k \in 1 .. z - p + 1 : c + k - 1 \in 1 .. n /\ a + (c + k - 1) - 1 = p + k - 1
    <3>1. \A x, y, k, d, u, m \in Int :
             d = x - y + 1 /\ m = u - y + 1 /\ y < x /\ 1 <= k /\ k <= u - x + 1
               => d + k - 1 \in 1 .. m /\ y + (d + k - 1) - 1 = x + k - 1
      OBVIOUS
    <3>2. /\ p \in Int /\ a \in Int /\ c \in Int /\ z \in Int /\ n \in Int
          /\ \A k \in 1 .. z - p + 1 : k \in Int /\ 1 <= k /\ k <= z - p + 1
      BY <1>1, <1>2, <2>0, <2>1
    <3>3. n = z - a + 1 /\ c = p - a + 1 /\ a < p
      BY <1>1, <1>8, <2>1
    <3> TAKE k \in 1 .. z - p + 1
    <3>4. k \in Int /\ 1 <= k /\ k <= z - p + 1
      BY <3>2
    <3> QED
      BY <3>1, <3>2, <3>3, <3>4
  <2>7. \A k \in 1 .. z - p + 1 : w[c + k - 1] = p + k - 1
    BY <1>4, <2>6
  <2> QED
    BY <2>4, <2>5, <2>7
<1> QED
  BY <1>1, <1>3, <1>6, <1>7, <1>8

\* What the filter makes of all groups.
Cut == [g \in DOMAIN batch.trxArray |-> Batches!NotDone(batch.trxArray[g])]

LEMMA CutIs ==
    ASSUME Batches!TypeOK, BatchInv, batch.state = "error"
    PROVE  /\ DOMAIN batch.trxArray = Groups /\ Cut \in Lists /\ DOMAIN Cut = Groups
           /\ \A g \in Groups : batch.trxArray[g] = <<>> => Cut[g] = <<>>
<1>1. DOMAIN batch.trxArray = Groups /\ \A g \in Groups : batch.trxArray[g] \in Seq(Steps)
  <2>1. DOMAIN batch.trxArray = Groups
    BY DEF BatchInv
  <2> QED
    BY <2>1, BatchFacts
<1>2. \A g \in Groups : Cut[g] = Batches!NotDone(batch.trxArray[g]) /\ Cut[g] \in Seq(Steps)
  BY <1>1, NotDoneIs DEF Cut
<1>3. Batches!GroupOf(N) \in Nat
  <2>1. shape \in Shapes
    BY BatchFacts
  <2> QED
    BY <2>1, GroupOrder
<1>4. Cut \in [1 .. Batches!GroupOf(N) -> Seq(Steps)]
  <2>1. Cut = [g \in Groups |-> Cut[g]]
    BY <1>1 DEF Cut
  <2> QED
    BY <1>2, <2>1 DEF Groups
<1>5. Cut \in Lists
  BY <1>3, <1>4 DEF Lists
<1> QED
  BY <1>1, <1>2, <1>4, <1>5, NotDoneOfNone DEF Groups

LEMMA RetryIs ==
    ASSUME Batches!TypeOK, BatchInv, Batches!RetryExecute
    PROVE  /\ batch.state = "error" /\ cursor = None /\ retries' = retries + 1
           /\ retries' \in 0 .. MaxRetries
           /\ Starts(Cut, batch.stepState)
           /\ UNCHANGED <<shape, wraps, fed, runs, doubtful, c9>>
<1>1. /\ batch.state = "error" /\ retries < MaxRetries /\ retries' = retries + 1
      /\ Batches!Process([batch EXCEPT !.trxArray = Cut])
      /\ UNCHANGED <<shape, wraps, fed, runs, doubtful, c9>>
  BY DEF Batches!RetryExecute, Cut
<1>2. Cut \in Lists /\ batch \in Batches!Fields
  BY <1>1, CutIs, BatchFacts
<1> DEFINE b == [batch EXCEPT !.trxArray = Cut]
<1>3. b \in Batches!Fields /\ b.trxArray = Cut /\ b.stepState = batch.stepState
  <2> HIDE DEF Cut
  <2> QED
    BY <1>2, BatchBounds DEF Batches!Fields, Lists
<1>4. Starts(Cut, batch.stepState)
  <2>1. Batches!Process(b)
    BY <1>1
  <2> HIDE DEF b
  <2>2. Starts(b.trxArray, b.stepState)
    BY <1>3, <2>1, ProcessIs
  <2> QED
    BY <1>3, <2>2
<1>5. cursor = None
  BY <1>1 DEF BatchInv
<1>6. retries' \in 0 .. MaxRetries
  BY <1>1, BatchFacts, BatchBounds
<1> QED
  BY <1>1, <1>4, <1>5, <1>6

LEMMA GroupsBefore ==
    ASSUME shape \in Shapes, NEW p \in Steps, NEW s \in Steps,
           Batches!GroupOf(s) < Batches!GroupOf(p)
    PROVE  s < p
<1>1. Batches!GroupOf(s) \in Nat /\ Batches!GroupOf(p) \in Nat
  BY GroupOrder DEF Groups
<1>2. ~(p <= s)
  BY <1>1, GroupOrder
<1> QED
  BY <1>2, BatchBounds

LEMMA ExecuteClean ==
    ASSUME Batches!TypeOK, BatchInv, Batches!Execute
    PROVE  /\ Clean(1)' /\ wraps' \in 1 .. MaxPrepares /\ batch' \in Batches!Fields
           /\ batch'.trxArray = Batches!Prepared /\ batch'.FailedSteps = <<>>
           /\ batch'.state = "running" /\ cursor' = <<1, 1>> /\ cursor' # None
           /\ UNCHANGED <<shape, fed, runs, doubtful, retries, c9>>
<1>1. /\ wraps < MaxPrepares /\ wraps' = wraps + 1 /\ wraps \in Nat /\ MaxPrepares \in Nat
      /\ Batches!Process([batch EXCEPT !.trxArray = Batches!Prepared,
                                       !.stepState = [s \in Steps |-> "idle"]])
      /\ UNCHANGED <<shape, fed, runs, doubtful, retries, c9>>
  BY BatchFacts, BatchBounds DEF Batches!Execute
<1>2. /\ shape \in Shapes /\ batch \in Batches!Fields
      /\ Batches!Prepared \in Lists /\ [s \in Steps |-> "idle"] \in Marks
      /\ DOMAIN Batches!Prepared = Groups /\ \A g \in Groups : Batches!Prepared[g] = Whole(g)
  <2>1. shape \in Shapes /\ batch \in Batches!Fields
    BY BatchFacts
  <2> QED
    BY <2>1, PreparedIs DEF Lists, Marks
<1>3. Starts(Batches!Prepared, [s \in Steps |-> "idle"])
  <2> DEFINE fresh == [s \in Steps |-> "idle"]
             b == [batch EXCEPT !.trxArray = Batches!Prepared, !.stepState = fresh]
  <2>1. b \in Batches!Fields /\ b.trxArray = Batches!Prepared /\ b.stepState = fresh
    <3>1. fresh \in Marks
      BY <1>2
    <3> HIDE DEF fresh
    <3> QED
      BY <1>2, <3>1, BatchBounds DEF Batches!Fields, Lists, Marks
  <2>2. Batches!Process(b)
    BY <1>1, BatchBounds
  <2> HIDE DEF b
  <2>3. Starts(b.trxArray, b.stepState)
    BY <2>1, <2>2, ProcessIs
  <2> QED
    BY <2>1, <2>3
<1>4. 1 \in Groups /\ 1 \in Steps /\ 1 \in Nat /\ Batches!GroupOf(1) = 1 /\ Place(1) = 1
  <2>1. 1 \in Groups /\ 1 \in Steps /\ Batches!GroupOf(1) = 1
    BY <1>2, GroupOrder, BatchBounds DEF Groups, Steps
  <2>2. First(1) = 1
    BY <1>2, <2>1, FirstOfGroup DEF Leads
  <2> QED
    BY <1>2, <2>1, <2>2, PlaceIs
<1>5. Batches!Following(Batches!Prepared, 1, 1) = <<1, 1>>
  <2>1. Batches!Prepared[1] # <<>>
    BY <1>2, <1>4, PreparedIs
  <2>2. \A h \in Groups : ~(h < 1)
    BY DEF Groups
  <2> QED
    BY <1>2, <1>4, <2>1, <2>2, FirstPlace
<1>6. <<1, 1>> # None
  BY BatchBounds
<1>7. cursor' = <<1, 1>> /\ batch'.state = "running" /\ batch'.trxArray = Batches!Prepared
      /\ batch'.stepState = [s \in Steps |-> "idle"]
  BY <1>3, <1>5, <1>6 DEF Starts
<1>8. \A s \in Steps : ~(s < 1)
  BY DEF Steps
<1>9. ASSUME wraps' = 1 PROVE \A s \in Steps : runs'[s] = 0
  <2>1. wraps = 0
    BY <1>1, <1>9
  <2> QED
    BY <1>1, <2>1 DEF BatchInv
<1>10. Clean(1)'
  <2>1. \A s \in Steps : batch'.stepState[s] = "done" <=> s < 1
    BY <1>7, <1>8
  <2>2. \A g \in Groups : batch'.trxArray[g] = Whole(g)
    BY <1>2, <1>7
  <2>3. cursor' = <<Batches!GroupOf(1), Place(1)>>
    BY <1>4, <1>7
  <2>4. shape.callbacks = Steps /\ wraps' = 1 =>
          \A s \in Steps \ doubtful' : runs'[s] = IF s < 1 THEN 1 ELSE 0
    BY <1>8, <1>9
  <2> QED
    BY <1>1, <1>4, <1>7, <1>8, <2>1, <2>2, <2>3, <2>4, CleanAfter
<1>11. wraps' \in 1 .. MaxPrepares
  BY <1>1
<1>12. batch' \in Batches!Fields /\ batch'.FailedSteps = <<>>
  BY <1>3 DEF Starts
<1> QED
  BY <1>1, <1>6, <1>7, <1>10, <1>11, <1>12

\* What a retry finds where nothing was cut out so far.
LEMMA RetryGroups ==
    ASSUME Batches!TypeOK, BatchInv, batch.state = "error", NEW p \in 1 .. N + 1, Clean(p),
           NEW g \in Groups
    PROVE  /\ Cut[g] = <<>> => \A s \in Steps : Batches!GroupOf(s) = g => s < p
           /\ Last(g) < p => Cut[g] = <<>>
           /\ p <= First(g) => Cut[g] = Whole(g)
           /\ First(g) < p /\ p <= Last(g) => Cut[g] = [k \in 1 .. Last(g) - p + 1 |-> p + k - 1]
<1>1. /\ shape \in Shapes /\ DOMAIN batch.trxArray = Groups
      /\ Cut[g] = Batches!NotDone(batch.trxArray[g]) /\ (batch.trxArray[g] = <<>> => Cut[g] = <<>>)
  <2>1. DOMAIN batch.trxArray = Groups
    BY CutIs
  <2> QED
    BY <2>1, BatchFacts, CutIs DEF Cut
<1>2. /\ First(g) \in Steps /\ Last(g) \in Steps /\ First(g) <= Last(g)
      /\ \A s \in Steps : Batches!GroupOf(s) = g <=> First(g) <= s /\ s <= Last(g)
  BY <1>1, GroupLayout
<1>3. First(g) \in Nat /\ Last(g) \in Nat /\ p \in Nat
  <2>1. First(g) \in Steps /\ Last(g) \in Steps
    BY <1>2
  <2>2. p \in Nat
    BY BatchBounds
  <2> QED
    BY <2>1, <2>2, BatchBounds
<1>4. CASE batch.trxArray[g] = Whole(g)
  <2>1. /\ p <= First(g) => Cut[g] = Whole(g)
        /\ Last(g) < p => Cut[g] = <<>>
        /\ First(g) < p /\ p <= Last(g) => Cut[g] = [k \in 1 .. Last(g) - p + 1 |-> p + k - 1]
    <3>1. \A s \in Steps : Done(s) <=> s < p
      BY DEF Clean
    <3> QED
      BY <1>1, <1>4, <3>1, CutWhole
  <2>2. ASSUME Cut[g] = <<>>, ~(Last(g) < p) PROVE FALSE
    <3>1. CASE p <= First(g)
      BY <1>1, <2>1, <2>2, <3>1, PreparedIs
    <3>2. CASE First(g) < p
      <4>1. Cut[g] = [k \in 1 .. Last(g) - p + 1 |-> p + k - 1]
        BY <1>3, <2>1, <2>2, <3>2
      <4>2. 1 \in 1 .. Last(g) - p + 1
        BY <1>3, <2>2
      <4>3. DOMAIN Cut[g] # {}
        BY <4>1, <4>2
      <4> QED
        BY <2>2, <4>3
    <3> QED
      BY <1>3, <3>1, <3>2
  <2>3. ASSUME Last(g) < p, NEW s \in Steps, Batches!GroupOf(s) = g PROVE s < p
    <3>1. s <= Last(g) /\ s \in Nat
      BY <1>2, <2>3, BatchBounds
    <3> QED
      BY <1>3, <2>3, <3>1
  <2> QED
    BY <2>1, <2>2, <2>3
<1>5. CASE batch.trxArray[g] = <<>> /\ \A s \in Steps : Batches!GroupOf(s) = g => s < p
  <2>1. Last(g) < p
    <3>1. Batches!GroupOf(Last(g)) = g
      BY <1>2, <1>3
    <3> QED
      BY <1>2, <1>5, <3>1
  <2> QED
    BY <1>1, <1>2, <1>3, <1>5, <2>1
<1> QED
  BY <1>4, <1>5 DEF Clean

LEMMA RetryClean ==
    ASSUME Batches!TypeOK, BatchInv, NEW p \in 1 .. N + 1, Clean(p), Batches!RetryExecute
    PROVE  Clean(p)' \/ \E g \in Groups : Stuck(g)'
<1>1. /\ batch.state = "error" /\ cursor = None /\ retries' = retries + 1
      /\ UNCHANGED <<shape, wraps, fed, runs, doubtful>>
      /\ batch'.trxArray = Cut /\ batch'.stepState = batch.stepState
      /\ cursor' = Batches!Following(Cut, 1, 1)
      /\ batch'.state = (IF cursor' = None THEN "done" ELSE "running")
  BY RetryIs DEF Starts
<1>2. /\ shape \in Shapes /\ Cut \in Lists /\ DOMAIN Cut = Groups /\ retries \in Nat
      /\ p \in Nat /\ N \in Nat /\ p <= N + 1 /\ p >= 1
  BY <1>1, BatchFacts, CutIs, BatchBounds
<1>3. /\ \A s \in Steps : batch'.stepState[s] = "done" <=> s < p
      /\ \A s \in Steps : s < p => runs'[s] > 0 /\ (s \in shape.ends /\ s < N => fed'[s + 1] = s)
      /\ shape.callbacks = Steps /\ wraps' = 1 =>
             \A s \in Steps \ doubtful' : runs'[s] = IF s < p THEN 1 ELSE 0
  <2>1. \A s \in Steps : batch'.stepState[s] = "done" <=> s < p
    BY <1>1 DEF Clean, Done
  <2>2. \A s \in Steps : s < p => runs'[s] > 0 /\ (s \in shape.ends /\ s < N => fed'[s + 1] = s)
    BY <1>1 DEF Clean
  <2>3. shape.callbacks = Steps /\ wraps' = 1 =>
             \A s \in Steps \ doubtful' : runs'[s] = IF s < p THEN 1 ELSE 0
    BY <1>1 DEF Clean
  <2> QED
    BY <2>1, <2>2, <2>3
<1>4. CASE p = N + 1
  <2>1. ASSUME NEW g \in Groups PROVE Cut[g] = <<>> /\ \A s \in Steps : Batches!GroupOf(s) = g => s < p
    <3>1. Last(g) <= N /\ Last(g) \in Nat
      <4>1. Last(g) \in Steps
        BY <1>2, GroupLayout
      <4> QED
        BY <4>1, BatchBounds DEF Steps
    <3>2. Last(g) < p
      BY <1>2, <1>4, <3>1
    <3> QED
      BY <1>1, <3>2, RetryGroups
  <2>2. cursor' = None
    BY <1>1, <1>2, <2>1, FirstPlace
  <2> QED
    BY <1>1, <1>2, <1>3, <1>4, <2>1, <2>2, CleanAfter
<1>5. CASE p # N + 1
  <2>1. p \in Steps
    BY <1>2, <1>5 DEF Steps
  <2>2. PICK g \in Groups : g = Batches!GroupOf(p)
    BY <1>2, <2>1, GroupOrder
  <2>3. /\ First(g) \in Nat /\ Last(g) \in Nat /\ First(g) <= p /\ p <= Last(g) /\ g \in Nat
        /\ \A s \in Steps : Batches!GroupOf(s) = g <=> First(g) <= s /\ s <= Last(g)
        /\ First(g) \in Steps /\ Last(g) \in Steps
    <3>1. First(g) \in Steps /\ Last(g) \in Steps
      BY <1>2, GroupLayout
    <3>2. g \in Nat
      BY DEF Groups
    <3>3. \A s \in Steps : Batches!GroupOf(s) = g <=> First(g) <= s /\ s <= Last(g)
      BY <1>2, GroupLayout
    <3> QED
      BY <2>1, <2>2, <3>1, <3>2, <3>3, BatchBounds
  <2>4. ASSUME NEW h \in Groups, h < g PROVE Cut[h] = <<>>
    <3>1. Last(h) \in Steps /\ Batches!GroupOf(Last(h)) = h
      <4>1. First(h) \in Steps /\ Last(h) \in Steps /\ First(h) <= Last(h)
        BY <1>2, GroupLayout
      <4>2. PICK z \in Nat : z = Last(h)
        BY <4>1, BatchBounds
      <4>3. Last(h) <= Last(h)
        BY <4>2
      <4> QED
        BY <1>2, <4>1, <4>3, GroupLayout
    <3>2. Last(h) < p
      BY <1>2, <2>1, <2>2, <2>4, <3>1, GroupsBefore
    <3> QED
      BY <1>1, <3>2, RetryGroups
  <2>5. Cut[g] # <<>>
    BY <1>1, <1>2, <2>1, <2>2, RetryGroups
  <2>6. cursor' = <<g, 1>> /\ cursor' # None /\ batch'.state = "running"
    <3>1. cursor' = <<g, 1>>
      BY <1>1, <1>2, <2>4, <2>5, FirstPlace
    <3> QED
      BY <1>1, <2>3, <3>1, BatchBounds
  <2>7. CASE p = First(g)
    <3>1. Place(p) = 1
      BY <1>2, <2>1, <2>2, <2>3, <2>7, PlaceIs
    <3>2. ASSUME NEW h \in Groups
          PROVE  \/ batch'.trxArray[h] = Whole(h)
                 \/ batch'.trxArray[h] = <<>> /\ \A s \in Steps : Batches!GroupOf(s) = h => s < p
      <4>1. CASE Last(h) < p
        BY <1>1, <4>1, RetryGroups
      <4>2. CASE p <= First(h)
        BY <1>1, <4>2, RetryGroups
      <4>3. CASE First(h) < p /\ p <= Last(h)
        <5>1. First(h) \in Nat /\ Last(h) \in Nat
          BY <1>2, GroupLayout, BatchBounds
        <5>2. Batches!GroupOf(p) = h
          BY <1>2, <2>1, <4>3, <5>1, GroupLayout
        <5> QED
          BY <2>2, <2>3, <2>7, <4>3, <5>1, <5>2
      <4> QED
        <5>1. First(h) \in Nat /\ Last(h) \in Nat
          BY <1>2, GroupLayout, BatchBounds
        <5> QED
          BY <1>2, <4>1, <4>2, <4>3, <5>1
    <3>3. cursor' = <<Batches!GroupOf(p), Place(p)>>
      BY <2>2, <2>6, <3>1
    <3> QED
      BY <1>1, <1>2, <1>3, <2>1, <2>6, <3>2, <3>3, CleanAfter
  <2>8. CASE p # First(g)
    <3>1. First(g) < p
      BY <1>2, <2>3, <2>8
    <3> DEFINE m == Last(g) - p + 1
               left == [k \in 1 .. m |-> p + k - 1]
    <3>2. Cut[g] = left
      BY <1>1, <2>3, <3>1, RetryGroups
    <3>3. m \in Nat /\ 1 \in 1 .. m
      BY <1>2, <2>3
    <3>4. \A k \in 1 .. m : /\ k \in Nat /\ p + k - 1 \in Steps /\ p + k - 1 <= Last(g)
                            /\ First(g) <= p + k - 1
      <4>1. Last(g) <= N
        BY <2>3 DEF Steps
      <4> QED
        BY <1>2, <2>3, <3>1, <3>3, <4>1 DEF Steps
    <3>5. DOMAIN left = 1 .. m /\ left \in Seq(Steps)
          /\ \A k \in 1 .. m : left[k] = p + k - 1 /\ left[k] \in Steps
      <4>1. left \in [1 .. m -> Steps]
        BY <3>4
      <4> QED
        BY <3>3, <3>4, <4>1
    <3>6. left[1] = p
      BY <1>2, <3>3, <3>5
    <3> HIDE DEF left
    <3>7. ASSUME NEW k \in 1 .. m PROVE Batches!GroupOf(left[k]) = g /\ k < Place(left[k])
      <4>1. PICK s \in Steps : s = left[k] /\ s = p + k - 1 /\ First(g) <= s /\ s <= Last(g) /\ k \in Nat
        BY <3>4, <3>5
      <4>2. Batches!GroupOf(s) = g
        BY <2>3, <4>1
      <4>3. Place(s) = s - First(g) + 1
        BY <1>2, <4>2, PlaceIs
      <4> QED
        BY <1>2, <2>3, <3>1, <4>1, <4>2, <4>3
    <3>8. Remains(left, g, batch'.stepState)
      <4>1. left # <<>>
        BY <3>3, <3>5
      <4>2. ASSUME NEW j \in 1 .. m, NEW k \in 1 .. m, j < k PROVE left[j] < left[k]
        <5>1. left[j] = p + j - 1 /\ left[k] = p + k - 1 /\ j \in Nat /\ k \in Nat
          BY <3>4, <3>5
        <5> QED
          BY <1>2, <4>2, <5>1
      <4>3. batch'.stepState[left[1]] # "done"
        <5>1. ~(p < p)
          BY <1>2
        <5> QED
          BY <1>3, <2>1, <3>6, <5>1
      <4> QED
        BY <3>5, <3>7, <4>1, <4>2, <4>3 DEF Remains
    <3>9. \A s \in Steps : Batches!GroupOf(s) < g => runs'[s] > 0
      BY <1>2, <1>3, <2>1, <2>2, GroupsBefore
    <3>10. /\ \A k \in DOMAIN left : left[k] = left[1] + k - 1
           /\ \A s \in Steps : s < left[1] => runs'[s] > 0
      BY <1>3, <3>5, <3>6
    <3>11. cursor'[2] = 1
      BY <2>6
    <3>12. retries' > 0 /\ \A h \in Groups : h < g => batch'.trxArray[h] = <<>>
      BY <1>1, <1>2, <2>4
    <3>13. Stuck(g)'
      <4>1. cursor' # None => \E k \in DOMAIN left : cursor' = <<g, k>>
        BY <2>6, <3>3, <3>5
      <4>2. \A s \in Steps :
              s < (IF cursor' = None THEN left[1] ELSE left[cursor'[2]]) => runs'[s] > 0
        BY <2>6, <3>10, <3>11
      <4>3. batch'.trxArray[g] = left /\ shape' = shape /\ batch'.state # "done"
        BY <1>1, <2>6, <3>2
      <4> QED
        BY <3>8, <3>9, <3>10, <3>12, <4>1, <4>2, <4>3, StuckAfter
    <3> QED
      BY <2>1, <2>2, <3>13
  <2> QED
    BY <2>7, <2>8
<1> QED
  BY <1>4, <1>5

LEMMA RetryStuck ==
    ASSUME Batches!TypeOK, BatchInv, NEW g \in Groups, Stuck(g), Batches!RetryExecute
    PROVE  Stuck(g)'
<1>1. /\ batch.state = "error" /\ cursor = None /\ retries' = retries + 1
      /\ UNCHANGED <<shape, wraps, fed, runs, doubtful>>
      /\ batch'.trxArray = Cut /\ batch'.stepState = batch.stepState
      /\ cursor' = Batches!Following(Cut, 1, 1)
      /\ batch'.state = (IF cursor' = None THEN "done" ELSE "running")
  BY RetryIs DEF Starts
<1>2. /\ shape \in Shapes /\ Cut \in Lists /\ DOMAIN Cut = Groups /\ retries \in Nat /\ g \in Nat
      /\ DOMAIN batch.trxArray = Groups
      /\ \A h \in Groups : batch.trxArray[h] = <<>> => Cut[h] = <<>>
  BY <1>1, BatchFacts, CutIs DEF Groups
<1>3. PICK left \in Seq(Steps) : left = batch.trxArray[g] /\ Remains(left, g, batch.stepState)
  <2>1. batch.trxArray[g] \in Seq(Steps)
    BY <1>2, BatchFacts
  <2> QED
    BY <2>1 DEF Stuck, Remains, Done
<1>4. Cut[g] = Batches!NotDone(left)
  BY <1>2, <1>3 DEF Cut
<1>5. PICK out : out = Batches!NotDone(left)
  OBVIOUS
<1>6. /\ out \in Seq(Steps)
      /\ \E pick \in [DOMAIN out -> DOMAIN left] :
           /\ \A k \in DOMAIN out : out[k] = left[pick[k]] /\ k <= pick[k]
           /\ \A j, k \in DOMAIN out : j < k => pick[j] < pick[k]
      /\ 1 \in DOMAIN left /\ ~Done(left[1]) => 1 \in DOMAIN out /\ out[1] = left[1]
  BY <1>5, NotDoneIs
<1>7. PICK pick \in [DOMAIN out -> DOMAIN left] :
           /\ \A k \in DOMAIN out : out[k] = left[pick[k]] /\ k <= pick[k]
           /\ \A j, k \in DOMAIN out : j < k => pick[j] < pick[k]
  BY <1>6
<1>8. 1 \in DOMAIN left /\ ~Done(left[1])
  BY <1>3 DEF Remains, Done
<1>9. 1 \in DOMAIN out /\ out[1] = left[1]
  BY <1>6, <1>8
<1>10. Remains(out, g, batch'.stepState)
  <2>1. ASSUME NEW k \in DOMAIN out PROVE Batches!GroupOf(out[k]) = g /\ k < Place(out[k])
    <3>1. pick[k] \in DOMAIN left /\ out[k] = left[pick[k]] /\ k <= pick[k]
      BY <1>7
    <3>2. Batches!GroupOf(left[pick[k]]) = g /\ pick[k] < Place(left[pick[k]])
      BY <1>3, <3>1 DEF Remains
    <3>3. Place(left[pick[k]]) \in Nat /\ pick[k] \in Nat /\ k \in Nat
      <4>1. left[pick[k]] \in Steps
        BY <1>3, <3>1
      <4> QED
        <5>1. pick[k] \in Nat /\ k \in Nat
          BY <1>3, <1>6, <3>1
        <5>2. Place(left[pick[k]]) \in Nat
          BY <1>2, <4>1, PlaceIs
        <5> QED
          BY <5>1, <5>2
    <3> QED
      BY <3>1, <3>2, <3>3
  <2>2. \A j, k \in DOMAIN out : j < k => out[j] < out[k]
    BY <1>3, <1>7 DEF Remains
  <2>3. batch'.stepState[out[1]] # "done"
    BY <1>1, <1>8, <1>9 DEF Done
  <2> QED
    BY <1>6, <1>9, <2>1, <2>2, <2>3 DEF Remains
<1>11. \A h \in Groups : h < g => Cut[h] = <<>>
  BY <1>2 DEF Stuck
<1>12. Cut[g] # <<>>
  BY <1>4, <1>5, <1>10 DEF Remains
<1>13. cursor' = <<g, 1>> /\ cursor' # None /\ batch'.state # "done"
  <2>1. cursor' = <<g, 1>>
    BY <1>1, <1>2, <1>11, <1>12, FirstPlace
  <2> QED
    BY <1>1, <1>2, <2>1, BatchBounds
<1>14. retries' > 0 /\ retries' # 1
  BY <1>1, <1>2 DEF Stuck
<1>15. \A s \in Steps : Batches!GroupOf(s) < g => runs'[s] > 0
  BY <1>1 DEF Stuck
<1>16. batch'.trxArray[g] = out /\ shape' = shape
       /\ \A h \in Groups : h < g => batch'.trxArray[h] = <<>>
  BY <1>1, <1>4, <1>5, <1>11
<1>17. cursor' # None => \E k \in DOMAIN out : cursor' = <<g, k>>
  BY <1>9, <1>13
<1> QED
  BY <1>10, <1>13, <1>14, <1>15, <1>16, <1>17, StuckAfter

(***************************************************************************)
(* The invariant of the batches.                                           *)
(***************************************************************************)
BatchesInv == Batches!TypeOK /\ BatchInv

LEMMA PlaceType ==
    ASSUME NEW trx \in Lists, NEW i \in Nat \ {0}, NEW k \in Nat \ {0}
    PROVE  Batches!Following(trx, i, k) = None \/ Batches!Following(trx, i, k) \in Nat \X Nat
<1>1. PICK f : f = Batches!Following(trx, i, k) /\ Holds(trx, f)
  BY FollowingIs
<1>2. ASSUME f # None PROVE f \in Nat \X Nat
  <2>1. PICK g \in DOMAIN trx : \E j \in DOMAIN trx[g] : f = <<g, j>>
    BY <1>1, <1>2 DEF Holds
  <2>2. g \in Nat /\ trx[g] \in Seq(Steps)
    BY DEF Lists
  <2>3. PICK j \in DOMAIN trx[g] : f = <<g, j>>
    BY <2>1
  <2>4. j \in Nat
    BY <2>2
  <2> QED
    BY <2>2, <2>3, <2>4
<1> QED
  BY <1>1, <1>2

LEMMA Running ==
    ASSUME BatchesInv, cursor # None
    PROVE  /\ Batches!Current \in Steps
           /\ cursor[1] \in Nat \ {0} /\ cursor[2] \in Nat \ {0} /\ cursor[2] + 1 \in Nat \ {0}
           /\ batch.state = "running" /\ batch.FailedSteps = <<>> /\ wraps \in Nat \ {0}
           /\ batch.state # "idle" /\ DOMAIN batch.trxArray = Groups
           /\ (\E p \in 1 .. N + 1 : Clean(p)) \/ (\E g \in Groups : Stuck(g))
<1>1. /\ batch.state = "running" /\ batch.FailedSteps = <<>> /\ wraps \in Nat \ {0}
      /\ DOMAIN batch.trxArray = Groups /\ shape \in Shapes
  BY BatchFacts DEF BatchesInv
<1>2. (\E p \in 1 .. N + 1 : Clean(p)) \/ (\E g \in Groups : Stuck(g))
  BY <1>1 DEF BatchesInv, BatchInv
<1>3. ASSUME NEW p \in 1 .. N + 1, Clean(p)
      PROVE  Batches!Current \in Steps /\ cursor[1] \in Nat \ {0} /\ cursor[2] \in Nat \ {0}
  <2>1. /\ p \in Steps /\ Batches!Current = p
        /\ cursor[1] = Batches!GroupOf(p) /\ cursor[2] = Place(p)
    BY <1>3, CleanCurrent DEF BatchesInv
  <2>2. Batches!GroupOf(p) \in Nat \ {0}
    BY <1>1, <2>1, GroupOrder DEF Groups
  <2>3. Place(p) \in Nat \ {0}
    BY <1>1, <2>1, PlaceIs
  <2> QED
    BY <2>1, <2>2, <2>3
<1>4. ASSUME NEW g \in Groups, Stuck(g)
      PROVE  Batches!Current \in Steps /\ cursor[1] \in Nat \ {0} /\ cursor[2] \in Nat \ {0}
  <2>1. PICK left, k : StandsAt(left, k, g)
    BY <1>4, StuckCurrent DEF BatchesInv
  <2>2. g \in Nat \ {0}
    BY DEF Groups
  <2> QED
    BY <2>1, <2>2 DEF StandsAt
<1>5. Batches!Current \in Steps /\ cursor[1] \in Nat \ {0} /\ cursor[2] \in Nat \ {0}
  BY <1>2, <1>3, <1>4
<1>6. cursor[2] + 1 \in Nat \ {0}
  BY <1>5
<1> QED
  BY <1>1, <1>2, <1>5, <1>6

LEMMA BatchInit ==
    ASSUME Batches!Init
    PROVE  BatchesInv
<1> USE BatchBounds DEF Batches!Init
<1>1. batch \in Batches!Fields
  <2>1. <<>> \in Seq(Steps) /\ <<>> \in Seq(Seq(Steps))
    OBVIOUS
  <2>2. [s \in Steps |-> "idle"] \in [Steps -> {"idle", "done", "error"}]
    OBVIOUS
  <2>3. [s \in Steps |-> None] \in [Steps -> Steps \cup {None}]
    OBVIOUS
  <2> QED
    BY <2>1, <2>2, <2>3 DEF Batches!Fields
<1>2. runs \in [Steps -> Nat] /\ fed \in [Steps -> Steps \cup {None}] /\ \A s \in Steps : runs[s] = 0
  OBVIOUS
<1>3. wraps \in 0 .. MaxPrepares /\ retries \in 0 .. MaxRetries /\ c9 \in 0 .. MaxFailures
  OBVIOUS
<1>4. Batches!TypeOK
  BY <1>1, <1>2, <1>3 DEF Batches!TypeOK
<1>5. BatchInv
  BY <1>2 DEF BatchInv
<1> QED
  BY <1>4, <1>5 DEF BatchesInv

\* Types of the next state from those of its parts.
LEMMA TypesAfter ==
    ASSUME shape \in Shapes, shape' = shape, batch' \in Batches!Fields,
           cursor' = None \/ cursor' \in Nat \X Nat,
           wraps' \in 0 .. MaxPrepares, retries' \in 0 .. MaxRetries, c9' \in 0 .. MaxFailures,
           fed' \in [Steps -> Steps \cup {None}], runs' \in [Steps -> Nat],
           doubtful' \in SUBSET Steps
    PROVE  Batches!TypeOK'
BY BatchBounds DEF Batches!TypeOK, Batches!Fields

LEMMA InvAfter ==
    ASSUME shape' = shape, batch'.state # "idle", wraps' # 0,
           cursor' # None <=> batch'.state = "running",
           batch'.state = "running" => batch'.FailedSteps = <<>>,
           DOMAIN batch'.trxArray = Groups,
           (\E p \in 1 .. N + 1 : Clean(p)') \/ (\E g \in Groups : Stuck(g)')
    PROVE  BatchInv'
BY LayoutStays DEF BatchInv

LEMMA ExecuteKeeps ==
    ASSUME BatchesInv, Batches!Execute
    PROVE  BatchesInv'
<1>1. /\ Clean(1)' /\ wraps' \in 1 .. MaxPrepares /\ batch' \in Batches!Fields
      /\ batch'.trxArray = Batches!Prepared /\ batch'.FailedSteps = <<>>
      /\ batch'.state = "running" /\ cursor' = <<1, 1>> /\ cursor' # None
      /\ UNCHANGED <<shape, fed, runs, doubtful, retries, c9>>
  BY ExecuteClean DEF BatchesInv
<1>2. Batches!TypeOK /\ shape \in Shapes
  BY BatchFacts DEF BatchesInv
<1>3. DOMAIN batch'.trxArray = Groups
  BY <1>1, <1>2, PreparedIs
<1>4. Batches!TypeOK'
  <2>1. cursor' \in Nat \X Nat /\ wraps' \in 0 .. MaxPrepares
    BY <1>1, BatchBounds
  <2>2. /\ retries' \in 0 .. MaxRetries /\ c9' \in 0 .. MaxFailures
        /\ fed' \in [Steps -> Steps \cup {None}] /\ runs' \in [Steps -> Nat]
        /\ doubtful' \in SUBSET Steps
    BY <1>1, <1>2, BatchBounds DEF Batches!TypeOK
  <2> QED
    BY <1>1, <1>2, <2>1, <2>2, TypesAfter
<1>5. 1 \in 1 .. N + 1 /\ wraps' # 0
  BY <1>1, BatchBounds
<1>6. BatchInv'
  BY <1>1, <1>3, <1>5, InvAfter
<1> QED
  BY <1>4, <1>6 DEF BatchesInv

LEMMA RetryKeeps ==
    ASSUME BatchesInv, Batches!RetryExecute
    PROVE  BatchesInv'
<1>1. /\ batch.state = "error" /\ retries' \in 0 .. MaxRetries
      /\ Starts(Cut, batch.stepState)
      /\ UNCHANGED <<shape, wraps, fed, runs, doubtful, c9>>
  BY RetryIs DEF BatchesInv
<1>2. Batches!TypeOK /\ BatchInv /\ shape \in Shapes
  BY BatchFacts DEF BatchesInv
<1>3. Cut \in Lists /\ DOMAIN Cut = Groups
  BY <1>1, <1>2, CutIs
<1>4. /\ batch' \in Batches!Fields /\ batch'.trxArray = Cut /\ batch'.FailedSteps = <<>>
      /\ cursor' = Batches!Following(Cut, 1, 1)
      /\ batch'.state = (IF cursor' = None THEN "done" ELSE "running")
  BY <1>1 DEF Starts
<1>5. cursor' = None \/ cursor' \in Nat \X Nat
  <2>1. PICK i \in Nat \ {0} : i = 1
    OBVIOUS
  <2>2. Batches!Following(Cut, i, i) = None \/ Batches!Following(Cut, i, i) \in Nat \X Nat
    BY <1>3, PlaceType
  <2> QED
    BY <1>4, <2>1, <2>2
<1>6. Batches!TypeOK'
  <2>1. /\ wraps' \in 0 .. MaxPrepares /\ c9' \in 0 .. MaxFailures
        /\ fed' \in [Steps -> Steps \cup {None}] /\ runs' \in [Steps -> Nat]
        /\ doubtful' \in SUBSET Steps
    BY <1>1, <1>2, BatchBounds DEF Batches!TypeOK
  <2> QED
    BY <1>1, <1>2, <1>4, <1>5, <2>1, TypesAfter
<1>7. wraps' # 0
  BY <1>1, <1>2 DEF BatchInv
<1>8. (\E p \in 1 .. N + 1 : Clean(p)') \/ (\E g \in Groups : Stuck(g)')
  <2>1. (\E p \in 1 .. N + 1 : Clean(p)) \/ (\E g \in Groups : Stuck(g))
    BY <1>1, <1>2 DEF BatchInv
  <2>2. ASSUME NEW p \in 1 .. N + 1, Clean(p) PROVE Clean(p)' \/ \E g \in Groups : Stuck(g)'
    BY <1>2, <2>2, RetryClean
  <2>3. ASSUME NEW g \in Groups, Stuck(g) PROVE Stuck(g)'
    BY <1>2, <2>3, RetryStuck
  <2> QED
    BY <2>1, <2>2, <2>3
<1>9. BatchInv'
  <2>1. batch'.state # "idle" /\ (cursor' # None <=> batch'.state = "running")
    BY <1>4
  <2> QED
    BY <1>1, <1>3, <1>4, <1>7, <1>8, <2>1, InvAfter
<1> QED
  BY <1>6, <1>9 DEF BatchesInv

LEMMA AnswerKeeps ==
    ASSUME BatchesInv, Batches!Answer
    PROVE  BatchesInv'
<1>1. cursor # None
  BY DEF Batches!Answer, Batches!Succeeds, Batches!Errs, Batches!Rejected, Batches!AnswerLost,
         Batches!NoMethod, Batches!NoActor
<1>2. PICK s \in Steps : s = Batches!Current
  BY <1>1, Running
<1>3. /\ cursor[1] \in Nat \ {0} /\ cursor[2] + 1 \in Nat \ {0}
      /\ batch.state = "running" /\ batch.FailedSteps = <<>> /\ wraps \in Nat \ {0}
      /\ DOMAIN batch.trxArray = Groups
      /\ (\E p \in 1 .. N + 1 : Clean(p)) \/ (\E g \in Groups : Stuck(g))
  BY <1>1, Running
<1>4. (Stops(s) \/ Goes(s)) /\ c9' \in 0 .. MaxFailures
  BY <1>1, <1>2, <1>3, AnswersAre DEF BatchesInv
<1>5. /\ Batches!TypeOK /\ BatchInv /\ shape \in Shapes /\ batch.trxArray \in Lists
      /\ fed \in [Steps -> Steps \cup {None}] /\ runs \in [Steps -> Nat] /\ doubtful \in SUBSET Steps
      /\ wraps \in 0 .. MaxPrepares /\ retries \in 0 .. MaxRetries
  <2>1. Batches!TypeOK /\ BatchInv
    BY DEF BatchesInv
  <2> QED
    BY <2>1, BatchFacts DEF Batches!TypeOK
<1>6. ASSUME NEW p \in 1 .. N + 1, Clean(p) PROVE p = s
  BY <1>1, <1>2, <1>5, <1>6, CleanCurrent
<1>7. CASE Stops(s)
  <2>1. /\ cursor' = None /\ batch' \in Batches!Fields /\ batch'.state = "error"
        /\ batch'.trxArray = batch.trxArray
        /\ UNCHANGED <<shape, wraps, fed, retries>>
        /\ runs' = runs \/ runs' = [runs EXCEPT ![s] = @ + 1]
        /\ doubtful' = doubtful \/ doubtful' = doubtful \cup {s}
    BY <1>7 DEF Stops
  <2>2. runs' \in [Steps -> Nat] /\ doubtful' \in SUBSET Steps
    BY <1>5, <2>1
  <2>3. Batches!TypeOK'
    BY <1>4, <1>5, <2>1, <2>2, TypesAfter
  <2>4. (\E p \in 1 .. N + 1 : Clean(p)') \/ (\E g \in Groups : Stuck(g)')
    <3>1. ASSUME NEW p \in 1 .. N + 1, Clean(p) PROVE Clean(p)'
      BY <1>1, <1>5, <1>6, <1>7, <3>1, StopsClean
    <3>2. ASSUME NEW g \in Groups, Stuck(g) PROVE Stuck(g)'
      BY <1>1, <1>2, <1>5, <1>7, <3>2, StopsStuck
    <3> QED
      BY <1>3, <3>1, <3>2
  <2>5. BatchInv'
    BY <1>3, <2>1, <2>4, InvAfter
  <2> QED
    BY <2>3, <2>5 DEF BatchesInv
<1>8. CASE Goes(s)
  <2>1. /\ cursor' = NextPlace /\ batch' \in Batches!Fields
        /\ batch'.state = (IF NextPlace = None THEN "done" ELSE "running")
        /\ batch'.trxArray = batch.trxArray /\ batch'.FailedSteps = <<>>
        /\ UNCHANGED <<shape, wraps, doubtful, retries>>
        /\ runs' = [runs EXCEPT ![s] = @ + 1]
        /\ fed' = fed \/ (Feeds(s) # None /\ fed' = [fed EXCEPT ![Feeds(s)] = s])
    BY <1>8 DEF Goes
  <2>2. NextPlace = None \/ NextPlace \in Nat \X Nat
    BY <1>3, <1>5, PlaceType DEF NextPlace
  <2>3. Feeds(s) \in Steps \cup {None}
    BY <1>5, AtIs DEF Feeds
  <2>4. runs' \in [Steps -> Nat] /\ fed' \in [Steps -> Steps \cup {None}]
    BY <1>5, <2>1, <2>3
  <2>5. Batches!TypeOK'
    BY <1>4, <1>5, <2>1, <2>2, <2>4, TypesAfter
  <2>6. (\E p \in 1 .. N + 1 : Clean(p)') \/ (\E g \in Groups : Stuck(g)')
    <3>1. ASSUME NEW p \in 1 .. N + 1, Clean(p) PROVE \E q \in 1 .. N + 1 : Clean(q)'
      <4>1. p + 1 \in 1 .. N + 1 /\ Clean(p + 1)'
        BY <1>1, <1>5, <1>6, <1>8, <3>1, GoesClean
      <4> QED
        BY <4>1
    <3>2. ASSUME NEW g \in Groups, Stuck(g) PROVE Stuck(g)'
      BY <1>1, <1>2, <1>5, <1>8, <3>2, GoesStuck
    <3> QED
      BY <1>3, <3>1, <3>2
  <2>7. batch'.state # "idle" /\ (cursor' # None <=> batch'.state = "running")
    BY <2>1
  <2>8. BatchInv'
    BY <1>3, <2>1, <2>6, <2>7, InvAfter
  <2> QED
    BY <2>5, <2>8 DEF BatchesInv
<1> QED
  BY <1>4, <1>7, <1>8

LEMMA BatchNext ==
    ASSUME BatchesInv, Batches!Next
    PROVE  BatchesInv'
BY ExecuteKeeps, RetryKeeps, AnswerKeeps DEF Batches!Next

\* Where every group is one step, nothing can be cut out of one.
LEMMA NeverStuck ==
    ASSUME BatchesInv, 1 .. N - 1 \subseteq shape.ends, NEW g \in Groups, Stuck(g),
           batch.state # "idle"
    PROVE  FALSE
<1>1. shape \in Shapes /\ DOMAIN batch.trxArray = Groups /\ batch.trxArray[g] \in Seq(Steps)
  <2>1. DOMAIN batch.trxArray = Groups /\ Batches!TypeOK /\ BatchInv
    BY DEF BatchesInv, BatchInv
  <2> QED
    BY <2>1, BatchFacts
<1>2. PICK s \in Steps : s = batch.trxArray[g][1] /\ 1 < Place(s)
  <2>1. batch.trxArray[g] # <<>> /\ 1 \in DOMAIN batch.trxArray[g] /\ batch.trxArray[g][1] \in Steps
    BY <1>1 DEF Stuck
  <2> QED
    BY <2>1 DEF Stuck
<1>3. CASE s = 1
  <2>1. Batches!GroupOf(1) = 1 /\ 1 \in Groups
    BY <1>1, <1>2, <1>3, GroupOrder
  <2>2. First(1) = 1
    BY <1>1, <2>1, FirstOfGroup DEF Leads
  <2> QED
    BY <1>1, <1>2, <1>3, <2>1, <2>2, PlaceIs
<1>4. CASE s # 1
  <2>1. s - 1 \in Steps /\ s - 1 < N /\ s - 1 \in 1 .. N - 1 /\ (s - 1) + 1 = s
    BY <1>2, <1>4, BatchBounds DEF Steps
  <2>2. Place((s - 1) + 1) = 1
    BY <1>1, <2>1, Successor
  <2> QED
    BY <1>2, <2>1, <2>2
<1> QED
  BY <1>3, <1>4

LEMMA BatchesInvMeans ==
    ASSUME BatchesInv
    PROVE  Batches!TypeOK /\ Batches!DoneMeansAllRan /\ Batches!RetryRunsOnce
<1>1. /\ Batches!TypeOK /\ BatchInv /\ runs \in [Steps -> Nat]
      /\ batch.state # "idle" =>
           (\E p \in 1 .. N + 1 : Clean(p)) \/ (\E g \in Groups : Stuck(g))
  <2>1. Batches!TypeOK /\ BatchInv
    BY DEF BatchesInv
  <2> QED
    BY <2>1, BatchFacts DEF BatchInv
<1>2. Batches!DoneMeansAllRan
  <2> SUFFICES ASSUME batch.state = "done", NEW s \in Steps PROVE runs[s] > 0
    BY BatchBounds DEF Batches!DoneMeansAllRan
  <2>1. ASSUME NEW p \in 1 .. N + 1, Clean(p) PROVE runs[s] > 0
    <3>1. p = N + 1
      BY <2>1 DEF Clean
    <3>2. s < p
      BY <3>1, BatchBounds DEF Steps
    <3> QED
      BY <2>1, <3>2 DEF Clean
  <2>2. ASSUME NEW g \in Groups, Stuck(g) PROVE FALSE
    BY <2>2 DEF Stuck
  <2> QED
    BY <1>1, <2>1, <2>2
<1>3. Batches!RetryRunsOnce
  <2> SUFFICES ASSUME 1 .. N - 1 \subseteq shape.ends, shape.callbacks = Steps, wraps = 1,
                      NEW s \in Steps \ doubtful
               PROVE  runs[s] <= 1
    BY BatchBounds DEF Batches!RetryRunsOnce
  <2>1. batch.state # "idle"
    BY <1>1 DEF BatchInv
  <2>2. PICK p \in 1 .. N + 1 : Clean(p)
    BY <1>1, <2>1, NeverStuck
  <2>3. runs[s] = 0 \/ runs[s] = 1
    BY <2>2 DEF Clean
  <2> QED
    BY <2>3
<1> QED
  BY <1>1, <1>2, <1>3

\* What is executed is the step under the cursor.
LEMMA RunsGrow ==
    ASSUME BatchesInv, Batches!Next, NEW s \in Steps, runs'[s] > runs[s]
    PROVE  cursor # None /\ s = Batches!Current
<1>1. runs \in [Steps -> Nat]
  BY BatchFacts DEF BatchesInv
<1>2. ~(runs[s] > runs[s])
  BY <1>1
<1>3. Batches!Answer
  BY <1>2, ExecuteClean, RetryIs DEF Batches!Next, BatchesInv
<1>4. cursor # None
  BY <1>3 DEF Batches!Answer, Batches!Succeeds, Batches!Errs, Batches!Rejected, Batches!AnswerLost,
         Batches!NoMethod, Batches!NoActor
<1>5. PICK c \in Steps : c = Batches!Current
  BY <1>4, Running
<1>6. Stops(c) \/ Goes(c)
  BY <1>3, <1>4, <1>5, Running, AnswersAre DEF BatchesInv
<1>7. runs' = runs \/ runs' = [runs EXCEPT ![c] = @ + 1]
  BY <1>6 DEF Stops, Goes
<1> QED
  BY <1>1, <1>2, <1>4, <1>5, <1>7

LEMMA StepInOrder ==
    ASSUME BatchesInv, Batches!Next
    PROVE  Batches!InOrder
<1> SUFFICES ASSUME NEW s \in Steps, runs'[s] > runs[s], NEW r \in 1 .. s - 1
             PROVE  runs[r] > 0 \/ (Batches!GroupOf(r) = Batches!GroupOf(s) /\ retries > 1)
  BY BatchBounds DEF Batches!InOrder
<1>1. cursor # None /\ s = Batches!Current
  BY RunsGrow
<1>2. r \in Steps /\ r < s /\ r \in Nat /\ s \in Nat
  BY BatchBounds DEF Steps
<1>3. /\ (\E p \in 1 .. N + 1 : Clean(p)) \/ (\E g \in Groups : Stuck(g))
      /\ shape \in Shapes /\ retries \in Nat /\ Batches!TypeOK /\ BatchInv
  <2>1. Batches!TypeOK /\ BatchInv
    BY DEF BatchesInv
  <2> QED
    BY <1>1, <2>1, Running, BatchFacts
<1>4. ASSUME NEW p \in 1 .. N + 1, Clean(p) PROVE runs[r] > 0
  <2>1. p = s
    BY <1>1, <1>3, <1>4, CleanCurrent
  <2> QED
    BY <1>2, <1>4, <2>1 DEF Clean
<1>5. ASSUME NEW g \in Groups, Stuck(g)
      PROVE  runs[r] > 0 \/ (Batches!GroupOf(r) = Batches!GroupOf(s) /\ retries > 1)
  <2>1. PICK left, k : StandsAt(left, k, g)
    BY <1>1, <1>3, <1>5, StuckCurrent
  <2>2. s = left[k] /\ Batches!GroupOf(s) = g /\ cursor[2] = k /\ left = batch.trxArray[g]
    BY <1>1, <2>1 DEF StandsAt, Remains
  <2>3. Batches!GroupOf(r) <= g /\ Batches!GroupOf(r) \in Nat /\ g \in Nat
    BY <1>2, <1>3, <2>2, GroupOrder DEF Groups
  <2>4. Batches!GroupOf(r) < g => runs[r] > 0
    BY <1>2, <1>5 DEF Stuck
  <2>5. retries = 1 => runs[r] > 0
    <3>1. retries = 1 => \A x \in Steps : x < left[cursor[2]] => runs[x] > 0
      BY <1>1, <1>5, <2>2 DEF Stuck
    <3> QED
      BY <1>2, <2>2, <3>1
  <2>6. retries > 0
    BY <1>5 DEF Stuck
  <2> QED
    BY <1>3, <2>2, <2>3, <2>4, <2>5, <2>6
<1> QED
  BY <1>3, <1>4, <1>5

LEMMA StepFed ==
    ASSUME BatchesInv, Batches!Next
    PROVE  Batches!FedFirst
<1> SUFFICES ASSUME NEW s \in shape.ends, s < N, runs'[s + 1] > runs[s + 1]
             PROVE  fed[s + 1] = s
  BY DEF Batches!FedFirst
<1>0. Batches!TypeOK /\ BatchInv /\ shape \in Shapes
  <2>1. Batches!TypeOK /\ BatchInv
    BY DEF BatchesInv
  <2> QED
    BY <2>1, BatchFacts
<1>1. s \in Steps /\ s + 1 \in Steps /\ s \in Nat
  <2>1. s \in Steps
    BY <1>0, ShapeTypes
  <2> QED
    BY <2>1, BatchBounds DEF Steps
<1>2. cursor # None /\ s + 1 = Batches!Current
  BY <1>1, RunsGrow
<1>3. (\E p \in 1 .. N + 1 : Clean(p)) \/ (\E g \in Groups : Stuck(g))
  BY <1>2, Running
<1>4. ASSUME NEW p \in 1 .. N + 1, Clean(p) PROVE fed[s + 1] = s
  <2>1. p = s + 1
    BY <1>0, <1>2, <1>4, CleanCurrent
  <2>2. s < p
    BY <1>1, <2>1
  <2> QED
    BY <1>1, <1>4, <2>2 DEF Clean
<1>5. ASSUME NEW g \in Groups, Stuck(g) PROVE FALSE
  <2>1. PICK left, k : StandsAt(left, k, g)
    BY <1>0, <1>2, <1>5, StuckCurrent
  <2>2. k \in Nat \ {0} /\ k < Place(s + 1)
    BY <1>2, <2>1 DEF StandsAt, Remains
  <2>3. Place(s + 1) = 1
    BY <1>0, <1>1, Successor
  <2> QED
    BY <2>2, <2>3
<1> QED
  BY <1>3, <1>4, <1>5

\* A batch follows its invariant as long as it is looked at.
LEMMA BatchesHold == Spec => [](open = "batches" => BatchesInv)
<1> DEFINE Inv == open = "batches" => BatchesInv
<1>1. Init => Inv
  BY BatchInit DEF Init
<1>2. Inv /\ [Next]_state => Inv'
  <2> SUFFICES ASSUME Inv, [Next]_state, open' = "batches" PROVE BatchesInv'
    OBVIOUS
  <2>1. open = "batches" /\ BatchesInv
    BY StaysOpen
  <2>2. Batches!Next \/ UNCHANGED <<c1, c2, c3, c4, c5, c6, c7, c8, c9>>
    BY <2>1 DEF Next, state
  <2>3. CASE Batches!Next
    BY <2>1, <2>3, BatchNext
  <2>4. CASE UNCHANGED <<c1, c2, c3, c4, c5, c6, c7, c8, c9>>
    <3>1. Batches!TypeOK'
      BY <2>1, <2>4 DEF BatchesInv, Batches!TypeOK
    <3>2. \A p : Clean(p)' <=> Clean(p)
      BY <2>4, LayoutStays DEF Clean, Done
    <3>3. \A g : Stuck(g)' <=> Stuck(g)
      BY <2>4, LayoutStays DEF Stuck, Done
    <3>4. BatchInv'
      BY <2>1, <2>4, <3>2, <3>3, LayoutStays DEF BatchesInv, BatchInv
    <3> QED
      BY <3>1, <3>4 DEF BatchesInv
  <2> QED
    BY <2>2, <2>3, <2>4
<1> QED
  BY <1>1, <1>2, PTL DEF Spec

\* SequencesTrue, for any steps in any groups, any number of retries and failures and any
\* number of handlers.  A batch that is 'done' has run every step, and retrying runs none
\* twice (batchTransact.js:77); main's ICP is what suspended handlers will send on and what
\* failed ones left, and what is taken is enough to be sent (main.rs:117-146, 340-360).
THEOREM SequencesAlwaysTrue == Spec => []SequencesTrue
<1>1. (open = "batches" => BatchesInv) /\ (open = "icp" => IcpInv) => SequencesTrue
  BY BatchesInvMeans, IcpInvMeans DEF SequencesTrue
<1> QED
  BY <1>1, BatchesHold, IcpHolds, PTL

=============================================================================
