----------------------------- MODULE Standings ------------------------------
(***************************************************************************)
(* The ranking of users and alliances: the hourly run of calc in the main  *)
(* canister (main.rs:1056 and 1243), which reads the users' figures before *)
(* it asks every active dog for its state and those of the alliances       *)
(* after, and the two tables the page Dashboard (Dashboard.tsx) makes of   *)
(* the tuples it publishes, beside the log of blocks.                      *)
(***************************************************************************)
EXTENDS Naturals, Sequences, FiniteSets

CONSTANTS
    Dogs, Alliances,
    OwnerOf,        \* [Dogs -> users]
    Top,            \* the length of the lists: 10 in the code
    MaxLog,         \* bound: blocks mined
    MaxUpgrades,    \* bound: upgrades of dogs
    MaxMoves,       \* bound: dogs that join or leave an alliance or stop, and calls to one that fail
    MaxCalcs,       \* bound: runs of calc
    MaxMounts,      \* bound: times the page is opened
    None

StandingsAssumption ==
    /\ IsFiniteSet(Dogs) /\ IsFiniteSet(Alliances) /\ OwnerOf \in [Dogs -> {OwnerOf[d] : d \in Dogs}]
    /\ Top \in Nat \ {0} /\ None \notin Alliances
    /\ {MaxLog, MaxUpgrades, MaxMoves, MaxCalcs, MaxMounts} \subseteq Nat

VARIABLES
    level, ore_cnt, alliance,   \* DOGS_MAP: level, blocks and alliance of each dog
    state,                      \* DOGS_MAP: mining_state as the main canister knows it
    mode,                       \* the dogs: mining_state as the dog knows it
    log,                        \* ORE_RECORD
    calc,                       \* the run of calc
    owner_top, alliance_top,    \* CALC_CONTEXT
    topuser, topalliance,       \* the page's tables, or None before their answer
    query,                      \* the page's two queries: "idle", "asked" or the answer
    upgrades, moves, calcs, mounts

dogs == <<level, ore_cnt, alliance, state, mode, log>>
published == <<owner_top, alliance_top>>
page == <<topuser, topalliance, query, mounts>>
vars == <<dogs, calc, published, page, upgrades, moves, calcs>>

Users == {OwnerOf[d] : d \in Dogs}
Levels == <<"CopperDog", "SilverDog", "GoldDog", "DiamondDog">>
Elements(s) == {s[i] : i \in 1 .. Len(s)}

\* The figures of a set of dogs, as the lists' tuples hold them.
CountOf(S, l) == Cardinality({d \in S : level[d] = l})
BlocksOf[S \in SUBSET Dogs] ==
    IF S = {} THEN 0 ELSE LET d == CHOOSE d \in S : TRUE IN ore_cnt[d] + BlocksOf[S \ {d}]

\* History: the same figures by name, the blocks counted in the log.
Standing(S) ==
    [DiamondDog |-> CountOf(S, "DiamondDog"), GoldDog |-> CountOf(S, "GoldDog"),
     SilverDog |-> CountOf(S, "SilverDog"), CopperDog |-> CountOf(S, "CopperDog"),
     BlockMined |-> Cardinality({i \in 1 .. Len(log) : log[i].dog \in S})]

DogsOf(u) == {d \in Dogs : OwnerOf[d] = u}
MembersOf(a) == {d \in Dogs : alliance[d] = a}
UserRow(u) ==
    <<u, CountOf(DogsOf(u), "CopperDog"), CountOf(DogsOf(u), "SilverDog"),
      CountOf(DogsOf(u), "GoldDog"), CountOf(DogsOf(u), "DiamondDog"), BlocksOf[DogsOf(u)]>>

\* The first component is the name of the alliance, which is written with the id
\* into one string and taken apart again.
AllianceRow(a) ==
    <<a, a, CountOf(MembersOf(a), "CopperDog"), CountOf(MembersOf(a), "SilverDog"),
      CountOf(MembersOf(a), "GoldDog"), CountOf(MembersOf(a), "DiamondDog"),
      BlocksOf[MembersOf(a)]>>

\* A wrong variant, to be refuted: the smallest first.
SmallestFirst(rows, k) ==
    LET n == IF Cardinality(rows) < Top THEN Cardinality(rows) ELSE Top
    IN  {s \in [1 .. n -> rows] :
           /\ Cardinality(Elements(s)) = n
           /\ \A i \in 1 .. n - 1 : s[i][k] <= s[i + 1][k]
           /\ \A r \in rows \ Elements(s) : \A i \in 1 .. n : r[k] >= s[i][k]}

\* The possible lists: sorted by blocks, largest first, and cut; rows with equal
\* blocks come in any order, as they are taken from a hash map.
Ranked(rows, k) ==
    LET n == IF Cardinality(rows) < Top THEN Cardinality(rows) ELSE Top
    IN  {s \in [1 .. n -> rows] :
           /\ Cardinality(Elements(s)) = n
           /\ \A i \in 1 .. n - 1 : s[i][k] >= s[i + 1][k]
           /\ \A r \in rows \ Elements(s) : \A i \in 1 .. n : r[k] <= s[i][k]}

NoCalc == [pc |-> "idle", ask |-> {}, rows |-> {}, was |-> <<>>]
NoList == [rows |-> <<>>, was |-> <<>>]
Init ==
    /\ level = [d \in Dogs |-> "CopperDog"] /\ ore_cnt = [d \in Dogs |-> 0]
    /\ alliance = [d \in Dogs |-> None]
    /\ state = [d \in Dogs |-> "ACTIVITY"] /\ mode = [d \in Dogs |-> "ACTIVITY"]
    /\ log = <<>>
    /\ calc = NoCalc
    /\ owner_top = NoList /\ alliance_top = NoList
    /\ topuser = None /\ topalliance = None
    /\ query = [user |-> "asked", alliance |-> "asked"]
    /\ upgrades = 0 /\ moves = 0 /\ calcs = 0 /\ mounts = 1

(***************************************************************************)
(* Dogs.                                                                   *)
(***************************************************************************)
\* verify_ore accepts an ore: one record in the log, one block for the dog.
VerifyOre(d) ==
    /\ mode[d] = "ACTIVITY" /\ Len(log) < MaxLog
    /\ log' = Append(log, [dog |-> d, alliance |-> alliance[d]])
    /\ ore_cnt' = [ore_cnt EXCEPT ![d] = @ + 1]
    /\ UNCHANGED <<level, alliance, state, mode, calc, published, page, upgrades, moves, calcs>>

DogLevelUpgrade(d) ==
    /\ state[d] = "ACTIVITY" /\ upgrades < MaxUpgrades /\ upgrades' = upgrades + 1
    /\ \E i \in 1 .. Len(Levels) - 1 :
         level[d] = Levels[i] /\ level' = [level EXCEPT ![d] = Levels[i + 1]]
    /\ UNCHANGED <<ore_cnt, alliance, state, mode, log, calc, published, page, moves, calcs>>

Move == moves < MaxMoves /\ moves' = moves + 1

JoinAlliance(d) ==
    /\ Move /\ alliance[d] = None
    /\ \E a \in Alliances : alliance' = [alliance EXCEPT ![d] = a]
    /\ UNCHANGED <<level, ore_cnt, state, mode, log, calc, published, page, upgrades, calcs>>

QuitAlliance(d) ==
    /\ Move /\ alliance[d] # None /\ alliance' = [alliance EXCEPT ![d] = None]
    /\ UNCHANGED <<level, ore_cnt, state, mode, log, calc, published, page, upgrades, calcs>>

\* A dog stops for want of cycles; the main canister learns of it from calc.
DogStops(d) ==
    /\ Move /\ mode[d] = "ACTIVITY" /\ mode' = [mode EXCEPT ![d] = "STOP"]
    /\ UNCHANGED <<level, ore_cnt, alliance, state, log, calc, published, page, upgrades, calcs>>

(***************************************************************************)
(* calc.                                                                   *)
(***************************************************************************)
\* The hourly timer.  The figures of the users are read first.  On an empty log
\* the run panics (main.rs:1084) before it changes anything.
CalcStart ==
    /\ calc.pc = "idle" /\ log # <<>>
    /\ calcs < MaxCalcs /\ calcs' = calcs + 1
    /\ calc' = [pc |-> "asking", ask |-> {d \in Dogs : state[d] = "ACTIVITY"},
                rows |-> {UserRow(u) : u \in Users},
                was |-> [u \in Users |-> Standing(DogsOf(u))]]
    /\ UNCHANGED <<dogs, published, page, upgrades, moves>>

\* The next dog answers; one that has stopped leaves its alliance, and one whose
\* call failed is taken for stopped (idog.rs:18).
DogInfo ==
    /\ \E d \in calc.ask :
         /\ calc' = [calc EXCEPT !.ask = @ \ {d}]
         /\ \/ mode[d] = "ACTIVITY" /\ UNCHANGED <<state, alliance, moves>>
            \/ /\ IF mode[d] = "ACTIVITY" THEN Move ELSE UNCHANGED moves
               /\ state' = [state EXCEPT ![d] = "STOP"]
               /\ alliance' = [alliance EXCEPT ![d] = None]
    /\ UNCHANGED <<level, ore_cnt, mode, log, published, page, upgrades, calcs>>

\* The last dog has answered: the alliances are read and both lists published.
CalcEnd ==
    /\ calc.pc = "asking" /\ calc.ask = {}
    /\ \E s \in Ranked(calc.rows, 6) : owner_top' = [rows |-> s, was |-> calc.was]
    /\ \E s \in Ranked({AllianceRow(a) : a \in Alliances}, 7) :
         alliance_top' = [rows |-> s, was |-> [a \in Alliances |-> Standing(MembersOf(a))]]
    /\ calc' = NoCalc
    /\ UNCHANGED <<dogs, page, upgrades, moves, calcs>>

(***************************************************************************)
(* The page.                                                               *)
(***************************************************************************)
\* A wrong variant, to be refuted: gold and silver are taken for each other.
UserCellSwapped(item, key) ==
    CASE key = "DiamondDog" -> item[5]
      [] key = "GoldDog" -> item[3]
      [] key = "SilverDog" -> item[4]
      [] key = "CopperDog" -> item[2]
      [] key = "BlockMined" -> item[6]

\* The cells of both forms of the table Top User, which count from 0.
UserCell(item, key) ==
    CASE key = "DiamondDog" -> item[5]
      [] key = "GoldDog" -> item[4]
      [] key = "SilverDog" -> item[3]
      [] key = "CopperDog" -> item[2]
      [] key = "BlockMined" -> item[6]

\* A wrong variant, to be refuted: the cells of Top User.
AllianceCellOfUser(item, key) == UserCell(item, key)

\* The cells of both forms of the table Top Alliance.
AllianceCell(item, key) ==
    CASE key = "DiamondDog" -> item[6]
      [] key = "GoldDog" -> item[5]
      [] key = "SilverDog" -> item[4]
      [] key = "CopperDog" -> item[3]
      [] key = "BlockMined" -> item[7]

\* The column Alliance ID of the table Block Info.
BlockAlliances == [i \in 1 .. Len(log) |-> log[i].alliance]

Mount ==
    /\ mounts < MaxMounts /\ mounts' = mounts + 1
    /\ query = [user |-> "idle", alliance |-> "idle"]
    /\ query' = [user |-> "asked", alliance |-> "asked"]
    /\ topuser' = None /\ topalliance' = None
    /\ UNCHANGED <<dogs, calc, published, upgrades, moves, calcs>>

ReqTopUser ==
    /\ query.user = "asked" /\ query' = [query EXCEPT !.user = "idle"]
    /\ topuser' = owner_top
    /\ UNCHANGED <<dogs, calc, published, topalliance, mounts, upgrades, moves, calcs>>

ReqTopAlliance ==
    /\ query.alliance = "asked" /\ query' = [query EXCEPT !.alliance = "idle"]
    /\ topalliance' = alliance_top
    /\ UNCHANGED <<dogs, calc, published, topuser, mounts, upgrades, moves, calcs>>

Next ==
    \/ \E d \in Dogs : VerifyOre(d) \/ DogLevelUpgrade(d) \/ JoinAlliance(d) \/ QuitAlliance(d)
                       \/ DogStops(d)
    \/ CalcStart \/ DogInfo \/ CalcEnd
    \/ Mount \/ ReqTopUser \/ ReqTopAlliance

\* The timer fires and calls and queries are answered.
Progress == CalcStart \/ DogInfo \/ CalcEnd \/ ReqTopUser \/ ReqTopAlliance
Spec == Init /\ [][Next]_vars /\ WF_vars(Progress)

(***************************************************************************)
(* Properties.                                                             *)
(***************************************************************************)
Columns == {"DiamondDog", "GoldDog", "SilverDog", "CopperDog", "BlockMined"}

\* Type invariant.
TypeOK ==
    /\ level \in [Dogs -> Elements(Levels)] /\ ore_cnt \in [Dogs -> 0 .. MaxLog]
    /\ alliance \in [Dogs -> Alliances \cup {None}]
    /\ state \in [Dogs -> {"ACTIVITY", "STOP"}] /\ mode \in [Dogs -> {"ACTIVITY", "STOP"}]
    /\ log \in Seq([dog : Dogs, alliance : Alliances \cup {None}])
    /\ calc.pc \in {"idle", "asking"} /\ calc.ask \subseteq Dogs
    /\ Len(owner_top.rows) <= Top /\ Len(alliance_top.rows) <= Top
    /\ query \in [{"user", "alliance"} -> {"idle", "asked"}]

\* What stands in a column of Top User is what the user had of it when the run
\* read the users: the dogs of the level, and the blocks of its dogs in the log,
\* although blocks and upgrades go on while the dogs are asked (main.rs:1127).
UserCellsTrue ==
    topuser # None =>
        \A i \in 1 .. Len(topuser.rows) : \A key \in Columns :
            UserCell(topuser.rows[i], key) = topuser.was[topuser.rows[i][1]][key]

\* The same of Top Alliance: its members when the lists were published, and all
\* the blocks these have mined.
AllianceCellsTrue ==
    topalliance # None =>
        \A i \in 1 .. Len(topalliance.rows) : \A key \in Columns :
            AllianceCell(topalliance.rows[i], key) = topalliance.was[topalliance.rows[i][2]][key]

\* Nobody who is left out of a list has more blocks than somebody on it, and the
\* list is in the order of the blocks in the log.
BestOf(t) ==
    LET on == {t.rows[i][1] : i \in 1 .. Len(t.rows)}
        BlocksAt(i) == t.was[t.rows[i][1]].BlockMined
    IN  /\ \A i \in 1 .. Len(t.rows) : \A x \in DOMAIN t.was \ on :
             t.was[x].BlockMined <= BlocksAt(i)
        /\ \A i \in 1 .. Len(t.rows) - 1 : BlocksAt(i) >= BlocksAt(i + 1)
TopIsBest == BestOf(owner_top) /\ BestOf(alliance_top)

\* What comes again and again: once a block has been mined, the lists are published,
\* though dogs stop while they are asked.
Settled == log = <<>> \/ owner_top # NoList
=============================================================================
