---------------------------- MODULE AllianceList ----------------------------
(***************************************************************************)
(* "Alliance List" and "Select Dog Miner" of the page Dog Alliance         *)
(* (DogAlliance.tsx).  The list is built row by row: the page asks for the *)
(* ids, then for every alliance on its own, and appends each answer to     *)
(* whatever is shown by then.  The modal offers the dogs of the last       *)
(* dog_info; the row chosen there stays in curselectIteminfo.              *)
(* Alliances that other users make meanwhile are not followed.             *)
(***************************************************************************)
EXTENDS Naturals, FiniteSets, SequencesExt

CONSTANTS
    Ids,            \* ids of alliances that may exist
    Dogs,           \* the user's dogs
    Refreshes,      \* bound: req_get_mining_alliances in flight at once
    MaxRefreshes,   \* bound: how often the page refreshes
    MaxFailures,    \* bound: queries that fail
    None

AllianceListAssumption ==
    /\ IsFiniteSet(Ids) /\ IsFiniteSet(Dogs) /\ IsFiniteSet(Refreshes)
    /\ None \notin Ids \cup Dogs
    /\ MaxRefreshes \in Nat /\ MaxFailures \in Nat

VARIABLES
    alliances,      \* bone_main: the alliances that exist
    member,         \* bone_main: the alliance of each dog, or None
    islodinginfo,
    all_alliances,  \* the rows shown
    refresh,        \* the calls of req_get_mining_alliances in flight
    dog_infos,      \* the dogs of the last dog_info, each ALONE, in a POOL or on STOP
    dogsAsked,      \* dog_info is on its way
    opentjoin, curjoininfo, curselectIteminfo,
    active,         \* the chosen row is still the object that was clicked
    joining,        \* the join in flight: dog, alliance, and how far it is
    creating,       \* the same of create_alliance
    overlap,        \* history: a refresh began while another was not over
    refreshes, failures

main == <<alliances, member>>
rows == <<islodinginfo, all_alliances, refresh>>
dogs == <<dog_infos, dogsAsked>>
join == <<opentjoin, curjoininfo, curselectIteminfo, active>>
calls == <<joining, creating>>
vars == <<main, rows, dogs, join, calls, overlap, refreshes, failures>>

NoRefresh == [pc |-> "idle", left |-> {}]
NoJoin == [dog |-> None, id |-> None, pc |-> "idle"]
Busy == {f \in Refreshes : refresh[f].pc # "idle"}

(***************************************************************************)
(* What the page shows.                                                    *)
(***************************************************************************)
Table ==
    IF islodinginfo THEN "skeleton"
    ELSE IF all_alliances = <<>> THEN "No Data" ELSE "rows"

\* What has a JOIN: the rows of the table, and those of the phone, which do not wait.
TableRows == IF Table = "rows" THEN ToSet(all_alliances) ELSE {}
PhoneRows == ToSet(all_alliances)

\* A wrong variant, to be refuted: every dog is offered.
OfferedAll == DOMAIN dog_infos

\* The rows of "Select Dog Miner": a dog that stopped or is in an alliance is hidden.
Offered == {d \in DOMAIN dog_infos : dog_infos[d] = "ALONE"}

\* The chosen row is highlighted only while it is the same object as in dog_infos.
Highlighted == {d \in Offered : active /\ d = curselectIteminfo}

Init ==
    /\ alliances \in SUBSET Ids
    /\ member \in [Dogs -> alliances \cup {None}]
    /\ islodinginfo = TRUE /\ all_alliances = <<>>
    /\ refresh = [f \in Refreshes |-> NoRefresh]
    /\ dog_infos = [d \in {} |-> None] /\ dogsAsked = FALSE
    /\ opentjoin = FALSE /\ curjoininfo = None
    /\ curselectIteminfo = None /\ active = FALSE
    /\ joining = NoJoin /\ creating = "idle"
    /\ overlap = FALSE /\ refreshes = 0 /\ failures = 0

(***************************************************************************)
(* req_get_mining_alliances.                                               *)
(***************************************************************************)
\* The bound on refreshes leaves one for each call in flight, and one for the timer.
Spare ==
    refreshes + (IF refreshes = 0 THEN 1 ELSE 0) + (IF joining = NoJoin THEN 0 ELSE 1)
        + (IF creating = "idle" THEN 0 ELSE 1) < MaxRefreshes

\* The list is emptied at once, and refreshes of before go on.
req_get_mining_alliances ==
    /\ refreshes < MaxRefreshes /\ refreshes' = refreshes + 1
    /\ islodinginfo' = TRUE /\ all_alliances' = <<>>
    /\ \E f \in Refreshes \ Busy : refresh' = [refresh EXCEPT ![f].pc = "asked"]
    /\ overlap' = (overlap \/ Busy # {})

\* A second after the mount, the first refresh of both lists.
TimerFires ==
    /\ refreshes = 0
    /\ req_get_mining_alliances
    /\ dogsAsked' = TRUE
    /\ UNCHANGED <<main, dog_infos, join, calls, failures>>

\* get_mining_alliances answers: one query for every id.
Answer(f) ==
    /\ refresh[f].pc = "asked"
    /\ refresh' = [refresh EXCEPT ![f] =
            IF alliances = {} THEN NoRefresh ELSE [pc |-> "rows", left |-> alliances]]
    /\ UNCHANGED <<main, islodinginfo, all_alliances, dogs, join, calls, overlap,
                   refreshes, failures>>

\* The query for alliance i of refresh f is over.
Without(f, i) ==
    LET rest == refresh[f].left \ {i}
    IN  [refresh EXCEPT ![f] = IF rest = {} THEN NoRefresh ELSE [pc |-> "rows", left |-> rest]]

\* A wrong variant, to be refuted: an answer empties its refresh.
AppendAny(f) ==
    /\ refresh[f].pc = "rows"
    /\ \E i \in refresh[f].left :
         /\ all_alliances' = Append(all_alliances, i)
         /\ refresh' = [refresh EXCEPT ![f] = NoRefresh]
    /\ islodinginfo' = FALSE
    /\ UNCHANGED <<main, dogs, join, calls, overlap, refreshes, failures>>

\* A wrong variant, to be refuted: the answer of a query is taken twice.
AppendAgain(f) ==
    /\ refresh[f].pc = "rows"
    /\ \E i \in refresh[f].left :
         /\ all_alliances' = all_alliances \o <<i, i>>
         /\ refresh' = Without(f, i)
    /\ islodinginfo' = FALSE
    /\ UNCHANGED <<main, dogs, join, calls, overlap, refreshes, failures>>

\* get_mining_alliance answers: the row is appended and the skeleton goes.
AppendRow(f) ==
    /\ refresh[f].pc = "rows"
    /\ \E i \in refresh[f].left :
         all_alliances' = Append(all_alliances, i) /\ refresh' = Without(f, i)
    /\ islodinginfo' = FALSE
    /\ UNCHANGED <<main, dogs, join, calls, overlap, refreshes, failures>>

\* A query is rejected: a row less, or no list at all.
Rejected(f) ==
    /\ refresh[f].pc # "idle"
    /\ failures < MaxFailures /\ failures' = failures + 1
    /\ \/ refresh[f].pc = "asked" /\ refresh' = [refresh EXCEPT ![f] = NoRefresh]
       \/ \E i \in refresh[f].left : refresh' = Without(f, i)
    /\ UNCHANGED <<main, islodinginfo, all_alliances, dogs, join, calls, overlap, refreshes>>

(***************************************************************************)
(* The dogs and the modal.                                                 *)
(***************************************************************************)
\* Every answer is a list of new objects: a row chosen before is not the same any more.
DogInfo ==
    /\ dogsAsked /\ dogsAsked' = FALSE
    /\ \E stopped \in SUBSET Dogs :
         dog_infos' = [d \in Dogs |-> IF d \in stopped THEN "STOP"
                                      ELSE IF member[d] = None THEN "ALONE" ELSE "POOL"]
    /\ active' = FALSE
    /\ UNCHANGED <<main, rows, opentjoin, curjoininfo, curselectIteminfo, calls, overlap,
                   refreshes, failures>>

BtnJoinModal ==
    /\ ~opentjoin /\ opentjoin' = TRUE
    /\ \E i \in TableRows \cup PhoneRows : curjoininfo' = i
    /\ UNCHANGED <<main, rows, dogs, curselectIteminfo, active, calls, overlap, refreshes,
                   failures>>

\* Closing by hand forgets the choice.
HandleOpenJoin ==
    /\ opentjoin /\ opentjoin' = FALSE
    /\ curselectIteminfo' = None /\ active' = FALSE
    /\ UNCHANGED <<main, rows, dogs, curjoininfo, calls, overlap, refreshes, failures>>

\* A click on the row of the same dog takes the choice back.
BtnSelectItem ==
    /\ opentjoin
    /\ \E d \in Offered :
         IF curselectIteminfo = d
         THEN curselectIteminfo' = None /\ active' = FALSE
         ELSE curselectIteminfo' = d /\ active' = TRUE
    /\ UNCHANGED <<main, rows, dogs, opentjoin, curjoininfo, calls, overlap, refreshes, failures>>

\* The modal lists the dogs offered, and its button joins once at a time.
JoinModal == opentjoin /\ joining = NoJoin

\* "Please Select a Dog." unless there is a choice.
BtnJoin ==
    /\ JoinModal /\ Spare
    /\ curjoininfo # None /\ curselectIteminfo # None
    /\ joining' = [dog |-> curselectIteminfo, id |-> curjoininfo, pc |-> "called"]
    /\ UNCHANGED <<main, rows, dogs, join, creating, overlap, refreshes, failures>>

\* join_alliance takes a dog that is in no alliance.
MainJoins ==
    /\ joining.pc = "called" /\ member[joining.dog] = None
    /\ member' = [member EXCEPT ![joining.dog] = joining.id]
    /\ joining' = [joining EXCEPT !.pc = "done"]
    /\ UNCHANGED <<alliances, rows, dogs, join, creating, overlap, refreshes, failures>>

\* It succeeded: the modal closes, the choice stays, both lists are asked for.
JoinDone ==
    /\ joining.pc = "done" /\ joining' = NoJoin
    /\ opentjoin' = FALSE
    /\ req_get_mining_alliances /\ dogsAsked' = TRUE
    /\ UNCHANGED <<main, dog_infos, curjoininfo, curselectIteminfo, active, creating, failures>>

\* It is refused, for a dog in an alliance or for the payment, or it is lost.
JoinFailed ==
    /\ joining # NoJoin /\ joining' = NoJoin
    /\ \/ joining.pc = "called" /\ member[joining.dog] # None /\ UNCHANGED failures
       \/ failures < MaxFailures /\ failures' = failures + 1
    /\ UNCHANGED <<main, rows, dogs, join, creating, overlap, refreshes>>

BtnCreate ==
    /\ ~opentjoin /\ creating = "idle" /\ Spare /\ creating' = "called"
    /\ UNCHANGED <<main, rows, dogs, join, joining, overlap, refreshes, failures>>

MainCreates ==
    /\ creating = "called" /\ creating' = "done"
    /\ \E i \in Ids \ alliances : alliances' = alliances \cup {i}
    /\ UNCHANGED <<member, rows, dogs, join, joining, overlap, refreshes, failures>>

CreateDone ==
    /\ creating = "done" /\ creating' = "idle"
    /\ req_get_mining_alliances
    /\ UNCHANGED <<main, dogs, join, joining, failures>>

CreateFailed ==
    /\ creating # "idle" /\ creating' = "idle"
    /\ failures < MaxFailures /\ failures' = failures + 1
    /\ UNCHANGED <<main, rows, dogs, join, joining, overlap, refreshes>>

Queries(f) == Answer(f) \/ AppendRow(f) \/ Rejected(f)
Next ==
    \/ TimerFires \/ DogInfo
    \/ BtnJoinModal \/ HandleOpenJoin \/ BtnSelectItem \/ BtnJoin \/ BtnCreate
    \/ MainJoins \/ JoinDone \/ JoinFailed \/ MainCreates \/ CreateDone \/ CreateFailed
    \/ \E f \in Refreshes : Queries(f)

\* The timer fires, queries are answered or rejected, and so are the calls.
Progress == TimerFires \/ DogInfo \/ CreateDone \/ JoinDone \/ \E f \in Refreshes : Queries(f)
Spec == Init /\ [][Next]_vars /\ WF_vars(Progress)

(***************************************************************************)
(* Properties.                                                             *)
(***************************************************************************)
\* The type invariant: the state of DogAlliance.tsx:54-57, 156, 191-193, 246-260.
TypeOK ==
    /\ alliances \subseteq Ids /\ member \in [Dogs -> Ids \cup {None}]
    /\ islodinginfo \in BOOLEAN
    /\ all_alliances \in Seq(Ids)
    /\ refresh \in [Refreshes -> [pc : {"idle", "asked", "rows"}, left : SUBSET Ids]]
    /\ dog_infos \in UNION {[S -> {"ALONE", "POOL", "STOP"}] : S \in SUBSET Dogs}
    /\ dogsAsked \in BOOLEAN /\ opentjoin \in BOOLEAN /\ active \in BOOLEAN
    /\ curjoininfo \in Ids \cup {None} /\ curselectIteminfo \in Dogs \cup {None}
    /\ joining \in [dog : Dogs \cup {None}, id : Ids \cup {None},
                    pc : {"idle", "called", "done"}]
    /\ creating \in {"idle", "called", "done"} /\ overlap \in BOOLEAN

\* No alliance has two rows, unless two refreshes overlapped: the first one goes on
\* appending to the list the second has emptied (DogAlliance.tsx:158-165).
NoRowTwice == ~overlap => IsInjective(all_alliances)

\* Once every query is answered there is a row for every alliance of bone_main,
\* whatever the order of the answers and however refreshes overlapped.
AllShown ==
    (Busy = {} /\ creating # "done" /\ refreshes > 0 /\ failures = 0) => alliances \subseteq ToSet(all_alliances)

\* bone_main is never asked to move a dog that the list showed in an alliance when
\* it was chosen: the highlighted row is that of a dog that is free, unless the
\* answer that tells otherwise is under way or lost (DogAlliance.tsx:514-516).
HighlightedIsFree ==
    \A d \in Highlighted : member[d] = None \/ dogsAsked \/ joining # NoJoin \/ failures > 0

\* What comes again and again: the skeleton has gone, where there is an alliance and
\* no query failed.
Settled == islodinginfo /\ alliances # {} => failures > 0
=============================================================================
