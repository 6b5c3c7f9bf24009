----------------------------- MODULE MinerList -----------------------------
(***************************************************************************)
(* "My Miner List" of the page Dog Miner (DogMiner.tsx): the dogs of the   *)
(* connected user, asked of bone_main with one query, and the cycles of    *)
(* each, asked of the dogs themselves.  The page asks again on every       *)
(* change of the user, a second after it is mounted, and after every       *)
(* operation that changed a dog; nothing orders the answers.               *)
(***************************************************************************)
EXTENDS Naturals, FiniteSets, StableMap

CONSTANTS
    Users,          \* principals a wallet may connect
    Dogs,           \* dogs that may exist
    Owner,          \* Owner[d]: the user who creates dog d
    Requests,       \* bound: req_get_dogs in flight at once
    MaxAsks,        \* bound: how often the page asks
    MaxChanges,     \* bound: changes of bone_main's records in a run
    MaxFailures,    \* bound: queries that fail
    None            \* no user, no request

MinerListAssumption ==
    /\ IsFiniteSet(Users) /\ IsFiniteSet(Dogs) /\ IsFiniteSet(Requests) /\ Requests # {}
    /\ Owner \in [Dogs -> Users]
    /\ MaxAsks \in Nat /\ MaxChanges \in Nat /\ MaxFailures \in Nat
    /\ None \notin Users \cup Requests /\ \A S \in SUBSET Dogs : None # S

Levels == {"CopperDog", "DiamondDog"}     \* of the four, what the rows tell apart
States == {"ACTIVITY", "STOP"}
Types == {"ALONE", "POOL"}
Info == [dog_level : Levels, mining_state : States, mining_type : Types]

VARIABLES
    userId,         \* appStore.userId
    registry,       \* bone_main's records: the dogs that exist
    islodinginfo, dog_infos,
    dogcycles,      \* the dogs whose cycles are known, or None before the first answer
    timer,          \* the setTimeout of the mount has not fired yet
    req,            \* the calls of req_get_dogs in flight
    lastAsked, lastShown, lastCycled,   \* history: the request sent last, the one that
                                        \* set dog_infos last, and dogcycles last
    asks, changes, failures

page == <<userId, timer>>
shown == <<islodinginfo, dog_infos, dogcycles>>
history == <<lastAsked, lastShown, lastCycled>>
bounds == <<asks, changes, failures>>
vars == <<page, registry, shown, req, history, bounds>>

NoRequest == [pc |-> "idle", user |-> None, res |-> EmptyMap, missing |-> {}]
DogsOf(u) == [d \in {x \in DOMAIN registry : Owner[x] = u} |-> registry[d]]

(***************************************************************************)
(* What the page shows.                                                    *)
(***************************************************************************)
\* One row of the table.  A Diamond dog has no GO, a dog alone no Leave, and the
\* hint to top up is there for a dog that does not mine.
TableRow(d) ==
    LET item == dog_infos[d]
    IN  [id |-> d, level |-> item.dog_level,
         cycles |-> dogcycles # None /\ d \in dogcycles,
         state |-> IF item.mining_state = "ACTIVITY" THEN "ALIVE" ELSE item.mining_state,
         hint |-> item.mining_state # "ACTIVITY",
         leave |-> item.mining_type # "ALONE",
         go |-> item.dog_level # "DiamondDog"]

\* The same on a phone, where GO is always there.
PhoneRow(d) == [TableRow(d) EXCEPT !.go = TRUE]

\* The table, "No Data" or the skeleton; the phone's rows do not wait.
Table ==
    IF islodinginfo THEN "skeleton"
    ELSE IF DOMAIN dog_infos = {} THEN "No Data" ELSE "rows"

(***************************************************************************)
(* req_get_dogs.                                                           *)
(***************************************************************************)
\* Without a user the page stops loading and keeps the list it has.
req_get_dogs ==
    IF userId = None
    THEN islodinginfo' = FALSE /\ UNCHANGED <<req, asks, lastAsked>>
    ELSE /\ islodinginfo' = TRUE
         /\ asks < MaxAsks /\ asks' = asks + 1
         /\ \E r \in Requests :
              /\ req[r].pc = "idle"
              /\ req' = [req EXCEPT ![r] = [NoRequest EXCEPT !.pc = "asked", !.user = userId]]
              /\ lastAsked' = r

\* The bound on asks leaves one for the timer.
Spare == asks + (IF timer THEN 1 ELSE 0) < MaxAsks

InitWith(u, known) ==
    /\ userId = u /\ registry \in known
    /\ islodinginfo = TRUE /\ dog_infos = EmptyMap /\ dogcycles = None
    /\ timer = TRUE
    \* The effect on the user runs on the mount too.
    /\ LET first == CHOOSE r \in Requests : TRUE
       IN  req = [r \in Requests |->
                    IF u # None /\ r = first
                    THEN [NoRequest EXCEPT !.pc = "asked", !.user = u] ELSE NoRequest]
           /\ lastAsked = IF u # None THEN first ELSE None
    /\ lastShown = None /\ lastCycled = None
    /\ asks = (IF u # None THEN 1 ELSE 0) /\ changes = 0 /\ failures = 0

Init ==
    \E u \in Users \cup {None}, S \in SUBSET Dogs :
        InitWith(u, {[d \in S |-> [dog_level |-> "CopperDog", mining_state |-> "ACTIVITY",
                                   mining_type |-> "ALONE"]]})

TimerFires ==
    /\ timer /\ timer' = FALSE
    /\ req_get_dogs
    /\ UNCHANGED <<userId, registry, dog_infos, dogcycles, lastShown, lastCycled, changes,
                   failures>>

\* A wrong variant, to be refuted: the page does not watch the user.
ConnectUnseen(u) ==
    /\ u # userId /\ userId' = u
    /\ UNCHANGED <<timer, registry, shown, req, history, bounds>>

\* The wallet connects as u: the effect on appStore.userId asks anew.
Connect(u) ==
    /\ u # userId /\ userId' = u
    /\ islodinginfo' = TRUE
    /\ Spare /\ asks' = asks + 1
    /\ \E r \in Requests :
         /\ req[r].pc = "idle"
         /\ req' = [req EXCEPT ![r] = [NoRequest EXCEPT !.pc = "asked", !.user = u]]
         /\ lastAsked' = r
    /\ UNCHANGED <<timer, registry, dog_infos, dogcycles, lastShown, lastCycled, changes, failures>>

\* The effect does nothing for an empty user: the list stays.
Disconnect ==
    /\ userId # None /\ userId' = None
    /\ UNCHANGED <<timer, registry, shown, req, history, bounds>>

\* A wrong variant, to be refuted: the page does not ask after an operation.
OperationUnseen ==
    /\ changes < MaxChanges /\ changes' = changes + 1
    /\ userId # None /\ Spare
    /\ \E d \in {x \in DOMAIN registry : Owner[x] = userId} :
         registry' = [registry EXCEPT ![d].mining_type = IF @ = "ALONE" THEN "POOL" ELSE "ALONE"]
    /\ UNCHANGED <<page, shown, req, history, asks, failures>>

\* An operation of the user succeeds (create_dog, dog_level_upgrade,
\* join_alliance, leave_alliance), and the page asks again.
Operation ==
    /\ changes < MaxChanges /\ changes' = changes + 1
    /\ userId # None /\ Spare
    /\ \E d \in {x \in Dogs : Owner[x] = userId} :
         \/ /\ d \notin DOMAIN registry
            /\ registry' = Insert(registry, d, [dog_level |-> "CopperDog",
                                mining_state |-> "ACTIVITY", mining_type |-> "ALONE"])
         \/ /\ d \in DOMAIN registry
            /\ \/ registry[d].mining_state = "ACTIVITY"
                  /\ registry' = [registry EXCEPT ![d].dog_level = "DiamondDog"]
               \/ registry' = [registry EXCEPT ![d].mining_type =
                                    IF @ = "ALONE" THEN "POOL" ELSE "ALONE"]
    /\ req_get_dogs
    /\ UNCHANGED <<page, dog_infos, dogcycles, lastShown, lastCycled, failures>>

\* bone_main stops or wakes a dog; no page is told.
Patrol ==
    /\ changes < MaxChanges /\ changes' = changes + 1
    /\ \E d \in DOMAIN registry :
         registry' = [registry EXCEPT ![d].mining_state =
                        IF @ = "ACTIVITY" THEN "STOP" ELSE "ACTIVITY"]
    /\ UNCHANGED <<page, shown, req, history, asks, failures>>

(***************************************************************************)
(* The answers.                                                            *)
(***************************************************************************)
Read(r) ==
    /\ req[r].pc = "asked"
    /\ req' = [req EXCEPT ![r].pc = "answered", ![r].res = DogsOf(req[r].user)]
    /\ UNCHANGED <<page, registry, shown, history, bounds>>

\* A wrong variant, to be refuted: the list comes, the skeleton stays.
ShowLoading(r) ==
    /\ req[r].pc = "answered"
    /\ dog_infos' = req[r].res
    /\ req' = [req EXCEPT ![r].pc = "cycles", ![r].missing = DOMAIN req[r].res]
    /\ lastShown' = r
    /\ UNCHANGED <<page, registry, islodinginfo, dogcycles, lastAsked, lastCycled, bounds>>

\* A wrong variant, to be refuted: the answer is taken for the figures.
ShowNames(r) ==
    /\ req[r].pc = "answered"
    /\ islodinginfo' = FALSE /\ dog_infos' = [d \in DOMAIN req[r].res |-> d]
    /\ req' = [req EXCEPT ![r].pc = "cycles", ![r].missing = DOMAIN req[r].res]
    /\ lastShown' = r
    /\ UNCHANGED <<page, registry, dogcycles, lastAsked, lastCycled, bounds>>

\* The list is shown whoever is connected by now, and the cycles are asked for.
Show(r) ==
    /\ req[r].pc = "answered"
    /\ islodinginfo' = FALSE /\ dog_infos' = req[r].res
    /\ req' = [req EXCEPT ![r].pc = "cycles", ![r].missing = DOMAIN req[r].res]
    /\ lastShown' = r
    /\ UNCHANGED <<page, registry, dogcycles, lastAsked, lastCycled, bounds>>

CyclesAnswer(r) ==
    /\ req[r].pc = "cycles"
    /\ \E d \in req[r].missing : req' = [req EXCEPT ![r].missing = @ \ {d}]
    /\ UNCHANGED <<page, registry, shown, history, bounds>>

\* A wrong variant, to be refuted: without waiting for every dog.
AllCyclesEarly(r) ==
    /\ req[r].pc = "cycles"
    /\ dogcycles' = DOMAIN req[r].res \ req[r].missing
    /\ req' = [req EXCEPT ![r] = NoRequest]
    /\ lastCycled' = r
    /\ UNCHANGED <<page, registry, islodinginfo, dog_infos, lastAsked, lastShown, bounds>>

\* Promise.all: once every dog of this answer has told its cycles.
AllCycles(r) ==
    /\ req[r].pc = "cycles" /\ req[r].missing = {}
    /\ dogcycles' = DOMAIN req[r].res
    /\ req' = [req EXCEPT ![r] = NoRequest]
    /\ lastCycled' = r
    /\ UNCHANGED <<page, registry, islodinginfo, dog_infos, lastAsked, lastShown, bounds>>

\* A query is rejected: nobody catches it.  A list that was never answered
\* leaves the skeleton, one dog that does not answer leaves all cycles as they were.
Rejected(r) ==
    /\ failures < MaxFailures /\ failures' = failures + 1
    /\ \/ req[r].pc \in {"asked", "answered"}
       \/ req[r].pc = "cycles" /\ req[r].missing # {}
    /\ req' = [req EXCEPT ![r] = NoRequest]
    /\ UNCHANGED <<page, registry, shown, history, asks, changes>>

Answer(r) == Read(r) \/ Show(r) \/ CyclesAnswer(r) \/ AllCycles(r) \/ Rejected(r)
Next ==
    \/ TimerFires \/ Disconnect \/ Operation \/ Patrol
    \/ \E u \in Users : Connect(u)
    \/ \E r \in Requests : Answer(r)

\* Queries are answered or rejected, and the timer fires.  Nothing is assumed of
\* users and canisters.
Progress == TimerFires \/ \E r \in Requests : Answer(r)
Spec == Init /\ [][Next]_vars /\ WF_vars(Progress)

(***************************************************************************)
(* Properties.                                                             *)
(***************************************************************************)
\* The type invariant: the state of DogMiner.tsx:114, 117, 196 and of req_get_dogs.
Listing == UNION {[S -> Info] : S \in SUBSET Dogs}
TypeOK ==
    /\ userId \in Users \cup {None} /\ timer \in BOOLEAN
    /\ registry \in Listing /\ dog_infos \in Listing
    /\ islodinginfo \in BOOLEAN
    /\ dogcycles = None \/ dogcycles \subseteq Dogs
    /\ req \in [Requests -> [pc : {"idle", "asked", "answered", "cycles"},
                             user : Users \cup {None}, res : Listing,
                             missing : SUBSET Dogs]]
    /\ {lastAsked, lastShown, lastCycled} \subseteq Requests \cup {None}

AtRest == \A r \in Requests : req[r].pc = "idle"

\* When every answer is in, the list is the connected user's, unless a query
\* failed or an older answer came last (the effect of DogMiner.tsx:486-491).
MineUnlessOvertaken ==
    (AtRest /\ userId # None /\ failures = 0 /\ lastShown = lastAsked)
        => \A d \in DOMAIN dog_infos : Owner[d] = userId

\* And it tells what the records of bone_main say of the level and the alliance of
\* each of them, Leave and GO with it; only the patrol's STOP may be news (the
\* refreshes of DogMiner.tsx:164, 373, 422).
RowsUpToDate ==
    (AtRest /\ userId # None /\ failures = 0 /\ lastShown = lastAsked)
        => \A d \in DOMAIN DogsOf(userId) :
             /\ d \in DOMAIN dog_infos
             /\ TableRow(d).level = registry[d].dog_level
             /\ TableRow(d).leave = (registry[d].mining_type = "POOL")
             /\ registry[d].dog_level # "DiamondDog" => TableRow(d).go /\ PhoneRow(d).go

\* Then every row has its cycles as well, unless the cycles of an older list came
\* last (Promise.all of DogMiner.tsx:188-194).
RowsHaveCycles ==
    (AtRest /\ failures = 0 /\ lastShown = lastCycled)
        => \A d \in DOMAIN dog_infos : TableRow(d).cycles /\ PhoneRow(d).cycles

\* What comes again and again: as long as no query fails the skeleton goes away
\* (DogMiner.tsx:178-184).
Settled == Table # "skeleton" \/ failures > 0
=============================================================================
