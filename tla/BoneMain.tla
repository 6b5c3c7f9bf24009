------------------------------ MODULE BoneMain -----------------------------
(***************************************************************************)
(* The registry of the main canister, src/bone_main/src/main.rs: the       *)
(* stable maps of miners, dogs and alliances, and the segments of the      *)
(* handlers that read and write them.  Nothing here awaits; module Mining  *)
(* strings the segments together with the calls between them.              *)
(***************************************************************************)
EXTENDS BoneTypes

VARIABLES
    minersMap,      \* MINERS_MAP: the dogs of each miner (no entry = {})
    dogsMap,        \* DOGS_MAP: what the main canister believes of each dog
    pools,          \* MINING_POOLS_MAP: alliances by id
    minersPools,    \* MINERS_POOLS_MAP: the alliances each miner created
    poolCounter     \* POOL_COUNTER

mainVars == <<minersMap, dogsMap, pools, minersPools, poolCounter>>

DogEntry ==
    [state: MiningState, type: MiningType, alliance: PoolIds \cup {None},
     level: DogLevel, owner: Miners]

PoolInfo == [owner: Miners, dogs: SUBSET Dogs]

PartialMap(f, K, V) == DOMAIN f \subseteq K /\ \A k \in DOMAIN f : f[k] \in V

MainTypeOK ==
    /\ minersMap \in [Miners -> SUBSET Dogs]
    /\ PartialMap(dogsMap, Dogs, DogEntry)
    /\ PartialMap(pools, PoolIds, PoolInfo)
    /\ minersPools \in [Miners -> SUBSET PoolIds]
    /\ poolCounter \in 0 .. MaxPools

MainInit ==
    /\ minersMap = [m \in Miners |-> {}]
    /\ dogsMap = EmptyMap
    /\ pools = EmptyMap
    /\ minersPools = [m \in Miners |-> {}]
    /\ poolCounter = 0

\* A wrong variant, to be refuted: the miner's entry is overwritten.
RegisterDogOverwrites(d, m) ==
    /\ minersMap' = [minersMap EXCEPT ![m] = {d}]
    /\ dogsMap' = Insert(dogsMap, d,
            [state |-> "ACTIVITY", type |-> "ALONE", alliance |-> None,
             level |-> CopperDog, owner |-> m])
    /\ UNCHANGED <<pools, minersPools, poolCounter>>

\* create_dog, after install_code: registration of dog d for miner m.
RegisterDog(d, m) ==
    /\ minersMap' = [minersMap EXCEPT ![m] = @ \cup {d}]
    /\ dogsMap' = Insert(dogsMap, d,
            [state |-> "ACTIVITY", type |-> "ALONE", alliance |-> None,
             level |-> CopperDog, owner |-> m])
    /\ UNCHANGED <<pools, minersPools, poolCounter>>

\* create_alliance, after the fee was taken.
AddAlliance(m) ==
    LET id == poolCounter + 1 IN
    /\ poolCounter' = id
    /\ pools' = Insert(pools, id, [owner |-> m, dogs |-> {}])
    /\ minersPools' = [minersPools EXCEPT ![m] = @ \cup {id}]
    /\ UNCHANGED <<minersMap, dogsMap>>

\* The two maps a dog's membership is kept in.
SetMembers(p, members) == pools' = [pools EXCEPT ![p].dogs = members]
SetAlliance(d, type, alliance) ==
    dogsMap' = IF d \in DOMAIN dogsMap
               THEN [dogsMap EXCEPT ![d].type = type, ![d].alliance = alliance]
               ELSE dogsMap

\* join_alliance, after the dog accepted: an unknown pool changes nothing.
JoinPool(d, p) ==
    /\ IF p \in DOMAIN pools
       THEN /\ SetMembers(p, pools[p].dogs \cup {d})
            /\ SetAlliance(d, "POOL", p)
       ELSE UNCHANGED <<pools, dogsMap>>
    /\ UNCHANGED <<minersMap, minersPools, poolCounter>>

\* A wrong variant, to be refuted: the alliance keeps the dog that left.
LeavePoolKeepsMember(d, p) ==
    /\ IF p \in DOMAIN pools THEN SetAlliance(d, "ALONE", None) ELSE UNCHANGED dogsMap
    /\ UNCHANGED <<minersMap, pools, minersPools, poolCounter>>

\* leave_alliance, after the dog accepted.
LeavePool(d, p) ==
    /\ IF p \in DOMAIN pools
       THEN /\ SetMembers(p, pools[p].dogs \ {d})
            /\ SetAlliance(d, "ALONE", None)
       ELSE UNCHANGED <<pools, dogsMap>>
    /\ UNCHANGED <<minersMap, minersPools, poolCounter>>

\* Wrong variants, to be refuted: only one of the two maps is updated.
MarkStoppedInPoolOnly(d) ==
    /\ IF d \in DOMAIN dogsMap
       THEN /\ dogsMap' = [dogsMap EXCEPT ![d].state = "STOP"]
            /\ pools' = [p \in DOMAIN pools |->
                            IF p = dogsMap[d].alliance
                            THEN [pools[p] EXCEPT !.dogs = @ \ {d}]
                            ELSE pools[p]]
       ELSE UNCHANGED <<dogsMap, pools>>
    /\ UNCHANGED <<minersMap, minersPools, poolCounter>>

MarkStoppedInEntryOnly(d) ==
    /\ dogsMap' = IF d \in DOMAIN dogsMap
                  THEN [dogsMap EXCEPT ![d].state = "STOP",
                            ![d].type = "ALONE", ![d].alliance = None]
                  ELSE dogsMap
    /\ UNCHANGED <<minersMap, pools, minersPools, poolCounter>>

\* What update_dog_state(STOP) and the reconciliation of calc both do: the
\* dog is taken out of the alliance its entry names.
MarkStopped(d) ==
    /\ IF d \in DOMAIN dogsMap
       THEN /\ dogsMap' = [dogsMap EXCEPT ![d].state = "STOP",
                                ![d].type = "ALONE", ![d].alliance = None]
            /\ pools' = [p \in DOMAIN pools |->
                            IF p = dogsMap[d].alliance
                            THEN [pools[p] EXCEPT !.dogs = @ \ {d}]
                            ELSE pools[p]]
       ELSE UNCHANGED <<dogsMap, pools>>
    /\ UNCHANGED <<minersMap, minersPools, poolCounter>>

\* update_dog_state(ACTIVITY).
MarkActive(d) ==
    /\ dogsMap' = IF d \in DOMAIN dogsMap
                  THEN [dogsMap EXCEPT ![d].state = "ACTIVITY"]
                  ELSE dogsMap
    /\ UNCHANGED <<minersMap, pools, minersPools, poolCounter>>

\* update_dog_state, called by dog d.
UpdateDogState(d, state) ==
    IF state = "STOP" THEN MarkStopped(d) ELSE MarkActive(d)

\* A wrong variant, to be refuted: the level of the entry is counted up
\* instead of set.
SetLevelCountsUp(d, level) ==
    /\ dogsMap' = [dogsMap EXCEPT ![d].level = @ + 1]
    /\ UNCHANGED <<minersMap, pools, minersPools, poolCounter>>

\* The last segment of dog_level_upgrade.
SetLevel(d, level) ==
    /\ dogsMap' = [dogsMap EXCEPT ![d].level = level]
    /\ UNCHANGED <<minersMap, pools, minersPools, poolCounter>>

\* activity_dogs of top10_owners_and_alliances.
ActiveDogs == {d \in DOMAIN dogsMap : dogsMap[d].state = "ACTIVITY"}
=============================================================================
