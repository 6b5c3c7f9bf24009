----------------------------- MODULE BoneTypes -----------------------------
(***************************************************************************)
(* The vocabulary shared by the canisters of the bone-fun backend          *)
(* (src/bone_lib/src/types): dogs, miners, alliances, and the enumerations *)
(* of bone_dog_types.rs.                                                   *)
(***************************************************************************)
EXTENDS Naturals, StableMap

CONSTANTS
    Dogs,       \* principals that create_canister may hand out to dog canisters
    Miners,     \* principals of the users
    MaxPools    \* bound: alliance ids a run creates and users name

ASSUME MaxPoolsAssumption == MaxPools \in Nat

\* Ids start at 1 (count_alliance increments before it returns), so 0 can
\* stand for the None of mining_alliance.
None == 0
PoolIds == 1 .. MaxPools

MiningState == {"ACTIVITY", "STOP"}
MiningType == {"ALONE", "POOL"}

\* DogLevel in the order of the upgrade path.
CopperDog == 1
SilverDog == 2
GoldDog == 3
DiamondDog == 4
DogLevel == CopperDog .. DiamondDog
=============================================================================
