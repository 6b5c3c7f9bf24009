------------------------------ MODULE MCMining -----------------------------
(***************************************************************************)
(* Instances of Mining for TLC.                                            *)
(***************************************************************************)
EXTENDS Mining, TLC

NoBudget == [op \in UserOps |-> 0]

\* Membership: one dog, two alliances, overlapping joins and leaves.
MembershipBudget ==
    [NoBudget EXCEPT !["create_dog"] = 1, !["create_alliance"] = 2,
                     !["join_alliance"] = 2, !["leave_alliance"] = 1]

\* Reports: one dog that joins an alliance, leaves it and is upgraded while it
\* stops, starts and is reconciled by calc.
ReportBudget ==
    [NoBudget EXCEPT !["create_dog"] = 1, !["create_alliance"] = 1,
                     !["join_alliance"] = 1, !["leave_alliance"] = 1,
                     !["dog_level_upgrade"] = 1]

\* Upgrades: more upgrade calls of one dog than it has levels.
UpgradeBudget ==
    [NoBudget EXCEPT !["create_dog"] = 1, !["dog_level_upgrade"] = 4]

\* Registry: two dogs of two miners.
RegistryBudget ==
    [NoBudget EXCEPT !["create_dog"] = 2, !["create_alliance"] = 1,
                     !["join_alliance"] = 2]

\* One dog and no other call of its owner.
OneDogBudget == [NoBudget EXCEPT !["create_dog"] = 1]

\* What the owners of dogs do among each other: the membership of a dog, its
\* upgrades, and two dogs of two miners.
CallBudgets == {MembershipBudget, UpgradeBudget, RegistryBudget}
\* What the owner of a dog does while it ticks and is reconciled.
ModeBudgets == {ReportBudget}
UpgradeOnly == {UpgradeBudget}
OneDog == {OneDogBudget}

Symmetric == Permutations(Slots) \cup Permutations(Dogs) \cup Permutations(Miners)
=============================================================================
