------------------------------ MODULE OreChain ------------------------------
(***************************************************************************)
(* What main promises of mining, without rounds, ledger or statistics: a   *)
(* chain of blocks.  Every block consumes the ore in force, once, for one  *)
(* dog, and puts a new ore in force; whoever is credited is credited once, *)
(* for the ore in force.                                                   *)
(***************************************************************************)
EXTENDS Naturals, Sequences

CONSTANT Dogs

VARIABLES
    blocks,     \* the blocks mined so far
    tip,        \* the ore in force
    credited    \* beneficiaries already paid for the ore in force

vars == <<blocks, tip, credited>>

Init ==
    /\ blocks = << >>
    /\ tip = 0
    /\ credited = {}

\* A beneficiary is paid for the ore in force.
Credit(e) ==
    /\ e \notin credited
    /\ credited' = credited \cup {e}
    /\ UNCHANGED <<blocks, tip>>

\* Dog d consumes the ore in force.
Mine(d) ==
    /\ blocks' = Append(blocks, [dog |-> d, old |-> tip, new |-> tip + 1])
    /\ tip' = tip + 1
    /\ credited' = {}

\* The ore in force is replaced without being mined; nobody was paid for it.
Replace ==
    /\ credited = {}
    /\ tip' = tip + 1
    /\ UNCHANGED <<blocks, credited>>

Next ==
    \/ \E d \in Dogs : Credit(d) \/ Mine(d)
    \/ Replace

Spec == Init /\ [][Next]_vars
=============================================================================
