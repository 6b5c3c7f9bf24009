------------------------------- MODULE Amounts ------------------------------
(***************************************************************************)
(* The balance the page Wallet shows, and what the button Max makes of it. *)
(* The ledger counts smallest units; the page keeps the text of a floating *)
(* point number (divideAndConvertToNumber, common.ts:51) and sends that    *)
(* text, less the fee, back to the ledger.  SendTokens takes this way to   *)
(* and fro for exact: here is how far it is.  Numbers have Bits bits (53   *)
(* in the code) and are held as multiples of 1 / Grid.                     *)
(***************************************************************************)
EXTENDS Naturals, FiniteSets

CONSTANTS
    Bits,           \* of the significand of a Number
    Unit,           \* a power of 10: the smallest units of a token
    GridBits,       \* of the grid that holds every Number met here
    Fee,            \* of a transfer, in smallest units
    MaxUnits        \* bound: the balance

Pow2[k \in Nat] == IF k = 0 THEN 1 ELSE 2 * Pow2[k - 1]
Pow10[k \in Nat] == IF k = 0 THEN 1 ELSE 10 * Pow10[k - 1]

Grid == Pow2[GridBits]

AmountsAssumption ==
    /\ {Bits, Unit} \subseteq Nat \ {0} /\ {GridBits, Fee, MaxUnits} \subseteq Nat
    /\ Grid >= Unit * Pow2[Bits]

VARIABLE units      \* the balance on the ledger

Distance(a, b) == IF a < b THEN b - a ELSE a - b

\* The exponent of the Number nearest to x / y: the least with which Bits bits do.
Exponent(x, y) ==
    CHOOSE i \in 0 .. x + GridBits :
        /\ x * Grid < y * Pow2[i + Bits]
        /\ \A j \in 0 .. i - 1 : x * Grid >= y * Pow2[j + Bits]

\* The Number parsed from x / y: the nearest of Bits bits, half to even.
Number(x, y) ==
    LET k == Exponent(x, y)
        step == y * Pow2[k]
        q == (x * Grid) \div step
        r == (x * Grid) % step
    IN  Pow2[k] * (IF 2 * r > step \/ (2 * r = step /\ q % 2 = 1) THEN q + 1 ELSE q)

\* The units whose amounts parse to the same Number as those of u; none is further
\* from u than near.
Alike(u) ==
    LET near == (4 * Number(u, Unit) * Unit) \div (Grid * Pow2[Bits])
    IN  {v \in (IF u < near THEN 0 ELSE u - near) .. u + near : Number(v, Unit) = Number(u, Unit)}

\* Of the units alike, whose amounts parse to n, those with the most zeros at the end
\* have the shortest texts, and of these the nearest to n is taken.
Shortest(alike, n) ==
    LET Zeros(j) == \E v \in alike : v % Pow10[j] = 0
        zeros == CHOOSE j \in 0 .. MaxUnits : Zeros(j) /\ (j = MaxUnits \/ ~Zeros(j + 1))
        short == {v \in alike : v % Pow10[zeros] = 0}
    IN  CHOOSE v \in short : \A w \in short :
            Distance(v * Grid, n * Unit) <= Distance(w * Grid, n * Unit)

\* toString
Text(u) == Shortest(Alike(u), Number(u, Unit))

\* A wrong variant, to be refuted: a decimal less than the token has.
ShownCut(u) == u - (u % 10)

\* divideAndConvertToNumber(u, decimals).toString(), in smallest units.
Shown(u) == IF u = 0 THEN 0 ELSE Text(u)

\* A wrong variant, to be refuted: the fee is left to the ledger.
MaxPlain(u) == Shown(u)

\* btnMax: what is sent of a balance above the fee.
MaxAmount(u) == Shown(u) - Fee

Init == units = 0

\* Somebody pays to the user.
Deposit == units < MaxUnits /\ units' = units + 1

Next == Deposit
Spec == Init /\ [][Next]_units

(***************************************************************************)
(* Properties.                                                             *)
(***************************************************************************)
\* Type invariant.
TypeOK == units \in 0 .. MaxUnits /\ Shown(units) \in Nat

\* A balance of less than 2^(Bits - 1) units is shown as it is, though neither it nor
\* its Number is a multiple of the other's steps (common.ts:51).
ExactBelowHalf == units < Pow2[Bits - 1] => Shown(units) = units

\* The page never shows less after a deposit than before it (common.ts:51).
NeverFewerShown == Shown(units) <= Shown(units')

\* What Max offers of such a balance is accepted with its fee, and nothing is left
\* (Wallet.tsx:115).
MaxTakesAll ==
    units \in Fee .. Pow2[Bits - 1] - 1 => MaxAmount(units) + Fee = units
=============================================================================
