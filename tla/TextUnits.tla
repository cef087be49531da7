------------------------------- MODULE TextUnits -------------------------------
(***************************************************************************)
(* What texts are made of.  A text is a sequence of units, each one         *)
(* "tag=value" with its SOH; lengths are counted in units.  A value is a    *)
(* number, or one of the two that are none.                                 *)
(***************************************************************************)
EXTENDS Integers

BeginString == 8
BodyLength == 9
CheckSum == 10

NotANumber == -1
NoValue == -2

Unit(tag, val) == [tag |-> tag, val |-> val]

Units == [tag: Nat \cup {NotANumber}, val: Nat \cup {NotANumber, NoValue}]
=============================================================================
