------------------------- MODULE MCBrokerMigration -------------------------
(* TLC instances of BrokerMigration.                                         *)
EXTENDS BrokerMigration

(* Who manages the pods, how many, their template, the NodePool generation,  *)
(* and what the owner waits to be told before making the edit.               *)
S(b, n, t, g, w) == [broker |-> b, n |-> n, tmpl |-> t, gen |-> g, after |-> w]
T == <<1, 1>>
Config == <<2, 1>>
Image == <<1, 2>>
There == << S(FALSE, 2, T, 1, "any"), S(TRUE, 2, T, 1, "any") >>

ThereAndBack == Append(There, S(FALSE, 2, T, 1, "any"))
PendingRoll == << S(FALSE, 2, T, 1, "any"), S(FALSE, 2, Config, 2, "any"), S(TRUE, 2, Config, 2, "any") >>
Born == << S(TRUE, 2, T, 1, "any"), S(FALSE, 2, T, 1, "any"), S(TRUE, 2, T, 1, "any") >>
GrowBefore == << S(FALSE, 1, T, 1, "any"), S(FALSE, 2, T, 2, "any"), S(TRUE, 2, T, 2, "any") >>
ShrinkBack == << S(TRUE, 2, T, 1, "any"), S(FALSE, 2, T, 1, "any"), S(FALSE, 1, T, 2, "RolledBack") >>
ShrinkThere == Append(There, S(TRUE, 1, T, 2, "Complete"))
ChangeThere == Append(There, S(TRUE, 2, Config, 2, "Complete"))
ImageDuring == Append(There, S(TRUE, 2, Image, 2, "any"))

AllScripts == {ThereAndBack, PendingRoll, Born, GrowBefore, ShrinkBack, ShrinkThere, ChangeThere}
ImageScript == {ImageDuring}
=============================================================================
