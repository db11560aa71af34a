----------------------------- MODULE MCReadHandle -----------------------------
(***************************************************************************)
(* ReadHandle for TLC.  Characters: 0 precedes the slash (as '-' does), 1  *)
(* is the slash, 2 and 3 are letters.  Component a is "x", am is "x-", ab  *)
(* is "xy", b is "y": the texts of am and ab continue that of a, on either *)
(* side of the slash.                                                      *)
(***************************************************************************)
EXTENDS ReadHandle

CONSTANTS a, am, ab, b

MCComponent == {a, am, ab, b}
MCText == a :> <<2>> @@ am :> <<2, 0>> @@ ab :> <<2, 3>> @@ b :> <<3>>
MCRenamePrefix == << >>
MCPutOutcomes == BOOLEAN

MCNames ==
    { <<a>>, <<a, a>>, <<a, am>>, <<ab>>, <<b>>, <<a, a, b>>, <<am, b, a>>,
      <<am, b, b>> }

Asks(names, canBePrefix, mustBeFresh, mins, maxs) ==
    [name : names, canBePrefix : {canBePrefix}, mustBeFresh : {mustBeFresh},
     min : mins, max : maxs]

(***************************************************************************)
(* Prefix reads without limits, with one limit and with both; exact reads; *)
(* one read that must be fresh.                                            *)
(***************************************************************************)
MCUnlimited == Asks({ << >>, <<a>>, <<a, a>>, <<b>> }, TRUE, FALSE, {-1}, {-1})
MCLimited == Asks({ << >>, <<a>> }, TRUE, FALSE, {0, 1}, {0, 1})

MCInterests ==
    MCUnlimited \cup MCLimited
    \cup Asks({ << >>, <<a>> }, TRUE, FALSE, {0, 1}, {-1})
    \cup Asks({ << >>, <<a>> }, TRUE, FALSE, {-1}, {0, 1})
    \cup Asks({ <<a>>, <<a, a>> }, FALSE, FALSE, {-1}, {-1})
    \cup Asks({ <<a>> }, TRUE, TRUE, {-1}, {-1})
=============================================================================
