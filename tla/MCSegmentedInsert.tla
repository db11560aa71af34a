-------------------------- MODULE MCSegmentedInsert --------------------------
(***************************************************************************)
(* SegmentedInsert for TLC: 8 segment numbers, of which an object of four  *)
(* segments is produced, whose packets name the final block or no block.   *)
(* The commands ask for less, for all, for more, without an end, for the   *)
(* whole range of numbers, for its last two, and for an empty range.       *)
(***************************************************************************)
EXTENDS SegmentedInsert

Ask(first, last) == [start |-> first, end |-> last]

MCCommands ==
    { Ask(0, 2), Ask(1, 3), Ask(0, 5), Ask(1, NoBlock), Ask(0, 7),
      Ask(6, 7), Ask(6, NoBlock), Ask(3, 1) }
MCProduced == 0..3
MCFinalBlocks == {3, NoBlock}
=============================================================================
