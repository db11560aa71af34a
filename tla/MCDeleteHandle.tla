---------------------------- MODULE MCDeleteHandle ----------------------------
(***************************************************************************)
(* WatchHandle and DeleteHandle for TLC: two watches, of one of the two    *)
(* names or of both; a packet has just the name or a component more.       *)
(***************************************************************************)
EXTENDS DeleteHandle

CONSTANTS a, b      \* names

MCCommands ==
    { [name |-> a, limit |-> 2, timed |-> FALSE],
      [name |-> a, limit |-> 0, timed |-> TRUE],
      [name |-> b, limit |-> 1, timed |-> FALSE],
      [name |-> b, limit |-> 0, timed |-> FALSE] }
MCProduced ==
    [name : {a}, child : {Itself, 1}] \cup [name : {b}, child : {0}]
MCRanges == { <<0, 0>>, <<0, 1>> }
=============================================================================
