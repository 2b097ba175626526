--------------------------- MODULE MCFallbackStash --------------------------
(* FallbackStash with the settings of the TLC runs. *)
EXTENDS FallbackStash

AnySetting ==
  [drop : BOOLEAN, nestInFormat : BOOLEAN,
   caught : {"never", "outside", "inside"}, early : BOOLEAN]

DropMode ==
  [drop : {TRUE}, nestInFormat : {FALSE}, caught : {"never"}, early : {FALSE}]
=============================================================================
