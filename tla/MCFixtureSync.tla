--------------------------- MODULE MCFixtureSync ---------------------------
(* Small instances of FixtureSync for TLC.                                 *)
EXTENDS FixtureSync

CONSTANTS t1, t2

(* A part that is replaced, the harder kind: it has a delete and an insert.*)
OnePart == <<"events">>

(* The match goes on under one status: its end shows only in the answers   *)
(* it is missing from, which an answer may be at any time.                 *)
Endless == [s \in Statuses |-> {s}]
=============================================================================
