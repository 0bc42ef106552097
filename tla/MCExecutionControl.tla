------------------------- MODULE MCExecutionControl -------------------------
(***************************************************************************)
(* Small instances of ExecutionControl.                                    *)
(***************************************************************************)
EXTENDS ExecutionControl

AllRows == {Seeded, Unknown, NoRow}
SeededOnly == {Seeded}

FirstGates == {<<"G1", "GO">>, <<"G2", "GO">>}

(* Up to SANDBOX.                                                          *)
SandboxGates == FirstGates \cup {<<"G3", "GO">>}

=============================================================================
