------------------------- MODULE MCOperationalRuntime -------------------------
(***************************************************************************)
(* Small instances of the operational runtime.                             *)
(***************************************************************************)
EXTENDS OperationalRuntime

Raising(name) == [r \in Reads |-> IF ReadOrder[r] = name THEN "raise" ELSE "good"]

\* A round in which nothing fails, one that fails the check without a reason,
\* one abandoned midway, and one whose quote cannot be had after another check
\* failed.
FewObservations ==
    {AllGood, [AllGood EXCEPT ![Read("metadata")] = "bad"], Raising("exposure"),
     [Raising("quote") EXCEPT ![Read("terminal")] = "bad"]}
=============================================================================
