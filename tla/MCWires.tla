------------------------------ MODULE MCWires -------------------------------
(* A ring of two slots whose indices wrap after four pushes, so that full, *)
(* empty and wrapped-round states are all reached; two threads that may    *)
(* call at once, two workers, and pipes that hold one message, so that     *)
(* every writer is made to wait; a task launched twice, in each way there  *)
(* is, with one ask the first time (MCMemory has more).                    *)
EXTENDS Wires
AsksPerRun == <<1, 0>>
LaunchWays == {[hook |-> FALSE, detached |-> FALSE], [hook |-> TRUE, detached |-> TRUE],
               [hook |-> TRUE, detached |-> FALSE]}
=============================================================================
