------------------------ MODULE MCMachineOptimization ------------------------
(* Values around the thresholds 40, 65 and 85 % and the margins 0.80 and 1.10 *)
EXTENDS MachineOptimization

MCCapacity == {1, 2, 3, 8, 10, 20, 40, None}
MCTotal == {0, 1, 40, 41, 65, 80, 81, 85, 130, 169, 170, 200}
=============================================================================
