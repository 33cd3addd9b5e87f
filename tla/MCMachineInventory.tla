------------------------- MODULE MCMachineInventory --------------------------
EXTENDS MachineInventory, TLC

CONSTANTS e1, e2, h1, h2

F(c, r) == [x \in Resource |-> IF x = "cpu" THEN c ELSE r]
R(e, h, f) == [ext |-> e, host |-> h, flavor |-> f]

(* A machine that is new or renamed; one that is resized, next to one without an *)
(* external id; one whose hostname a second machine takes, which is reported      *)
(* twice.                                                                         *)
MCReport ==
  { <<R(e1, h2, F(2, 1))>>,
    <<R(e1, h1, F(1, 2)), R(None, h2, F(1, 1))>>,
    <<R(e1, h2, F(2, 1)), R(e2, h1, F(1, 1)), R(e2, h1, F(2, 1))>> }
MCResource == {"cpu", "ram"}
MCSymmetry == Permutations(Worker) \cup Permutations(Provisioner)
=============================================================================
