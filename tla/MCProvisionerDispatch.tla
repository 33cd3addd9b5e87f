----------------------- MODULE MCProvisionerDispatch -----------------------
(***************************************************************************)
(* Small instances of ProvisionerDispatch for TLC: two provisioners with   *)
(* different cron periods.                                                 *)
(***************************************************************************)
EXTENDS ProvisionerDispatch, TLC

CronPeriods == [p \in Provisioner |-> IF p = CHOOSE q \in Provisioner : TRUE THEN 1 ELSE 2]

Symmetry == Permutations(Dispatcher)
=============================================================================
