----------------------------- MODULE SyncBatch -----------------------------
(***************************************************************************)
(* The size of one dispatcher batch, from                                  *)
(* internal/usecases/applications.py.  The dispatcher runs every `tick'    *)
(* and wants every application synced once per `window'; both are in the   *)
(* same unit of time.                                                      *)
(***************************************************************************)
EXTENDS Integers

(* max(1, n), the guard the code puts around every divisor and result. *)
AtLeastOne(n) == IF n > 1 THEN n ELSE 1

(* How many times the dispatcher ticks during one sync window. *)
TicksPerWindow(window, tick) == AtLeastOne(AtLeastOne(window) \div AtLeastOne(tick))

(* Mutant: one more than the floor, also when nothing is left over. *)
FloorPlusOne(n, d) == n \div d + 1

(* math.ceil(n / d) for a positive divisor. *)
CeilDiv(n, d) == (n + d - 1) \div d

(* calculate_application_metrics_sync_batch_size: nothing to do without     *)
(* applications, a configured size wins, otherwise the applications are     *)
(* spread over the ticks of the window.                                     *)
BatchSize(total, window, tick, configured) ==
  IF total <= 0 THEN 0
  ELSE IF configured > 0 THEN configured
  ELSE AtLeastOne(CeilDiv(total, TicksPerWindow(window, tick)))

=============================================================================
