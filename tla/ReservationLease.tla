-------------------------- MODULE ReservationLease --------------------------
(***************************************************************************)
(* What the application dispatcher promises with sync_scheduled_at,        *)
(* whatever dispatchers, workers, crashes and rebuilds do: the column is a *)
(* lease.  lease[a] is NULL when application a is free, otherwise the age  *)
(* of its reservation.  A reservation younger than RetryAfter is never     *)
(* taken over: it can only grow older or be given back.                    *)
(***************************************************************************)
EXTENDS Integers

CONSTANTS
  App,          \* identifiers of application rows
  RetryAfter,   \* age at which a reservation may be taken over
  MaxDelay,     \* oldest clock reading a dispatcher may still use
  MaxAge        \* ages saturate here

VARIABLE lease

NULL == -1

(* One tick older, up to the largest age that is told apart. *)
Older(age, cap) == IF age = NULL \/ age >= cap THEN age ELSE age + 1

LeaseInit == lease = [a \in App |-> NULL]

Reservable(a) == lease[a] = NULL \/ lease[a] >= RetryAfter

(* A dispatcher reserves a batch, stamped with the clock it read. *)
Acquire ==
  \E S \in SUBSET App, age \in 0..MaxDelay :
    /\ \A a \in S : Reservable(a)
    /\ lease' = [a \in App |-> IF a \in S THEN age ELSE lease[a]]

(* A run ends, a publish fails, or rows are deleted. *)
GiveBack ==
  \E S \in SUBSET App :
    lease' = [a \in App |-> IF a \in S THEN NULL ELSE lease[a]]

GrowOlder == lease' = [a \in App |-> Older(lease[a], MaxAge)]

LeaseNext == Acquire \/ GiveBack \/ GrowOlder

LeaseSpec == LeaseInit /\ [][LeaseNext]_lease

=============================================================================
