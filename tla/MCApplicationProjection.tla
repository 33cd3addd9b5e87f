----------------------- MODULE MCApplicationProjection -----------------------
EXTENDS ApplicationProjection

CONSTANT prod

CONSTANT a

C(code, environment, region) == [code |-> code, environment |-> environment, region |-> region]

(* One application without dimensions, with their default, or in prod; none. *)
MCReported == {C(a, None, None), C(a, Unknown, None), C(a, prod, None), C(None, prod, None)}
MCDimension == {Unknown, prod}
=============================================================================
