---------------------------- MODULE MCFenceStore ----------------------------
(***************************************************************************)
(* FenceStore for TLC: a fence of a known tenant and one of a tenant       *)
(* without a row, over three positions.                                    *)
(***************************************************************************)
EXTENDS FenceStore

Body(id, tenant, area, bbox) ==
    [id |-> id, tenant |-> tenant, corners |-> 4, area |-> area, bbox |-> bbox]

MCFences == {Body("depot", "t1", {1}, {1, 2}), Body("yard", "t2", {1, 2}, {1, 2})}

RequestSymmetry == Permutations(Requests)
=============================================================================
