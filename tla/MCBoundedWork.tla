--------------------------- MODULE MCBoundedWork ---------------------------
(***************************************************************************)
(* Instances of BoundedWork: two calls of one key, one of them waiting for *)
(* a slot, beside a batch; a call without a key beside a batch of two.     *)
(***************************************************************************)
EXTENDS BoundedWork

CONSTANTS c1, c2, c3, o1, o2, b1, k

MCKeyOf   == [c \in Calls |-> IF c = c3 THEN NoKey ELSE k]
MCBatchOf == [o \in Ops |-> b1]
=============================================================================
