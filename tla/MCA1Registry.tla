--------------------------- MODULE MCA1Registry ---------------------------
(***************************************************************************)
(* Instances of A1Registry.  A session has two instants.                   *)
(***************************************************************************)
EXTENDS A1Registry

MCSourceDay(t) == t \div 2
=============================================================================
