---------------------------- MODULE MCOdraReceipt ----------------------------
(***************************************************************************)
(* Two things a receipt may say, and the envelope of each.                 *)
(***************************************************************************)
EXTENDS OdraReceipt

CONSTANTS m1, e1, e2

MCRootOf == [c \in Contents |-> IF c = m1 THEN e1 ELSE e2]
=============================================================================
