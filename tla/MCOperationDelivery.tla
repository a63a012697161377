------------------------- MODULE MCOperationDelivery -------------------------
(* One action and one read, or one of them alone. *)
EXTENDS OperationDelivery

CONSTANTS click, read

Both == {click, read}
Read == {read}
=============================================================================
