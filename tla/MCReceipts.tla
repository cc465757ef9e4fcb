----------------------------- MODULE MCReceipts -----------------------------
(* An author of two messages and a reader.                                *)
EXTENDS Receipts

CONSTANTS a, b

Pair == {a, b}
Two == <<a, a>>
=============================================================================
