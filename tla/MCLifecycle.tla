---------------------------- MODULE MCLifecycle ----------------------------
(***************************************************************************)
(* Two configurations, one with the longer text, and an operator who may   *)
(* write either at either length.                                          *)
(***************************************************************************)
EXTENDS Lifecycle

CONSTANTS Brief, Long

MCConfig      == {Brief, Long}
MCSize        == {1, 2}
MCPrintedSize == [c \in MCConfig |-> IF c = Brief THEN 1 ELSE 2]
=============================================================================
