------------------------------ MODULE Options ------------------------------
(***************************************************************************)
(* An option of ToolDb that several network adapters read.                 *)
(***************************************************************************)
EXTENDS Naturals

CONSTANT MaxRetries  \* options.maxRetries

ASSUME RetriesAssumption == MaxRetries \in Nat
=============================================================================
