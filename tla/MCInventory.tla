---------------------------- MODULE MCInventory ----------------------------
(* Small instances of Inventory. *)
EXTENDS Inventory

CONSTANTS p1, d1

\* Everything, and nothing.
TwoScopes == {{d1}, {}}
OneScope == {{d1}}
=============================================================================
