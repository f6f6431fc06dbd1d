------------------------------ MODULE MCForms ------------------------------
(* Instances of Forms for TLC.                                             *)
EXTENDS Forms
=============================================================================
