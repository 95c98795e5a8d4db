---------------------------- MODULE MCAppOperator ----------------------------
(* The instance of AppOperator for TLC. *)
EXTENDS AppOperator

MCSpecs == {[src |-> "image", ports |-> "none", host |-> None, secrets |-> FALSE,
             ref |-> "", docs |-> <<>>]}
=============================================================================
