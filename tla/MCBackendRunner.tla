-------------------------- MODULE MCBackendRunner --------------------------
(* BackendRunner is checked as it is: its one bound is given in the        *)
(* configurations.                                                         *)
EXTENDS BackendRunner
=============================================================================
