-------------------------- MODULE MCInterceptHook --------------------------
(* Bounds for InterceptHook: pages for two trampolines and a bit, enough   *)
(* pages for one installation and a half, and one that a second one can    *)
(* only begin.                                                             *)
EXTENDS InterceptHook
=============================================================================
