------------------------------- MODULE MCPwc --------------------------------
(* The primary write client for TLC: the constants are given in the           *)
(* configuration.                                                            *)
EXTENDS PwcMain
=============================================================================
