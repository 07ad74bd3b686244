------------------------------ MODULE MCKeepalive ------------------------------
(* The instances of MCServeWS for Keepalive.                                 *)
EXTENDS MCServeWS, Keepalive
================================================================================
