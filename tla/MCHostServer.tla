---------------------------- MODULE MCHostServer ----------------------------
(* Instances of HostServer for TLC: two clients and one restart.           *)
EXTENDS HostServer
=============================================================================
