---------------------------- MODULE MCDhcpServer ----------------------------
(***************************************************************************)
(* Instances of DhcpServer: a subnet of eight addresses, 255.255.255.248,  *)
(* with the server at the first of them.                                   *)
(***************************************************************************)
EXTENDS DhcpServer
=============================================================================
