------------------------------- MODULE MCRwMsg -------------------------------
(***************************************************************************)
(* Instances of RwMsg: two threads with requests of different kinds, such  *)
(* as the supplicant's and those of the role launcher's timers.            *)
(***************************************************************************)
EXTENDS RwMsg, TLC

CONSTANTS s1, s2

\* The kinds of request are told apart only by equality.
MCReqOf == [s \in Sender |-> s]
=============================================================================
