--------------------------- MODULE MCCdpConnection --------------------------
(* Instances of CdpConnection for TLC: two CDP sessions, a caller with a    *)
(* timeout and one that retries.                                           *)
EXTENDS CdpConnection
=============================================================================
