---------------------------- MODULE MCTcpStreaming ----------------------------
(* An instance of TcpStreaming for TLC: two sessions of two tracks, two      *)
(* addresses of sockets, four SETUPs in all, and channel ids that come round *)
(* at the third SETUP of a session.                                          *)
EXTENDS TcpStreaming

CONSTANTS c1, c2, k1, k2
==============================================================================
