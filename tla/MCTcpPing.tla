----------------------------- MODULE MCTcpPing ------------------------------
(* TcpPing with three lines, two workers and one retry; line 1 has no      *)
(* address that can be extracted.                                          *)
EXTENDS TcpPing

MCNoAddr == {1}
=============================================================================
