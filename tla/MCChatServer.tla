---------------------------- MODULE MCChatServer ----------------------------
(* Model-checking instance of ChatServer: two connection slots, two       *)
(* identities, caps scaled down so that the log overflows and the          *)
(* snapshot window is smaller than the log.                                *)
EXTENDS ChatServer, TLC

CONSTANTS c1, c2, a, b

MCConn == {c1, c2}
MCId == {a, b}
Symmetry == Permutations(MCConn) \cup Permutations(MCId)
=============================================================================
