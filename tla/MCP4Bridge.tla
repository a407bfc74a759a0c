----------------------------- MODULE MCP4Bridge -----------------------------
(* Instantiates P4Bridge for TLC: two or three threads, one idle slot per  *)
(* pool so that returns overflow, one override user and password.          *)
EXTENDS P4Bridge, TLC

CONSTANTS t1, t2, t3, c1, c2, c3, c4, c5

MCThreads1 == {t1}
MCThreads2 == {t1, t2}
MCThreads3 == {t1, t2, t3}
MCConns4 == {c1, c2, c3, c4}
MCConns5 == {c1, c2, c3, c4, c5}
MCUsers == {"", "alice"}
MCPasswds == {"", "pw"}

\* Threads and clients are interchangeable: sound for the safety runs only.
MCSymmetry == Permutations(MCThreads2) \cup Permutations(MCConns4)
=============================================================================
