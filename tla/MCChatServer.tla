---------------------------- MODULE MCChatServer ----------------------------
(* ChatServer for TLC: sessions are interchangeable.                      *)
EXTENDS ChatServer, TLC

Symmetry == Permutations(Slots)
=============================================================================
