---------------------------- MODULE MCCallState ----------------------------
(***************************************************************************)
(* Two people, one of them with two connections, and the bot.              *)
(***************************************************************************)
EXTENDS CallState, TLC

CONSTANTS alice, bob, a1, a2, b1, k1

MCUserOf == [c \in Conns |-> CASE c \in {a1, a2} -> alice
                                [] c = b1 -> bob
                                [] OTHER -> Bot]
=============================================================================
