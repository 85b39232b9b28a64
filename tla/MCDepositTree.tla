---------------------------- MODULE MCDepositTree ----------------------------
(* Two clients, which are alike. *)
EXTENDS DepositTree, TLC

CONSTANTS alpha, beta

MCClients == {alpha, beta}
MCSymmetry == Permutations(MCClients)
=============================================================================
