----------------------------- MODULE MCKisToken -----------------------------
(* Two accounts in the server, one of them also in a scheduled job. *)
EXTENDS KisToken, TLC

CONSTANTS s1, s2, j, server_process, job_process

MCProcessOf ==
    [c \in Clients |-> IF c = j THEN job_process ELSE server_process]
TokenSymmetry == Permutations(Tokens)
=============================================================================
