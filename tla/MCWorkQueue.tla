---------------------------- MODULE MCWorkQueue ----------------------------
(* Up to eight commitments: enough for rounds of one, two and three items,  *)
(* native and external rounds in one proof, and workers that reorder.      *)
EXTENDS WorkQueue

MCMaxCommitments == 8

=============================================================================
