--------------------------- MODULE MCAccountMail ---------------------------
(* AccountMail on one user, two mails, one of them sealed under a key that *)
(* the running server lacks, and two overlapping drain passes.             *)
EXTENDS AccountMail, TLC
=============================================================================
