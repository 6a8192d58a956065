------------------------ MODULE MCSmtpQueueUnlocked ------------------------
(***************************************************************************)
(* Instances of SmtpQueueUnlocked for TLC.                                 *)
(***************************************************************************)
EXTENDS SmtpQueueUnlocked

CONSTANTS r1, r2, r3, r4, warning, error

MCLevel == [r \in Records |-> IF r \in {r1, r2} THEN warning ELSE error]
=============================================================================
