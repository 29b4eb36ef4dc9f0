---------------------------- MODULE MCAuthRecovery ----------------------------
(***************************************************************************)
(* Two assistants, to check AuthRecovery with.  They are alike, but no     *)
(* symmetry is declared, since liveness is checked too.                    *)
(***************************************************************************)
EXTENDS AuthRecovery

TwoAssistants == {"first", "second"}

=============================================================================
