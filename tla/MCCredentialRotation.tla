------------------------ MODULE MCCredentialRotation ------------------------
(* Small instances of CredentialRotation.                                    *)
EXTENDS CredentialRotation

CONSTANTS a1, a2

All == {Instance}
Settled == {"succeeded", "failed"}
OnlySucceeded == {"succeeded"}
=============================================================================
