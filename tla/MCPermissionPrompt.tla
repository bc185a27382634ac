--------------------------- MODULE MCPermissionPrompt ---------------------------
(* The instance of PermissionPrompt that TLC checks.                          *)
EXTENDS PermissionPrompt
=============================================================================
