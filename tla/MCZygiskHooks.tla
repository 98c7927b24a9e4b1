--------------------------- MODULE MCZygiskHooks ---------------------------
(* The zygote and two children, one module.                                *)
EXTENDS ZygiskHooks
=============================================================================
