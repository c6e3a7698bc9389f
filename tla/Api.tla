-------------------------------- MODULE Api --------------------------------
(***************************************************************************)
(* What every REST handler and gRPC method shares: the answer it gives.    *)
(* A handler that needs several critical sections answers with its last    *)
(* step; its earlier steps leave Pending.  gRPC methods answer GrpcOK or   *)
(* GrpcError.  Bodies are left out: properties only tell codes apart.      *)
(***************************************************************************)
EXTENDS Maps

VARIABLE answer         \* status code of the last step, Pending if none

Pending == 0
GrpcOK == 200
GrpcError == 500

Reply(code) == answer' = code
IsError(code) == code >= 400

\* Lookup handlers: the entry, or the error code.
Lookup(k, m, missing) == Reply(IF k \in DOMAIN m THEN 200 ELSE missing)
=============================================================================
