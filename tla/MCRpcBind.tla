------------------------------ MODULE MCRpcBind ------------------------------
(***************************************************************************)
(* RpcBind for TLC.  The initial fragment sizes are those rpc_new gives    *)
(* (0x0FF8 both ways).                                                     *)
(***************************************************************************)
EXTENDS RpcBind
=============================================================================
