---------------------------- MODULE CallContext ----------------------------
(***************************************************************************)
(* The context.Context a caller hands to a call of the SDK that lasts: it  *)
(* may be cancelled once, at any moment, and everything the call waits for *)
(* also waits for that.                                                    *)
(***************************************************************************)
VARIABLE cancelled
=============================================================================
