---------------------------- MODULE MCLifecycle -----------------------------
(* Small instances of Lifecycle.  After lp2p_shutdown, or a start that     *)
(* failed, there is nothing left to do.                                    *)
EXTENDS Lifecycle
=============================================================================
