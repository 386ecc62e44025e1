----------------------------- MODULE MCNetlink -----------------------------
(* Model checking of Netlink alone. *)
EXTENDS Netlink
=============================================================================
