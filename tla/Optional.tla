------------------------------- MODULE Optional -------------------------------
(* The absence of a value (Rust's None), shared by the modules that need one. *)
CONSTANT None
=============================================================================
