---------------------------- MODULE MCPagination ----------------------------
(* Model-checking instance of Pagination: u32 scaled to 8 bits, every page *)
(* value, per_page values around the defaults, the cap of 100 and the top. *)
EXTENDS Pagination

MCPageInputs == {None} \cup 0..(Modulus - 1)
MCPerPageInputs == {None, 0, 1, 2, 3, 100, 101, Modulus - 1}
=============================================================================
