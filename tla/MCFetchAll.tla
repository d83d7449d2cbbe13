----------------------------- MODULE MCFetchAll -----------------------------
(* The fan-out with two calls in flight over up to three users.            *)
EXTENDS FetchAll
=============================================================================
