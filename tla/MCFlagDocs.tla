----------------------------- MODULE MCFlagDocs -----------------------------
(* One document with two keys: d1 toggles one of them, d2 both.            *)
EXTENDS FlagDocs, TLC

CONSTANTS d1, d2, doc1, f1, f2

SharedKey == d1 :> {<<doc1, f1>>} @@ d2 :> {<<doc1, f1>>, <<doc1, f2>>}
=============================================================================
