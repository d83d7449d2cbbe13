----------------------------- MODULE MCAccounts -----------------------------
(* Devices and users as model values.                                      *)
EXTENDS Accounts

CONSTANTS d1, d2, u1, u2
=============================================================================
