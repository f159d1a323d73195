----------------------------- MODULE MCAccounts -----------------------------
(* Two accounts, the edits that matter to them, and a few concurrent requests. *)
EXTENDS Accounts

MCBodies == {Asked("same", "yes", "same"), Asked("same", "no", "p1"),
             Asked("reader", "same", "same"), Asked("admin", "same", "same"),
             Asked("reader", "yes", "same")}
MCRemovals == {Asked("same", "yes", "same"), Asked("reader", "same", "same")}
=============================================================================
