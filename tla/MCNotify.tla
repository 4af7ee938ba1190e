------------------------------ MODULE MCNotify ------------------------------
(* Small instances of Notify: two people, one of whom writes from a chat.   *)
EXTENDS Notify

MCAccounts == {[user |-> "ann", chat |-> None], [user |-> "bob", chat |-> "home"]}
=============================================================================
