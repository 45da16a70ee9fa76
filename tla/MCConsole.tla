------------------------------ MODULE MCConsole ------------------------------
(* Instance of Console for TLC. *)
EXTENDS Console

\* Commands of each kind that keep the lock no longer than they need, cut anywhere.
WellTyped == <<"append", "ill_formed", "get", "undefined">>

\* The last command throws: the lock is never free again behind it.
Mistyped == <<"append", "wrong_arity">>

MCScripts == {WellTyped, Mistyped}
=============================================================================
