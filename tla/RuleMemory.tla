------------------------------ MODULE RuleMemory ------------------------------
(***************************************************************************)
(* Rules kept in a Vec in the server's memory: all that the placeholder    *)
(* backend for Linux has (src/src/firewall/linux.rs), and the copy the     *)
(* Windows backend falls back to (src/src/firewall/windows.rs).  The two   *)
(* do the same with it.                                                    *)
(*                                                                         *)
(* A memory is a set of records with the fields name and state; that each  *)
(* name is there once is for the modules that use it to show.  The order   *)
(* in the Vec is that in which rules are listed and has no other effect.   *)
(***************************************************************************)

Has(memory, n) == \E e \in memory : e.name = n

\* retain(|r| r.name != name)
Without(memory, n) == {e \in memory : e.name # n}

\* Bug: an entry of the same name is not removed first.
Stored_Bug(memory, entry) == memory \cup {entry}

\* retain and push
Stored(memory, entry) == Without(memory, entry.name) \cup {entry}

\* iter_mut().find and the assignment to enabled
Switched(memory, n, state) ==
    {IF e.name = n THEN [e EXCEPT !.state = state] ELSE e : e \in memory}
==============================================================================
