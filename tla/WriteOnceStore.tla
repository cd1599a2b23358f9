-------------------------- MODULE WriteOnceStore --------------------------
(***************************************************************************)
(* What block storage promises its callers: a map from keys to values to   *)
(* which entries are added, several at a time, under keys never used       *)
(* before.  An entry is never changed and never removed.                   *)
(***************************************************************************)
VARIABLE contents   \* the set of the entries [key, value]

IsMap(entries) == \A e, f \in entries : e.key = f.key => e = f

Init == contents = {}

Add ==
    /\ contents \subseteq contents'
    /\ IsMap(contents')

Spec == Init /\ [][Add]_contents
=============================================================================
