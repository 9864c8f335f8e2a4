--------------------------------- MODULE Filter --------------------------------
(*****************************************************************************)
(* The loop that keeps some values of a list: Table.RemoveHostname moves the *)
(* names that stay to the front, Block keeps the host names of its routes.   *)
(*****************************************************************************)
EXTENDS Naturals, Sequences

(* The values of s that are in keep, in their order: only[i] are those of    *)
(* the first i.                                                              *)
OnlySteps(s, keep) ==
    LET only[i \in 0..Len(s)] ==
            IF i = 0 THEN <<>>
            ELSE IF s[i] \in keep THEN Append(only[i - 1], s[i]) ELSE only[i - 1]
    IN  only

Only(s, keep) == OnlySteps(s, keep)[Len(s)]
===============================================================================
