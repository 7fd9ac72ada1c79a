---------------------------- MODULE VersionChain ----------------------------
(***************************************************************************)
(* What PR-04 promises of a Thesis: a history that only grows, one version *)
(* after the other, numbered from 1, in which nothing is ever replaced.    *)
(* The specification that the transactions of module ThesisVersions        *)
(* implement.                                                              *)
(***************************************************************************)
EXTENDS Integers

CONSTANT Contents

VARIABLES
    length,     \* how many versions there are
    entries     \* the versions, as numbers with their contents

chainVars == <<length, entries>>

Init == length = 0 /\ entries = {}

Append(content) ==
    /\ length' = length + 1
    /\ entries' = entries \cup {[number |-> length + 1, content |-> content]}

Next == \E content \in Contents : Append(content)

Spec == Init /\ [][Next]_chainVars

=============================================================================
