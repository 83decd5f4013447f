------------------------------ MODULE MCPages ------------------------------
(***************************************************************************)
(* Pages with lists of a few rows.                                         *)
(***************************************************************************)
EXTENDS PagesProperties

\* Holders may be equal, and have one digit or two.
MCAmounts == {0, 9, 10}

\* Two events in a block, the first of either party.
MCBlockLog ==
  {[idx |-> 1, party |-> "a"], [idx |-> 1, party |-> "b"], [idx |-> 2, party |-> "b"]}

\* Taken for the default, allowed, and too large.
MCLimits == {0, 2, 3}

=============================================================================
