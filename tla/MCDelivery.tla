------------------------------ MODULE MCDelivery ------------------------------
(***************************************************************************)
(* Instances of Delivery for TLC.                                          *)
(***************************************************************************)
EXTENDS Delivery

SingleDeployments == {{"telegram"}, {"discord"}}
AllDeployments    == SUBSET Platforms \ {{}}

\* The longest title in ASCII letters, and in three-byte characters one that
\* content_disposition accepts and one it does not.
ShortTitle == [chars |-> 200, width |-> 1]
FitTitle   == [chars |-> 55, width |-> 3]
LongTitle  == [chars |-> 60, width |-> 3]

File(size, title) == [size |-> size, title |-> title]
SmallAndLarge == {File(0, ShortTitle), File(3, FitTitle), File(3, LongTitle)}

TwoReadings == {[phase |-> "downloading", done |-> 4, total |-> 3],
                [phase |-> "post_processing", done |-> 1, total |-> 0 - 1]}

Span(first, last) == [kind |-> "span", first |-> first, last |-> last]
WholeFile  == {AnyRange}
AllRanges  ==
  {Span(1, 3), Span(2, 1)}
    \cup {[kind |-> "open", first |-> 3, last |-> 0]}
    \cup {[kind |-> "suffix", first |-> 0, last |-> n] : n \in {0, 4}}
    \cup {[kind |-> k, first |-> 0, last |-> 0] : k \in {"whole", "unreadable"}}
================================================================================
