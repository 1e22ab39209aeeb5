----------------------------- MODULE Snapshots ------------------------------
(***************************************************************************)
(* Amounts remembered by block, as the xMARS token and the vesting         *)
(* contract keep them: a history maps the blocks in which an amount changed *)
(* to its last value in that block.                                        *)
(***************************************************************************)
EXTENDS Integers, FiniteSetsExt

NoHistory == [block \in {} |-> 0]

\* A variant of Captured that the runs refute: the first change of a block stays.
CapturedOnce(history, block, amount) ==
  [b \in DOMAIN history \cup {block} |-> IF b \in DOMAIN history THEN history[b] ELSE amount]

\* A second change in a block overwrites the first.
Captured(history, block, amount) ==
  [b \in DOMAIN history \cup {block} |-> IF b = block THEN amount ELSE history[b]]

\* A variant of ValueAt that the runs refute: the block itself is left out.
ValueBefore(history, block) ==
  LET earlier == {b \in DOMAIN history : b < block}
  IN  IF earlier = {} THEN 0 ELSE history[Max(earlier)]

\* The last amount captured up to a block, that block included, or zero.
ValueAt(history, block) ==
  LET upTo == {b \in DOMAIN history : b <= block}
  IN  IF upTo = {} THEN 0 ELSE history[Max(upTo)]

=============================================================================
