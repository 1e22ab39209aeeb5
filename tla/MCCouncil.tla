----------------------------- MODULE MCCouncil ------------------------------
(***************************************************************************)
(* Two voters whose power shifts, two proposals, and messages that shorten *)
(* or lengthen the periods, or that do not validate.                       *)
(***************************************************************************)
EXTENDS Council

CONSTANTS alice, bob

MCAccounts == {alice, bob}
MCPowers ==
  {[u \in MCAccounts |-> 1],
   [u \in MCAccounts |-> IF u = alice THEN 1 ELSE 3]}
MCNoPower == [u \in MCAccounts |-> 0]

MCConfig(delay, expiration, deposit, quorum, threshold) ==
  [proposal_voting_period |-> 1, proposal_effective_delay |-> delay,
   proposal_expiration_period |-> expiration, proposal_required_deposit |-> deposit,
   proposal_required_quorum |-> quorum, proposal_required_threshold |-> threshold]
Short == MCConfig(1, 0, 1, 3, 5)
Long == MCConfig(1, 3, 2, 5, 6)
MCConfigs == {Short, Long}

Message(order, sets) == [execution_order |-> order, sets |-> sets]
Elsewhere == [field \in {} |-> 0]
MCMessageLists ==
  {<<Message(2, [proposal_effective_delay |-> 1, proposal_expiration_period |-> 3,
                 proposal_required_threshold |-> 6]),
     Message(1, [proposal_required_threshold |-> 5, proposal_required_quorum |-> 3]),
     Message(3, Elsewhere)>>,
   <<Message(1, Elsewhere), Message(1, [proposal_required_threshold |-> 3])>>}

=============================================================================
