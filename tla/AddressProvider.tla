-------------------------- MODULE AddressProvider ---------------------------
(***************************************************************************)
(* The address provider: the table in which the other contracts look each  *)
(* other up when they need to, never before, so that a change of an        *)
(* address takes effect in the next call of any of them.                   *)
(***************************************************************************)
CONSTANT NoAddress      \* the empty address a contract has until it is set

\* MarsContract
Contracts == {"council", "incentives", "safety_fund", "mars_token", "oracle",
              "protocol_admin", "protocol_rewards_collector", "red_bank",
              "staking", "treasury", "vesting", "xmars_token"}

VARIABLE provider       \* CONFIG: the owner and the address of each contract

Instantiated(owner) ==
  [owner |-> owner, address |-> [c \in Contracts |-> NoAddress]]

\* An update names some of the addresses and keeps the others.
Updated(address, params) ==
  [c \in Contracts |-> IF c \in DOMAIN params THEN params[c] ELSE address[c]]

\* execute_update_config: owner is the one kept or a new one.
UpdateAddresses(sender, owner, params) ==
  /\ sender = provider.owner
  /\ provider' = [owner |-> owner, address |-> Updated(provider.address, params)]

\* query_address and query_addresses, with the helpers that refuse an address
\* that is not set.
QueryAddress(c) == provider.address[c]
Known(cs) == \A c \in cs : QueryAddress(c) # NoAddress

\* QueryMsg: what may be asked.
AddressQuestions ==
  [ask : {"config"}]
  \cup [ask : {"address"}, contract : Contracts]
  \cup [ask : {"addresses"}, contracts : SUBSET Contracts]

AddressAnswer(q) ==
  CASE q.ask = "config"    -> provider
    [] q.ask = "address"   -> QueryAddress(q.contract)
    [] q.ask = "addresses" -> [c \in q.contracts |-> QueryAddress(c)]

=============================================================================
