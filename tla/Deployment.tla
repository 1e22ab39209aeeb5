----------------------------- MODULE Deployment -----------------------------
(***************************************************************************)
(* How the contracts come to be: a script that sends one transaction after *)
(* the other from the deployer's wallet, and is run again from the start   *)
(* when one fails; and what may happen meanwhile and afterwards to the     *)
(* contracts that hold the protocol's revenue, which look each other up in *)
(* the address provider.                                                   *)
(*                                                                         *)
(* Contracts are known by their names: those of a script that was stopped  *)
(* are abandoned and no longer seen, but for the minter of MARS, which is  *)
(* there before and stays.                                                 *)
(***************************************************************************)
EXTENDS RewardsCollector, Sequences, SequencesExt

CONSTANTS
  InitialAssets,        \* the markets to open, in order
  Strategies,           \* the contracts that are given a loan limit, in order
  IsTestnet,            \* the deployer remains an admin of the minter of MARS
  NextOwners,           \* to whom the council may hand over one of the funds
  MaxFunds,             \* bound: the revenue in an asset
  MaxRuns               \* bound: how often the script is started

Deployer == "deployer"

ASSUME DeploymentAssumptions ==
  /\ InitialAssets \in Seq(Assets) /\ Strategies \in Seq(STRING)
  /\ \A p \in AddressParams : \A c \in DOMAIN p :
       p[c] # NoAddress /\ (c \in Recipients => p[c] \in Parties)
  /\ NoAddress \notin Contracts \cup {Deployer}
  /\ Recipients \cup {"council"} \cup NextOwners \subseteq Parties
  /\ IsTestnet \in BOOLEAN /\ MaxFunds \in Nat /\ MaxRuns \in Nat \ {0}

VARIABLES
  status,               \* of the script: "running", "stopped" or "done"
  next,                 \* its next transaction
  runs,                 \* how often it was started
  owners,               \* the contracts there are, and the owner of each
  minterAdmins,         \* who may have MARS minted
  priced,               \* the assets for which the oracle has a source
  markets,              \* MARKET_REFERENCES_BY_INDEX of the red bank
  limits                \* the strategies with an uncollateralized loan limit

scriptVars == <<status, next, runs>>
chainVars == <<owners, minterAdmins, priced, markets, limits>>
vars == <<scriptVars, chainVars, provider, collectorVars>>

-----------------------------------------------------------------------------
(* The script. *)

Deploy(c) == [tx |-> "deploy", of |-> c]
Handover(c) == [tx |-> "handover", of |-> c]

ContractsPart ==
  << Deploy("address_provider"), Deploy("council"),
     [tx |-> "set_minter", of |-> "council"],
     Deploy("vesting"), Deploy("staking"), Deploy("safety_fund"), Deploy("treasury"),
     Deploy("incentives"), Deploy("xmars_token") >>

CollectorPart ==
  << Deploy("protocol_rewards_collector"), [tx |-> "enable", of |-> Uusd],
     Handover("protocol_rewards_collector") >>

RedBankPart == << Deploy("red_bank"), Deploy("oracle") >>

AddressesPart == << [tx |-> "set_addresses", of |-> "address_provider"] >>

\* For OraclePart: the oracle stays with the deployer.
OraclePartKept == [i \in DOMAIN InitialAssets |-> [tx |-> "set_asset", of |-> InitialAssets[i]]]

OraclePart ==
  [i \in DOMAIN InitialAssets |-> [tx |-> "set_asset", of |-> InitialAssets[i]]]
    \o << Handover("oracle") >>

MarketsPart == [i \in DOMAIN InitialAssets |-> [tx |-> "init_asset", of |-> InitialAssets[i]]]

LimitsPart == [i \in DOMAIN Strategies |-> [tx |-> "set_limit", of |-> Strategies[i]]]

\* For Script: the markets are opened as soon as there is a red bank.
ScriptMarketsFirst ==
  ContractsPart \o CollectorPart \o RedBankPart \o MarketsPart \o AddressesPart
    \o OraclePart \o LimitsPart \o << Handover("red_bank") >>

Script ==
  ContractsPart \o CollectorPart \o RedBankPart \o AddressesPart \o OraclePart
    \o MarketsPart \o LimitsPart \o << Handover("red_bank") >>

-----------------------------------------------------------------------------
(* What the transactions do, and when the chain accepts them. *)

Exists(c) == c \in DOMAIN owners

OwnerOf(c) ==
  CASE ~Exists(c) -> NoAddress
    [] c = "address_provider" -> provider.owner
    [] c = "protocol_rewards_collector" -> collectorConfig.owner
    [] OTHER -> owners[c]

\* The addresses an instantiation message carries.
Named(c) ==
  CASE c = "council" -> {"address_provider"}
    [] c = "vesting" -> {"address_provider"}
    [] c \in {"staking", "incentives"} -> {"council", "address_provider"}
    [] c \in {"safety_fund", "treasury"} -> {"council"}
    [] c = "xmars_token" -> {"staking"}
    [] c \in {"protocol_rewards_collector", "red_bank"} -> {"address_provider"}
    [] c \in {"address_provider", "oracle"} -> {}

\* The owner it carries; the minter is the owner of a token, and the vesting
\* contract and the council have none but the council itself.
FirstOwner(c) ==
  CASE c \in {"address_provider", "protocol_rewards_collector", "red_bank", "oracle"} -> Deployer
    [] c = "xmars_token" -> "staking"
    [] OTHER -> "council"

Instantiate(c) ==
  /\ \A d \in Named(c) : Exists(d)
  /\ owners' = [d \in DOMAIN owners \cup {c} |-> IF d = c THEN FirstOwner(c) ELSE owners[d]]
  /\ IF c = "address_provider" THEN provider' = Instantiated(FirstOwner(c))
     ELSE UNCHANGED provider
  /\ IF c = "protocol_rewards_collector"
     THEN collectorConfig' \in InitialConfigs(FirstOwner(c)) /\ enabled' = {}
     ELSE UNCHANGED <<collectorConfig, enabled>>
  /\ UNCHANGED <<minterAdmins, priced, markets, limits, funds>>

\* execute_update_config of the oracle, of the red bank and of the collector
UpdateOwner(c) ==
  /\ OwnerOf(c) = Deployer
  /\ IF c = "protocol_rewards_collector"
     THEN collectorConfig' = [collectorConfig EXCEPT !.owner = "council"] /\ UNCHANGED owners
     ELSE owners' = [owners EXCEPT ![c] = "council"] /\ UNCHANGED collectorConfig
  /\ UNCHANGED <<minterAdmins, priced, markets, limits, provider, funds, enabled>>

\* The whitelist that mints MARS.
SetMinter ==
  /\ Deployer \in minterAdmins
  /\ minterAdmins' = IF IsTestnet THEN {Deployer, "council"} ELSE {"council"}
  /\ UNCHANGED <<owners, priced, markets, limits, provider, collectorVars>>

EnableAsset(asset) ==
  /\ collectorConfig.owner = Deployer
  /\ enabled' = enabled \cup {asset}
  /\ UNCHANGED <<chainVars, provider, funds, collectorConfig>>

ScriptAddresses ==
  [c \in Contracts |-> IF c = "protocol_admin" THEN Deployer ELSE c]

SetAddresses ==
  /\ Exists("address_provider")
  /\ \A c \in Contracts \ {"protocol_admin", "mars_token"} : Exists(c)
  /\ UpdateAddresses(Deployer, "council", ScriptAddresses)
  /\ UNCHANGED <<chainVars, collectorVars>>

\* A token is priced by its pair on Astroport, created if need be; when the
\* script cannot ask for the pair it goes on without a price.
SetPrice(asset) ==
  /\ OwnerOf("oracle") = Deployer
  /\ \/ priced' = priced \cup {asset}
     \/ asset \notin Natives /\ UNCHANGED priced
  /\ UNCHANGED <<owners, minterAdmins, markets, limits, provider, collectorVars>>

\* The market gets the next index, and a maToken that is told two addresses and
\* tells the red bank its own.
InitAsset(asset) ==
  /\ OwnerOf("red_bank") = Deployer
  /\ \A i \in DOMAIN markets : markets[i] # asset
  /\ Exists("address_provider") /\ Known({"incentives", "protocol_admin"})
  /\ markets' = Append(markets, asset)
  /\ UNCHANGED <<owners, minterAdmins, priced, limits, provider, collectorVars>>

SetLimit(strategy) ==
  /\ OwnerOf("red_bank") = Deployer
  /\ limits' = limits \cup {strategy}
  /\ UNCHANGED <<owners, minterAdmins, priced, markets, provider, collectorVars>>

Transact(t) ==
  \/ t.tx = "deploy" /\ Instantiate(t.of)
  \/ t.tx = "handover" /\ UpdateOwner(t.of)
  \/ t.tx = "set_minter" /\ SetMinter
  \/ t.tx = "enable" /\ EnableAsset(t.of)
  \/ t.tx = "set_addresses" /\ SetAddresses
  \/ t.tx = "set_asset" /\ SetPrice(t.of)
  \/ t.tx = "init_asset" /\ InitAsset(t.of)
  \/ t.tx = "set_limit" /\ SetLimit(t.of)

-----------------------------------------------------------------------------
Perform ==
  /\ status = "running"
  /\ Transact(Script[next])
  /\ next' = next + 1
  /\ status' = IF next = Len(Script) THEN "done" ELSE "running"
  /\ UNCHANGED runs

\* A transaction fails, or its result gets lost after it was executed.
Fail ==
  /\ status = "running" /\ runs < MaxRuns
  /\ status' = "stopped"
  /\ \/ Transact(Script[next])
     \/ UNCHANGED <<chainVars, provider, collectorVars>>
  /\ UNCHANGED <<next, runs>>

NoFunds == [a \in Assets |-> [u \in Parties |-> 0]]

\* Everything anew.  A council that was set as an admin is not the council any
\* longer.
Rerun ==
  /\ status = "stopped"
  /\ status' = "running" /\ next' = 1 /\ runs' = runs + 1
  /\ owners' = << >>
  /\ minterAdmins' = {IF u = "council" THEN "abandoned" ELSE u : u \in minterAdmins}
  /\ priced' = {} /\ markets' = << >> /\ limits' = {}
  /\ provider' = Instantiated(NoAddress)
  /\ funds' = NoFunds /\ enabled' = {}
  /\ collectorConfig' \in InitialConfigs(NoAddress)

-----------------------------------------------------------------------------
(* The revenue. *)

\* execute_withdraw_from_red_bank: what the collector's maTokens are worth.
WithdrawFromRedBank(asset, amount) ==
  /\ Exists("protocol_rewards_collector") /\ Known({"red_bank"})
  /\ asset \in {markets[i] : i \in DOMAIN markets}
  /\ Total(funds[asset], Parties) + amount <= MaxFunds
  /\ funds' = [funds EXCEPT ![asset][Collector] = @ + amount]
  /\ UNCHANGED <<provider, collectorConfig, enabled>>

\* execute_update_config of a contract that has but an owner.  The council
\* leaves the owners alone until the script is done.
NewOwner(c, sender, owner) ==
  /\ status = "done" /\ OwnerOf(c) = sender
  /\ owners' = [owners EXCEPT ![c] = owner]
  /\ UNCHANGED <<minterAdmins, priced, markets, limits, provider, collectorVars>>

\* The two funds: their owner sends any message in their name.
SafetyFundExecute(sender, asset, amount) ==
  /\ OwnerOf("safety_fund") = sender /\ Pay("safety_fund", sender, asset, amount)
  /\ UNCHANGED chainVars
SafetyFundStep(sender) ==
  \/ \E asset \in Assets, amount \in Quantities : SafetyFundExecute(sender, asset, amount)
  \/ \E owner \in NextOwners : NewOwner("safety_fund", sender, owner)

TreasuryExecute(sender, asset, amount) ==
  /\ OwnerOf("treasury") = sender /\ Pay("treasury", sender, asset, amount)
  /\ UNCHANGED chainVars
TreasuryConfig(sender, owner) == NewOwner("treasury", sender, owner)
TreasuryStep(sender) ==
  \/ \E asset \in Assets, amount \in Quantities : TreasuryExecute(sender, asset, amount)
  \/ \E owner \in NextOwners : TreasuryConfig(sender, owner)

IncentivesConfig(sender, owner) == NewOwner("incentives", sender, owner)

\* By anybody.
RevenueStep ==
  \E asset \in Assets :
    \/ \E amount \in Quantities : WithdrawFromRedBank(asset, amount)
    \/ \E amount \in Requested(asset) :
         DistributeProtocolRewards(asset, amount) \/ SwapAssetToUusd(asset, amount)

\* By the owners, the council's messages as proposals that are executed.
CouncilStep ==
  \/ /\ \/ UpdateCollectorConfig("council")
        \/ \E asset \in Assets : UpdateAssetConfig("council", asset)
        \/ \E asset \in Assets, amount \in Quantities : CollectorExecute("council", asset, amount)
        \/ \E params \in AddressParams :
             UpdateAddresses("council", "council", params) /\ UNCHANGED collectorVars
     /\ UNCHANGED chainVars
  \/ \E sender \in {"council"} \cup NextOwners : SafetyFundStep(sender) \/ TreasuryStep(sender)
  \/ \E owner \in NextOwners : IncentivesConfig("council", owner)

Init ==
  /\ status = "running" /\ next = 1 /\ runs = 1
  /\ owners = << >>
  /\ minterAdmins = {Deployer}
  /\ priced = {} /\ markets = << >> /\ limits = {}
  /\ provider = Instantiated(NoAddress)
  /\ funds = NoFunds /\ enabled = {}
  /\ collectorConfig \in InitialConfigs(NoAddress)

Next ==
  \/ Perform
  \/ Fail
  \/ Rerun
  \/ RevenueStep /\ UNCHANGED <<scriptVars, chainVars>>
  \/ CouncilStep /\ UNCHANGED scriptVars

\* The script sends its transactions as long as they succeed, and is started
\* again when it has stopped.
Fairness == WF_vars(Perform) /\ WF_vars(Rerun)

Spec == Init /\ [][Next]_vars /\ Fairness

-----------------------------------------------------------------------------
Owned ==
  {"address_provider", "council", "staking", "safety_fund", "treasury", "incentives",
   "protocol_rewards_collector", "red_bank", "oracle"}

TypeOK ==
  /\ status \in {"running", "stopped", "done"}
  /\ next \in 1 .. Len(Script) + 1 /\ runs \in 1 .. MaxRuns
  /\ minterAdmins \subseteq {Deployer, "council", "abandoned"}
  /\ priced \subseteq Assets /\ markets \in Seq(Assets)
  /\ provider.address \in [Contracts -> Parties \cup Contracts \cup {Deployer, NoAddress}]
  /\ funds \in [Assets -> [Parties -> Nat]] /\ enabled \subseteq Assets

\* When the script is done nothing is left to do and no contract answers to the
\* deployer: the council owns every one and may mint MARS, every address can be
\* looked up, every market is open, and the coins have a price.  (The wallet
\* stays the chain's admin of each contract and can migrate its code.)
HandedOver ==
  [][ status # "done" /\ status' = "done" =>
        /\ \A c \in Owned : OwnerOf(c)' = "council"
        /\ "council" \in minterAdmins'
        /\ Known(Contracts)'
        /\ markets' = InitialAssets
        /\ \A i \in DOMAIN markets' : markets'[i] \in Natives => markets'[i] \in priced' ]_vars

\* However often it was stopped, in the middle of which transaction ever: if
\* the script is started again it gets done.
GetsDone == <>(status = "done")

\* Of an asset without tax that is distributed, the safety fund and the
\* treasury get no more than their shares, and staking gets all the rest.
RewardsAreShared ==
  [][ \A asset \in Assets \ Natives :
        LET gained(c) == funds'[asset][QueryAddress(c)] - funds[asset][QueryAddress(c)]
            spent == funds[asset][Collector] - funds'[asset][Collector]
            fees == collectorConfig.fees
        IN  Known(Recipients)
              /\ Cardinality({QueryAddress(c) : c \in Recipients} \ {Collector, "council"}) = 3
              /\ gained("staking") > 0 =>
                /\ gained("safety_fund") * One <= spent * fees.safety_fund
                /\ gained("treasury") * One <= spent * fees.treasury
                /\ gained("staking") = spent - (gained("safety_fund") + gained("treasury")) ]_vars

\* The collector can distribute all of a coin it has: the parts and the taxes
\* on them together cost no more than the amount.
DistributionFits ==
  \A asset \in enabled \cap Natives, amount \in 1 .. MaxFunds :
    DistributionCost(asset, amount) <= amount

=============================================================================
