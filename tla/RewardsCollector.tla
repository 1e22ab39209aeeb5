-------------------------- MODULE RewardsCollector --------------------------
(***************************************************************************)
(* The protocol rewards collector, with the funds it pays into.            *)
(*                                                                         *)
(* Its balance of an asset is divided between the safety fund, the         *)
(* treasury and the staking contract, at addresses it asks for each time.  *)
(* Safety fund and treasury hold what they receive until their owners have *)
(* them send it, as the owner can with the collector.  Astroport, where    *)
(* assets are exchanged for uusd, answers with any amount.                 *)
(***************************************************************************)
EXTENDS AddressProvider, Taxes, LedgerSums

CONSTANTS
  Assets,               \* the assets it may hold
  Uusd,                 \* the one it exchanges the others for
  Natives,              \* those that are coins of the chain
  Parties,              \* the addresses that hold assets
  Collector,            \* the address of the collector
  Quantities,           \* the amounts asked for
  FeeConfigs,           \* the shares an owner may ask for
  AddressParams,        \* the addresses an owner may set
  MaxUusd               \* bound: the uusd there is after an exchange

ASSUME CollectorAssumptions ==
  /\ Uusd \in Assets /\ Natives \subseteq Assets
  /\ Collector \in Parties /\ Quantities \subseteq Nat /\ MaxUusd \in Nat
  /\ FeeConfigs \subseteq [safety_fund : Nat, treasury : Nat]

VARIABLES
  funds,                \* by asset: the balance of each party
  collectorConfig,      \* CONFIG: owner and shares
  enabled               \* the assets whose ASSET_CONFIG enables distribution

collectorVars == <<funds, collectorConfig, enabled>>

\* get_asset_balance, of a token or of a coin.
Balance(asset, u) == funds[asset][u]

\* A message without an amount asks for the whole balance.
Requested(asset) == Quantities \cup {Balance(asset, Collector)}

\* Config::validate
ValidConfig(fees) ==
  /\ AtMostOne(fees.safety_fund) /\ AtMostOne(fees.treasury)
  /\ fees.safety_fund + fees.treasury <= One

\* instantiate
InitialConfigs(owner) ==
  {[owner |-> owner, fees |-> fees] : fees \in {f \in FeeConfigs : ValidConfig(f)}}

UpdateCollectorConfig(sender) ==
  /\ sender = collectorConfig.owner
  /\ \E fees \in FeeConfigs :
       ValidConfig(fees) /\ collectorConfig' = [collectorConfig EXCEPT !.fees = fees]
  /\ UNCHANGED <<provider, funds, enabled>>

UpdateAssetConfig(sender, asset) ==
  /\ sender = collectorConfig.owner
  /\ enabled' \in {enabled \cup {asset}, enabled \ {asset}}
  /\ UNCHANGED <<provider, funds, collectorConfig>>

-----------------------------------------------------------------------------
(* Distribution. *)

\* For FeeShare: in favour of the fund.
FeeShareRoundedUp(amount, share) == CeilDiv(amount * share, One)

FeeShare(amount, share) == Mul(amount, share)

\* The contracts that receive a part of an amount: two shares and the rest.
Recipients == {"safety_fund", "treasury", "staking"}

Parts(amount) ==
  LET fund == FeeShare(amount, collectorConfig.fees.safety_fund)
      treasury == FeeShare(amount, collectorConfig.fees.treasury)
  IN  [c \in Recipients |-> CASE c = "safety_fund" -> fund
                              [] c = "treasury" -> treasury
                              [] c = "staking" -> amount - (fund + treasury)]

\* Asset::Native, as opposed to Asset::Cw20.
IsNative(asset) == asset \in Natives

\* build_send_asset_with_tax_deduction_msg: what a part becomes on its way.
Sent(asset, part) == IF IsNative(asset) THEN DeductTax(part) ELSE part
Cost(asset, sent) == CostOf(sent, IsNative(asset))

\* What sending the parts of an amount costs the collector.
DistributionCost(asset, amount) ==
  LET cost == [c \in Recipients |-> Cost(asset, Sent(asset, Parts(amount)[c]))]
  IN  Total(cost, Recipients)

\* A part of nothing is not sent; a part of which the tax leaves nothing is
\* refused by the chain, and with it the distribution.
DistributeProtocolRewards(asset, amount) ==
  /\ asset \in enabled
  /\ amount <= Balance(asset, Collector)
  /\ Known(Recipients)
  /\ \A c \in Recipients :
       /\ Parts(amount)[c] >= 0
       /\ Parts(amount)[c] > 0 => Sent(asset, Parts(amount)[c]) > 0
  /\ DistributionCost(asset, amount) <= Balance(asset, Collector)
  /\ LET gain(u) == [c \in Recipients |-> IF QueryAddress(c) # u THEN 0
                                          ELSE Sent(asset, Parts(amount)[c])]
     IN  funds' = [funds EXCEPT ![asset] =
           [u \in Parties |->
              IF u = Collector THEN @[u] - DistributionCost(asset, amount)
              ELSE @[u] + Total(gain(u), Recipients)]]
  /\ UNCHANGED <<provider, collectorConfig, enabled>>

\* What an exchange takes: nothing is kept for the tax on a coin.
SwapCost(asset, amount) == Cost(asset, amount)

\* execute_swap: some of an asset that is there for another one, of which the
\* pair pays any amount, or refuses.
ExecuteSwap(asset, ask, amount) ==
  /\ asset # ask
  /\ Balance(asset, Collector) > 0
  /\ amount > 0 /\ amount <= Balance(asset, Collector)
  /\ SwapCost(asset, amount) <= Balance(asset, Collector)
  /\ \E bought \in Quantities :
       /\ Total(funds[ask], Parties) + bought <= MaxUusd
       /\ funds' = [funds EXCEPT ![asset][Collector] = @ - SwapCost(asset, amount),
                                 ![ask][Collector] = @ + bought]

SwapAssetToUusd(asset, amount) ==
  ExecuteSwap(asset, Uusd, amount) /\ UNCHANGED <<provider, collectorConfig, enabled>>

-----------------------------------------------------------------------------
(* What a contract's owner has it send. *)

Pay(contract, recipient, asset, amount) ==
  /\ contract # recipient
  /\ amount > 0 /\ Cost(asset, amount) <= Balance(asset, contract)
  /\ funds' = [funds EXCEPT ![asset][contract] = @ - Cost(asset, amount),
                            ![asset][recipient] = @ + amount]
  /\ UNCHANGED <<provider, collectorConfig, enabled>>

\* execute_cosmos_msg: of the messages an owner may send, one that pays it.
CollectorExecute(sender, asset, amount) ==
  sender = collectorConfig.owner /\ Pay(Collector, sender, asset, amount)

-----------------------------------------------------------------------------
(* What the collector answers when it is asked. *)

CollectorQuestions == [ask : {"config"}] \cup [ask : {"asset_config"}, asset : Assets]

\* An asset that was never configured is not distributed.
CollectorAnswer(q) ==
  CASE q.ask = "config"       -> collectorConfig
    [] q.ask = "asset_config" -> [enabled_for_distribution |-> q.asset \in enabled]

=============================================================================
