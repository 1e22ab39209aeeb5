------------------------------- MODULE Oracle -------------------------------
(***************************************************************************)
(* The oracle: a source of prices for each asset, set by the owner, and    *)
(* the snapshots of cumulative prices from which time-weighted averages    *)
(* are taken.  Anybody may ask for a snapshot.                             *)
(*                                                                         *)
(* Astroport's pairs and the chain's exchange rates move by themselves.  A *)
(* pair adds its price to a cumulative price with every second, which      *)
(* starts again from zero at Wrap, 2^128 in the code.                      *)
(***************************************************************************)
EXTENDS FixedPoint, Retaining, FiniteSets, Sequences, SequencesExt

CONSTANTS
  Owners,         \* the addresses that may own the oracle
  Assets,         \* the assets that may have a source
  Ust, Luna,      \* two of them, which the code knows by name
  Offered,        \* by asset: the sources an owner may ask for
  Configured,     \* bound: by asset, the source it has to begin with, if any
  Pairs,          \* the pairs of Astroport
  Pools,          \* by pair: its two assets, their amounts and the shares
  Rates,          \* by pair: the prices in uusd, Decimals, it may have
  LunaRates,      \* the prices of Luna in uusd, Decimals
  HubRates,       \* the prices of staked Luna in Luna, Decimals
  Precision,      \* 10^TWAP_PRECISION
  Wrap,           \* the width of a cumulative price
  NoSource, NoPrice,
  MaxTime         \* bound: the seconds

\* PriceSource, with its labels: the fields a source has.
SourceFields ==
  [fixed |-> {"price"}, native |-> {}, astroport_spot |-> {"pair"},
   astroport_twap |-> {"pair", "window_size", "tolerance"},
   astroport_liquidity_token |-> {"pair"}, stluna |-> {}, lunax |-> {}]
IsSource(s) == s.kind \in DOMAIN SourceFields /\ DOMAIN s = {"kind"} \cup SourceFields[s.kind]
Hubs == {"stluna", "lunax"}

ASSUME OracleAssumptions ==
  /\ DOMAIN Configured = Assets
  /\ \A a \in Assets : \A s \in Offered[a] \cup ({Configured[a]} \ {NoSource}) :
       /\ IsSource(s)
       /\ s.kind \in {"astroport_spot", "astroport_twap", "astroport_liquidity_token"} => s.pair \in Pairs
       /\ s.kind = "astroport_twap" => s.window_size \in Nat /\ s.tolerance \in Nat
  /\ \A a \in Assets : \A s \in {Configured[a]} \ {NoSource} :
       s.kind \in {"astroport_spot", "astroport_twap"} =>
         {Pools[s.pair].assets[i] : i \in {1, 2}} = {Ust, a}
  /\ \A p \in Pairs : /\ Pools[p].assets[1] # Pools[p].assets[2]
                      /\ Pools[p].share \in Nat /\ \A i \in {1, 2} : Pools[p].amounts[i] \in Nat
  /\ IsFiniteSet(Assets) /\ NoPrice \notin Nat
  /\ Ust \in Assets /\ Luna \in Assets
  /\ Rates \in [Pairs -> SUBSET (Nat \ {0})] /\ LunaRates \subseteq Nat /\ HubRates \subseteq Nat
  /\ Precision \in Nat \ {0} /\ Wrap \in Nat \ {0} /\ MaxTime \in Nat

VARIABLES
  now,            \* seconds of the block
  owner,          \* CONFIG.owner
  sources,        \* PRICE_SOURCES
  snapshots,      \* ASTROPORT_TWAP_SNAPSHOTS; of no asset is as of none
  spot,           \* by pair: its price
  cumulative,     \* by pair: the cumulative price of either asset in the other
  lunaRate,       \* the chain's price of Luna
  hubRate,        \* by kind of staked Luna, what its hub says it is worth in Luna
  past,           \* history: by pair, its price in each second so far
  pairSince       \* history: by asset, when its source last changed its pair

oracleVars == <<owner, sources, snapshots, pairSince>>
marketVars == <<spot, cumulative, lunaRate, hubRate, past>>
vars == <<now, oracleVars, marketVars>>

-----------------------------------------------------------------------------
(* Sources of prices.  A source is a record with its kind. *)

IsTwap(source) == source # NoSource /\ source.kind = "astroport_twap"
PairOf(source) ==
  IF source # NoSource /\ "pair" \in DOMAIN source THEN source.pair ELSE NoSource

\* assert_astroport_pool_assets
PoolHas(pair, asset) == {Pools[pair].assets[1], Pools[pair].assets[2]} = {Ust, asset}

\* Of the two assets of a pair the one that is not uusd, and how the pair
\* prices either of them in the other.
NotUst(pair) == IF Pools[pair].assets[1] = Ust THEN 2 ELSE 1
PairPrice(pair, i) == IF Pools[pair].assets[i] = Ust THEN Div(One, spot[pair]) ELSE spot[pair]

\* query_astroport_spot_price (a simulated swap and its commission) and
\* query_astroport_cumulative_price: of the asset that is not uusd.
SpotPrice(pair) == PairPrice(pair, NotUst(pair))
CumulativePrice(pair) == cumulative[pair][NotUst(pair)]

UpdateConfig(sender) ==
  /\ sender = owner
  /\ owner' \in Owners
  /\ UNCHANGED <<now, sources, snapshots, pairSince, marketVars>>

\* The snapshots taken for an earlier source stay.
SetAsset(sender, asset, source) ==
  /\ sender = owner
  /\ source.kind \in {"astroport_spot", "astroport_twap"} => PoolHas(source.pair, asset)
  /\ sources' = [sources EXCEPT ![asset] = source]
  /\ pairSince' = [pairSince EXCEPT ![asset] =
                     IF PairOf(source) = PairOf(sources[asset]) THEN @ ELSE now]
  /\ UNCHANGED <<now, owner, snapshots, marketVars>>

-----------------------------------------------------------------------------
(* Snapshots. *)

\* A snapshot is not taken within the tolerance of the last one.
Due(asset, taken) ==
  taken = << >> \/ now - Last(taken).timestamp >= sources[asset].tolerance

\* For StillOfUse: what is older than the window.
WithinWindow(asset, snapshot) == now - snapshot.timestamp <= sources[asset].window_size

StillOfUse(asset, snapshot) ==
  now - snapshot.timestamp <= sources[asset].window_size + sources[asset].tolerance

\* For Recorded: as if the last snapshot did not matter.
RecordedAnyway(asset, taken) ==
  Append(Retained(taken, {i \in DOMAIN taken : StillOfUse(asset, taken[i])}),
         [timestamp |-> now, price_cumulative |-> CumulativePrice(sources[asset].pair)])

Recorded(asset, taken) ==
  IF ~Due(asset, taken) THEN taken
  ELSE Append(Retained(taken, {i \in DOMAIN taken : StillOfUse(asset, taken[i])}),
              [timestamp |-> now, price_cumulative |-> CumulativePrice(sources[asset].pair)])

\* Of several assets, or of none if one of them has no TWAP source.
RecordTwapSnapshots(assets) ==
  /\ \A a \in assets : IsTwap(sources[a])
  /\ snapshots' = [a \in Assets |-> IF a \in assets THEN Recorded(a, snapshots[a])
                                    ELSE snapshots[a]]
  /\ UNCHANGED <<now, owner, sources, pairSince, marketVars>>

-----------------------------------------------------------------------------
(* Prices. *)

diff(a, b) == IF a > b THEN a - b ELSE b - a

PeriodDiff(snapshot, window, time) == diff(time - snapshot.timestamp, window)

Eligible(source, snapshot, time) ==
  PeriodDiff(snapshot, source.window_size, time) <= source.tolerance

\* The places of the snapshots within the tolerance: an average is taken from the
\* first of them, the oldest.
Selectable(source, taken, time) == {i \in DOMAIN taken : Eligible(source, taken[i], time)}
Oldest(taken, places) == taken[Min(places)]

\* For Delta: as if nothing ever wrapped around.
DeltaUnwrapped(current, previous) == diff(current, previous)

\* A wrap is noticed by a decrease, and counted from the greatest number.
Delta(current, previous) ==
  IF current >= previous THEN current - previous ELSE current + ((Wrap - 1) - previous)

\* The period is zero if the tolerance reaches the window: the code panics.
TwapPrice(asset) ==
  LET selectable == Selectable(sources[asset], snapshots[asset], now)
      previous == Oldest(snapshots[asset], selectable)
      period == now - previous.timestamp
      delta == Delta(CumulativePrice(sources[asset].pair), previous.price_cumulative)
  IN  IF selectable = {} THEN NoPrice
      ELSE IF period = 0 THEN NoPrice
      ELSE FromRatio(delta, Precision * period)

\* A share of a pool at some prices of its assets.
ShareValue(pool, price) ==
  IF pool.share = 0 \/ \E i \in {1, 2} : price[pool.assets[i]] = NoPrice THEN NoPrice
  ELSE FromRatio(Mul(pool.amounts[1], price[pool.assets[1]])
                   + Mul(pool.amounts[2], price[pool.assets[2]]), pool.share)

\* The chain's rate in uusd of a coin of its own.
NativeRate(asset) == IF asset = Ust THEN One ELSE lunaRate

\* query_asset_price, given the prices that it asks the oracle itself for.
PriceGiven(asset, below) ==
  LET s == sources[asset]
  IN  CASE s.kind = "fixed" -> s.price
        [] s.kind = "native" -> NativeRate(asset)
        [] s.kind = "astroport_spot" -> SpotPrice(s.pair)
        [] s.kind = "astroport_twap" -> TwapPrice(asset)
        [] s.kind = "astroport_liquidity_token" -> ShareValue(Pools[s.pair], below)
        [] s.kind \in Hubs ->
             IF below[Luna] = NoPrice THEN NoPrice ELSE Mul(hubRate[s.kind], below[Luna])

\* Through so many sources that refer to other assets.
PriceThrough[depth \in 0 .. Cardinality(Assets)] ==
  [a \in Assets |-> IF depth = 0 \/ sources[a] = NoSource THEN NoPrice
                    ELSE PriceGiven(a, PriceThrough[depth - 1])]

\* query_asset_price_source
QueryAssetPriceSource(asset) == sources[asset]

\* query_asset_price: sources that refer to each other in a circle never answer.
QueryAssetPrice == PriceThrough[Cardinality(Assets)]

\* helpers::query_price, through which the contracts ask: one uusd is one uusd.
AssetPrice == [QueryAssetPrice EXCEPT ![Ust] = One]

\* QueryMsg: what may be asked; an asset and its reference are one here.
Questions ==
  [ask : {"config"}]
  \cup [ask : {"asset_price_source", "asset_price", "asset_price_by_reference"}, asset : Assets]

Answer(q) ==
  CASE q.ask = "config"             -> owner
    [] q.ask = "asset_price_source" -> QueryAssetPriceSource(q.asset)
    [] q.ask \in {"asset_price", "asset_price_by_reference"} -> QueryAssetPrice[q.asset]

-----------------------------------------------------------------------------
(* The markets. *)

Tick ==
  /\ now < MaxTime
  /\ now' = now + 1
  /\ cumulative' = [p \in Pairs |-> [i \in {1, 2} |->
                      (cumulative[p][i] + Mul(Precision, PairPrice(p, i))) % Wrap]]
  /\ past' = [p \in Pairs |-> Append(past[p], spot[p])]
  /\ spot' \in {r \in [Pairs -> UNION {Rates[p] : p \in Pairs}] : \A p \in Pairs : r[p] \in Rates[p]}
  /\ lunaRate' \in LunaRates
  /\ hubRate' \in [Hubs -> HubRates]
  /\ UNCHANGED oracleVars

Init ==
  /\ now = 0
  /\ owner \in Owners
  /\ sources = Configured
  /\ snapshots = [a \in Assets |-> << >>]
  /\ pairSince = [a \in Assets |-> 0]
  /\ spot \in {r \in [Pairs -> UNION {Rates[p] : p \in Pairs}] : \A p \in Pairs : r[p] \in Rates[p]}
  /\ cumulative = [p \in Pairs |-> [i \in {1, 2} |-> 0]]
  /\ past = [p \in Pairs |-> << >>]
  /\ lunaRate \in LunaRates
  /\ hubRate \in [Hubs -> HubRates]

OwnerStep(u) ==
  \/ UpdateConfig(u)
  \/ \E a \in Assets : \E s \in Offered[a] : SetAsset(u, a, s)

Next ==
  \/ Tick
  \/ \E u \in Owners : OwnerStep(u)
  \/ \E assets \in SUBSET Assets : RecordTwapSnapshots(assets)

Spec == Init /\ [][Next]_vars

-----------------------------------------------------------------------------
TypeOK ==
  /\ now \in 0 .. MaxTime /\ owner \in Owners
  /\ \A a \in Assets : sources[a] \in Offered[a] \cup {Configured[a]}
  /\ snapshots \in [Assets -> Seq([timestamp : 0 .. now, price_cumulative : 0 .. Wrap - 1])]
  /\ cumulative \in [Pairs -> [{1, 2} -> 0 .. Wrap - 1]]

\* However often anybody asks, there are never more snapshots than the windows
\* hold at the distance of the tolerances, of any source the asset ever had.
SnapshotsAreBounded ==
  \A a \in Assets :
    LET twaps == {s \in Offered[a] \cup {Configured[a]} : IsTwap(s)}
    IN  \A least \in {s.tolerance : s \in twaps} :
        \A span \in {s.window_size + s.tolerance : s \in twaps} :
          (\A s \in twaps : s.tolerance >= least /\ s.window_size + s.tolerance <= span)
            => least * (Len(snapshots[a]) - 1) <= span

\* The prices of a pair in the seconds an average may cover.
SeenBy(source) ==
  {past[source.pair][i] : i \in {j \in 1 .. now : now - j < source.window_size + source.tolerance}}

\* A price with no more places than a cumulative price has.
Coarse(price) == FromRatio(Mul(Precision, price), Precision)

\* An average taken since the pair was set lies between the prices of the pair
\* in the window, but for the places a cumulative price has not and for the unit
\* of it that a wrap costs, and so does a share of the pool.
AveragesWithinWindow ==
  \A a \in Assets :
    LET source == QueryAssetPriceSource(a)
    IN  IsTwap(source) /\ AssetPrice[a] # NoPrice
          /\ Oldest(snapshots[a], Selectable(source, snapshots[a], now)).timestamp > pairSince[a] =>
        \E low, high \in SeenBy(source) :
          LET slack == CeilDiv(One, Precision)
              AtPrice(p) == ShareValue(Pools[source.pair], [AssetPrice EXCEPT ![a] = p])
          IN  /\ Coarse(low) - slack <= AssetPrice[a] /\ AssetPrice[a] <= high
              /\ \A lp \in Assets :
                   PairOf(QueryAssetPriceSource(lp)) = PairOf(source)
                     /\ QueryAssetPriceSource(lp).kind = "astroport_liquidity_token"
                     /\ AssetPrice[lp] # NoPrice =>
                       /\ AtPrice(SmallerOf(AssetPrice[a], low)) <= AssetPrice[lp]
                       /\ AssetPrice[lp] <= AtPrice(high)

\* A snapshot that was taken, and what is dropped for it, changes no average
\* that could be taken without it, now or later.
RecordingKeepsAverages ==
  [][ \A a \in Assets :
        snapshots'[a] # snapshots[a] =>
          \A time \in now .. MaxTime + 1 :
            LET before == Selectable(sources[a], snapshots[a], time)
                after == Selectable(sources[a], snapshots'[a], time)
            IN  before # {} =>
                  after # {} /\ Oldest(snapshots'[a], after) = Oldest(snapshots[a], before) ]_vars

=============================================================================
