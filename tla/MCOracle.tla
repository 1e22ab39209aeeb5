------------------------------ MODULE MCOracle ------------------------------
(***************************************************************************)
(* An oracle for a token with two pairs of which the owner may take        *)
(* averages, the shares of one of them, and staked Luna.                   *)
(***************************************************************************)
EXTENDS Oracle

CONSTANTS mars, luna, stluna, lp, ust, council

Twap(p, w, t) ==
  [kind |-> "astroport_twap", pair |-> p, window_size |-> w, tolerance |-> t]
Spot(p) == [kind |-> "astroport_spot", pair |-> p]

MCAssets == {mars, luna, stluna, lp, ust}
MCPairs == {"deep", "thin"}
MCPools ==
  [p \in MCPairs |-> [assets |-> IF p = "deep" THEN <<mars, ust>> ELSE <<ust, mars>>,
                      amounts |-> <<2, 3>>, share |-> IF p = "deep" THEN 2 ELSE 0]]
MCRates == [p \in MCPairs |-> IF p = "deep" THEN {1, 4} ELSE {2}]
MCOffered ==
  [a \in MCAssets |-> IF a = mars THEN {Twap("deep", 2, 1), Twap("thin", 3, 1), Spot("deep")}
                      ELSE {}]

MCConfigured ==
  [a \in MCAssets |->
     CASE a = mars -> NoSource
       [] a = ust -> [kind |-> "fixed", price |-> 2]
       [] a = luna -> [kind |-> "native"]
       [] a = stluna -> [kind |-> "stluna"]
       [] a = lp -> [kind |-> "astroport_liquidity_token", pair |-> "deep"]]

-----------------------------------------------------------------------------
(* Prices travel as texts; here with three places. *)
Text ==
  INSTANCE DecimalText WITH One <- 1000, Places <- 3, Tens <- [i \in 0 .. 3 |-> 10 ^ i],
                            MaxAtomics <- 4999, NotADecimal <- NoPrice

ASSUME TextsAreDecimals ==
  /\ Text!DecimalTextAssumptions
  /\ \A d \in 0 .. 4999 : Text!Transmitted(d) = d
  /\ Text!Format(1050) = [whole |-> 1, parts |-> << [number |-> 5, digits |-> 2] >>]
  /\ Text!Parse([whole |-> 1, parts |-> << [number |-> 500, digits |-> 4] >>]) = NoPrice
  /\ Text!Parse([whole |-> 5, parts |-> << >>]) = NoPrice

=============================================================================
