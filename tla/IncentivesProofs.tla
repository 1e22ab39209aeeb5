-------------------------- MODULE IncentivesProofs --------------------------
(***************************************************************************)
(* What holds of the incentives contract for any holders, maTokens,        *)
(* emissions and supplies: no index runs ahead, rewards move with time     *)
(* only, and together the holders gain no more than is emitted.            *)
(***************************************************************************)
EXTENDS Incentives, CommonProofs

\* A maToken without an incentive has no indexes yet: its first one starts at
\* zero, where every user's is.
IndexesStartAtZero ==
  \A t \in MaTokens, u \in Users : incentives[t] = NoIncentive => userIndices[t][u] = 0

IncentivesInv ==
  /\ TypeOK
  /\ IndexesDoNotRunAhead
  /\ IndexesStartAtZero

-----------------------------------------------------------------------------
(* The index of an incentive at a given time. *)

IndexAt(i, supply, now) ==
  IF supply > 0
  THEN i.index + FromRatio(i.emission_per_second * (now - i.last_updated), supply)
  ELSE i.index

UpdatedAt(i, supply, now) ==
  [emission_per_second |-> i.emission_per_second,
   index |-> IndexAt(i, supply, now), last_updated |-> now]

\* An index does not fall as time passes.
LEMMA IndexGrows ==
  ASSUME NEW i \in AssetIncentives, NEW supply \in Nat, NEW now \in Nat, NEW later \in Nat,
         i.last_updated <= now, now <= later
  PROVE  /\ IndexAt(i, supply, now) \in Nat /\ IndexAt(i, supply, later) \in Nat
         /\ i.index <= IndexAt(i, supply, now)
         /\ IndexAt(i, supply, now) <= IndexAt(i, supply, later)
<1>1. PICK e, x, l : e = i.emission_per_second /\ x = i.index /\ l = i.last_updated
  OBVIOUS
<1>2. e \in Nat /\ x \in Nat /\ l \in Nat /\ l <= now
  BY <1>1 DEF AssetIncentives
<1>3. PICK k, m : k = e * (now - l) /\ m = e * (later - l)
  OBVIOUS
<1>4. k \in Nat /\ m \in Nat /\ k <= m
  <2>1. now - l \in Nat /\ later - l \in Nat /\ now - l <= later - l
    BY <1>2
  <2>2. PICK a, b : a = now - l /\ b = later - l
    OBVIOUS
  <2>3. a \in Nat /\ b \in Nat /\ a <= b
    BY <2>1, <2>2
  <2>4. e * a \in Nat /\ e * b \in Nat /\ e * a <= e * b
    BY <1>2, <2>3, ProductType
  <2> QED
    BY <1>3, <2>2, <2>4
<1>5. CASE supply > 0
  <2>1. supply \in Nat \ {0}
    BY <1>5
  <2>2. /\ FromRatio(k, supply) \in Nat /\ FromRatio(m, supply) \in Nat
        /\ FromRatio(k, supply) <= FromRatio(m, supply)
    BY <1>4, <2>1, FromRatioType, FromRatioMono
  <2>3. /\ IndexAt(i, supply, now) = x + FromRatio(k, supply)
        /\ IndexAt(i, supply, later) = x + FromRatio(m, supply)
    BY <1>1, <1>3, <1>5 DEF IndexAt
  <2> QED
    BY <1>1, <1>2, <2>2, <2>3
<1>6. CASE ~ (supply > 0)
  BY <1>1, <1>2, <1>6 DEF IndexAt
<1> QED
  BY <1>5, <1>6

\* What asset_incentive_update_index makes of an incentive.
LEMMA UpdatedIs ==
  ASSUME NEW i \in AssetIncentives, NEW supply \in Nat, time \in Nat, i.last_updated <= time
  PROVE  /\ UpdatedIncentive(i, supply) = UpdatedAt(i, supply, time)
         /\ UpdatedAt(i, supply, time) \in AssetIncentives
<1>1. PICK to, now : to = IndexAt(i, supply, time) /\ now = time
  OBVIOUS
<1>2. to \in Nat /\ now \in Nat
  <2>1. time <= time
    OBVIOUS
  <2> QED
    BY <1>1, <2>1, IndexGrows
<1>3. PICK j : j = [i EXCEPT !.index = to, !.last_updated = now]
  OBVIOUS
<1>4. /\ j \in AssetIncentives
      /\ j.emission_per_second = i.emission_per_second /\ j.index = to /\ j.last_updated = now
  BY <1>2, <1>3 DEF AssetIncentives
<1>5. j = UpdatedAt(i, supply, time)
  BY <1>1, <1>4 DEF UpdatedAt, AssetIncentives
<1>6. UpdatedIncentive(i, supply) = j
  <2>1. UpdatedIncentive(i, supply) =
          [i EXCEPT !.index = IF supply > 0
             THEN i.index + FromRatio(i.emission_per_second * (time - i.last_updated), supply)
             ELSE i.index, !.last_updated = time]
    BY Zenon DEF UpdatedIncentive, AssetIncentives
  <2> QED
    BY <1>1, <1>3, <2>1, Zenon DEF IndexAt
<1> QED
  BY <1>4, <1>5, <1>6

\* What was brought to the present is there already, whatever the supply becomes
\* and the emission is set to.
LEMMA IndexSettled ==
  ASSUME NEW i \in AssetIncentives, NEW supply \in Nat, NEW now \in Nat, i.last_updated = now
  PROVE  IndexAt(i, supply, now) = i.index
<1>1. i.emission_per_second \in Nat /\ i.index \in Nat
  BY DEF AssetIncentives
<1>2. i.emission_per_second * (now - i.last_updated) = 0
  BY <1>1
<1>3. CASE supply > 0
  <2>1. supply \in Nat \ {0} /\ 0 * One = 0
    BY <1>3, OneAssumption
  <2>2. (0 * One) \div supply = 0
    BY <2>1
  <2> QED
    BY <1>1, <1>2, <2>2 DEF IndexAt, FromRatio
<1> QED
  BY <1>3 DEF IndexAt

-----------------------------------------------------------------------------
(* What a holder is due on a maToken. *)

Due(i, supply, balance, from, now) ==
  IF i # NoIncentive /\ balance > 0
  THEN AccruedRewards(balance, from, IndexAt(i, supply, now))
  ELSE 0

\* A holder is due nothing at the index it was given.
LEMMA DueAtIndex ==
  ASSUME NEW balance \in Nat, NEW from \in Nat
  PROVE  AccruedRewards(balance, from, from) = 0
  BY MulType DEF AccruedRewards

\* Nothing accrues on nothing.
LEMMA DueOnNothing ==
  ASSUME NEW from \in Nat, NEW to \in Nat
  PROVE  AccruedRewards(0, from, to) = 0
<1>1. 0 * from = 0 /\ 0 * to = 0 /\ 0 \div One = 0
  BY OneAssumption
<1> QED
  BY <1>1 DEF AccruedRewards, Mul

LEMMA AccruedType ==
  ASSUME NEW balance \in Nat, NEW from \in Nat, NEW to \in Nat, from <= to
  PROVE  AccruedRewards(balance, from, to) \in Nat
  BY MulType, MulMono DEF AccruedRewards

\* A due is an amount and grows with time.
LEMMA DueGrows ==
  ASSUME NEW i \in AssetIncentives \cup {NoIncentive}, NEW supply \in Nat,
         NEW balance \in Nat, NEW from \in Nat, NEW now \in Nat, NEW later \in Nat,
         i # NoIncentive => i.last_updated <= now /\ from <= i.index, now <= later
  PROVE  /\ Due(i, supply, balance, from, now) \in Nat
         /\ Due(i, supply, balance, from, later) \in Nat
         /\ Due(i, supply, balance, from, now) <= Due(i, supply, balance, from, later)
<1>1. CASE i # NoIncentive /\ balance > 0
  <2>1. i \in AssetIncentives /\ i.last_updated <= now /\ from <= i.index /\ i.index \in Nat
    BY <1>1 DEF AssetIncentives
  <2>2. PICK x, y : x = IndexAt(i, supply, now) /\ y = IndexAt(i, supply, later)
    OBVIOUS
  <2>3. x \in Nat /\ y \in Nat /\ i.index <= x /\ x <= y
    BY <2>1, <2>2, IndexGrows
  <2>4. from <= x /\ from <= y
    BY <2>1, <2>3
  <2>5. AccruedRewards(balance, from, x) \in Nat /\ AccruedRewards(balance, from, y) \in Nat
    BY <2>3, <2>4, AccruedType
  <2>6. Mul(balance, x) <= Mul(balance, y) /\ Mul(balance, x) \in Nat /\ Mul(balance, y) \in Nat
    <3>1. balance <= balance
      OBVIOUS
    <3> QED
      BY <2>3, <3>1, MulMono, MulType
  <2> QED
    BY <1>1, <2>2, <2>5, <2>6, MulType DEF Due, AccruedRewards
<1>2. CASE ~ (i # NoIncentive /\ balance > 0)
  BY <1>2 DEF Due
<1> QED
  BY <1>1, <1>2

-----------------------------------------------------------------------------
(* What has accrued, and what reports and settings make of it. *)

DueOn(t, u) == Due(incentives[t], Supply(t), balances[t][u], userIndices[t][u], time)

AccruedIsDue ==
  /\ \A t \in MaTokens, u \in Users : Accrued(u)[t] = DueOn(t, u) /\ DueOn(t, u) \in Nat
  /\ \A t \in MaTokens : Supply(t) \in Nat
  /\ \A u \in Users : /\ Total(Accrued(u), MaTokens) \in Nat
                      /\ QueryUserUnclaimedRewards(u)
                           = unclaimed[u] + Total(Accrued(u), MaTokens)

LEMMA AccruedDue == IncentivesInv => AccruedIsDue
<1> SUFFICES ASSUME IncentivesInv
             PROVE  AccruedIsDue
  OBVIOUS
<1> USE IncentivesAssumptions
<1>1. \A t \in MaTokens : Supply(t) \in Nat
  <2>1. ASSUME NEW t \in MaTokens
        PROVE  Supply(t) \in Nat
    <3>1. \A u \in Users : balances[t][u] \in Nat
      BY DEF IncentivesInv, TypeOK
    <3> QED
      BY <3>1, TotalType DEF Supply
  <2> QED
    BY <2>1
<1>2. ASSUME NEW t \in MaTokens, NEW u \in Users
      PROVE  Accrued(u)[t] = DueOn(t, u) /\ DueOn(t, u) \in Nat
  <2>1. /\ time \in Nat /\ balances[t][u] \in Nat /\ userIndices[t][u] \in Nat
        /\ incentives[t] \in AssetIncentives \cup {NoIncentive}
    BY DEF IncentivesInv, TypeOK
  <2>2. incentives[t] # NoIncentive =>
          incentives[t].last_updated <= time /\ userIndices[t][u] <= incentives[t].index
    BY DEF IncentivesInv, TypeOK, IndexesDoNotRunAhead, Incentivized, QueryAssetIncentive
  <2>3. time <= time
    BY <2>1
  <2>4. DueOn(t, u) \in Nat
    BY <1>1, <2>1, <2>2, <2>3, DueGrows DEF DueOn
  <2>5. CASE t \in Held(u)
    <3>1. incentives[t] # NoIncentive /\ incentives[t] \in AssetIncentives /\ balances[t][u] > 0
      BY <2>1, <2>5 DEF Held, Incentivized
    <3>2. UpdatedIncentive(incentives[t], Supply(t)).index = IndexAt(incentives[t], Supply(t), time)
      <4>1. PICK i, n : i = incentives[t] /\ n = Supply(t)
        OBVIOUS
      <4>2. i \in AssetIncentives /\ n \in Nat /\ time \in Nat /\ i.last_updated <= time
        BY <1>1, <2>1, <2>2, <3>1, <4>1
      <4>3. UpdatedIncentive(i, n) = UpdatedAt(i, n, time)
        BY <4>2, UpdatedIs
      <4> QED
        BY <4>1, <4>3 DEF UpdatedAt
    <3> QED
      BY <2>4, <2>5, <3>1, <3>2 DEF Accrued, AccruedOn, DueOn, Due
  <2>6. CASE t \notin Held(u)
    BY <2>4, <2>6 DEF Accrued, Held, Incentivized, DueOn, Due
  <2> QED
    BY <2>5, <2>6
<1>3. ASSUME NEW u \in Users
      PROVE  /\ Total(Accrued(u), MaTokens) \in Nat
             /\ QueryUserUnclaimedRewards(u) = unclaimed[u] + Total(Accrued(u), MaTokens)
  BY <1>2, TotalType DEF QueryUserUnclaimedRewards, UserUnclaimedRewards
<1> QED
  BY <1>1, <1>2, <1>3 DEF AccruedIsDue

\* A balance that is reported before it changes: what was accrued is put aside,
\* for the users concerned, and goes on accruing for the others.
LEMMA ReportKeeps ==
  ASSUME IncentivesInv, NEW t \in MaTokens, NEW us \in SUBSET Users,
         NEW after \in [Users -> Nat], \A w \in Users \ us : after[w] = balances[t][w],
         balances' = [balances EXCEPT ![t] = after],
         BalanceChangeMsg(t, us), UNCHANGED <<mars, time>>
  PROVE  /\ IncentivesInv'
         /\ \A w \in Users : QueryUserUnclaimedRewards(w)' = QueryUserUnclaimedRewards(w)
<1> USE IncentivesAssumptions
<1>1. /\ balances \in [MaTokens -> [Users -> Nat]]
      /\ incentives \in [MaTokens -> AssetIncentives \cup {NoIncentive}]
      /\ userIndices \in [MaTokens -> [Users -> Nat]]
      /\ unclaimed \in [Users -> Nat]
      /\ mars \in Nat /\ time \in Nat /\ mars' = mars /\ time' = time
      /\ \A x \in MaTokens : incentives[x] # NoIncentive => incentives[x].last_updated <= time
      /\ \A x \in MaTokens, w \in Users :
           IF incentives[x] = NoIncentive THEN userIndices[x][w] = 0
           ELSE userIndices[x][w] <= incentives[x].index
  BY DEF IncentivesInv, TypeOK, IndexesDoNotRunAhead, IndexesStartAtZero, Incentivized,
         QueryAssetIncentive
<1>2. AccruedIsDue
  BY AccruedDue
<1>3. IncentivesInv' => AccruedIsDue'
  BY AccruedDue, PTL
<1>4. /\ balances' \in [MaTokens -> [Users -> Nat]] /\ balances'[t] = after
      /\ \A x \in MaTokens \ {t} : balances'[x] = balances[x]
  BY <1>1
<1>5. \A x \in MaTokens \ {t} : Supply(x)' = Supply(x)
  BY <1>4 DEF Supply
<1>6. CASE incentives[t] = NoIncentive
  <2>1. UNCHANGED <<incentives, userIndices, unclaimed>>
    BY <1>6 DEF BalanceChangeMsg, BalanceChange
  <2>2. IncentivesInv'
    BY <1>1, <1>4, <2>1 DEF IncentivesInv, TypeOK, IndexesDoNotRunAhead, IndexesStartAtZero,
       Incentivized, QueryAssetIncentive
  <2>3. ASSUME NEW w \in Users, NEW x \in MaTokens
        PROVE  Accrued(w)'[x] = Accrued(w)[x]
    <3>1. Accrued(w)[x] = DueOn(x, w) /\ Accrued(w)'[x] = DueOn(x, w)'
      BY <1>2, <1>3, <2>2 DEF AccruedIsDue
    <3>2. CASE x = t
      BY <1>6, <2>1, <3>1, <3>2 DEF DueOn, Due
    <3>3. CASE x # t
      BY <1>1, <1>4, <1>5, <2>1, <3>1, <3>3 DEF DueOn
    <3> QED
      BY <3>2, <3>3
  <2>4. ASSUME NEW w \in Users
        PROVE  QueryUserUnclaimedRewards(w)' = QueryUserUnclaimedRewards(w)
    <3>1. Total(Accrued(w)', MaTokens) = Total(Accrued(w), MaTokens)
      BY <2>3, TotalAgree
    <3> QED
      BY <2>1, <3>1 DEF QueryUserUnclaimedRewards, UserUnclaimedRewards
  <2> QED
    BY <2>2, <2>4
<1>7. CASE incentives[t] # NoIncentive
  <2>1. PICK new : new = UpdatedAt(incentives[t], Supply(t), time)
    OBVIOUS
  <2>2. PICK to : to = IndexAt(incentives[t], Supply(t), time)
    OBVIOUS
  <2>3. /\ incentives[t] \in AssetIncentives /\ incentives[t].last_updated <= time
        /\ Supply(t) \in Nat /\ incentives[t].index \in Nat
    BY <1>1, <1>2, <1>7 DEF AccruedIsDue, AssetIncentives
  <2>4. /\ UpdatedIncentive(incentives[t], Supply(t)) = new
        /\ new \in AssetIncentives /\ new.index = to /\ new.last_updated = time
        /\ to \in Nat /\ incentives[t].index <= to
    <3>1. time <= time
      BY <1>1
    <3>2. to \in Nat /\ incentives[t].index <= to
      BY <1>1, <2>2, <2>3, <3>1, IndexGrows
    <3> QED
      BY <1>1, <2>1, <2>2, <2>3, <3>2, UpdatedIs DEF UpdatedAt
  <2>5. /\ incentives' = [incentives EXCEPT ![t] = new]
        /\ userIndices' = [userIndices EXCEPT ![t] =
             [u \in Users |-> IF u \in us THEN to ELSE userIndices[t][u]]]
        /\ unclaimed' = [u \in Users |->
             IF u \in us
             THEN unclaimed[u] + AccruedRewards(balances[t][u], userIndices[t][u], to)
             ELSE unclaimed[u]]
    BY <1>1, <1>7, <2>4 DEF BalanceChangeMsg, BalanceChange, Supply
  <2>6. ASSUME NEW u \in Users
        PROVE  AccruedRewards(balances[t][u], userIndices[t][u], to) \in Nat
    <3>1. PICK b, from : b = balances[t][u] /\ from = userIndices[t][u]
      OBVIOUS
    <3>2. b \in Nat /\ from \in Nat /\ from <= to
      BY <1>1, <1>7, <2>3, <2>4, <3>1
    <3> QED
      BY <2>4, <3>1, <3>2, AccruedType
  <2>7. new # NoIncentive
    BY <2>4
  <2>8. IncentivesInv'
    <3>1. incentives' \in [MaTokens -> AssetIncentives \cup {NoIncentive}]
      BY <1>1, <2>4, <2>5
    <3>2. userIndices' \in [MaTokens -> [Users -> Nat]]
      BY <1>1, <2>4, <2>5
    <3>3. unclaimed' \in [Users -> Nat]
      BY <1>1, <2>5, <2>6
    <3>4. \A x \in MaTokens : incentives'[x] # NoIncentive => incentives'[x].last_updated <= time
      BY <1>1, <2>4, <2>5
    <3>5. \A x \in MaTokens, w \in Users :
            IF incentives'[x] = NoIncentive THEN userIndices'[x][w] = 0
            ELSE userIndices'[x][w] <= incentives'[x].index
      <4>1. ASSUME NEW w \in Users
            PROVE  userIndices'[t][w] <= incentives'[t].index /\ incentives'[t] # NoIncentive
        BY <1>1, <1>7, <2>3, <2>4, <2>5, <2>7
      <4>2. \A x \in MaTokens \ {t} : incentives'[x] = incentives[x] /\ userIndices'[x] = userIndices[x]
        BY <1>1, <2>5
      <4> QED
        BY <1>1, <4>1, <4>2
    <3> QED
      BY <1>1, <1>4, <3>1, <3>2, <3>3, <3>4, <3>5 DEF IncentivesInv, TypeOK,
         IndexesDoNotRunAhead, IndexesStartAtZero, Incentivized, QueryAssetIncentive
  <2>9. /\ AccruedIsDue'
        /\ Supply(t)' \in Nat
    BY <1>3, <2>8 DEF AccruedIsDue
  <2>10. IndexAt(new, Supply(t)', time) = to
    BY <1>1, <2>4, <2>9, IndexSettled
  <2>11. ASSUME NEW w \in Users, NEW x \in MaTokens, x # t
         PROVE  Accrued(w)'[x] = Accrued(w)[x]
    <3>1. Accrued(w)[x] = DueOn(x, w) /\ Accrued(w)'[x] = DueOn(x, w)'
      BY <1>2, <2>9 DEF AccruedIsDue
    <3>2. incentives'[x] = incentives[x] /\ userIndices'[x] = userIndices[x]
      BY <1>1, <2>5, <2>11
    <3> QED
      BY <1>1, <1>4, <1>5, <2>11, <3>1, <3>2 DEF DueOn
  <2>12. ASSUME NEW w \in Users
         PROVE  QueryUserUnclaimedRewards(w)' = QueryUserUnclaimedRewards(w)
    <3>1. /\ Accrued(w)[t] = Due(incentives[t], Supply(t), balances[t][w], userIndices[t][w], time)
          /\ Accrued(w)'[t] = Due(new, Supply(t)', after[w], userIndices'[t][w], time)
      BY <1>1, <1>2, <1>4, <2>5, <2>9 DEF AccruedIsDue, DueOn
    <3>2. Accrued(w)[t] = AccruedRewards(balances[t][w], userIndices[t][w], to)
      <4>1. CASE balances[t][w] > 0
        BY <1>7, <2>2, <3>1, <4>1 DEF Due
      <4>2. CASE balances[t][w] = 0
        BY <1>1, <2>4, <3>1, <4>2, DueOnNothing DEF Due
      <4> QED
        BY <1>1, <4>1, <4>2
    <3>3. CASE w \in us
      <4>1. Accrued(w)'[t] = 0
        <5>1. userIndices'[t][w] = to
          BY <1>1, <2>5, <3>3
        <5>2. AccruedRewards(after[w], to, to) = 0
          BY <2>4, DueAtIndex
        <5> QED
          BY <2>10, <3>1, <5>1, <5>2 DEF Due
      <4>2. PICK f, g : f = Accrued(w) /\ g = Accrued(w)'
        OBVIOUS
      <4>3. \A x \in MaTokens : f[x] \in Nat /\ g[x] \in Nat
        BY <1>2, <2>9, <4>2 DEF AccruedIsDue
      <4>4. \A x \in MaTokens \ {t} : g[x] = f[x]
        BY <2>11, <4>2
      <4>5. /\ Total(g, MaTokens) = (Total(f, MaTokens) - f[t]) + g[t]
            /\ Total(f, MaTokens) \in Nat
        <5>1. IsFiniteSet(MaTokens) /\ t \in MaTokens
          OBVIOUS
        <5> QED
          BY ONLY <4>3, <4>4, <5>1, TotalChange, Z3
      <4>6. unclaimed'[w] = unclaimed[w] + f[t] /\ unclaimed[w] \in Nat
        BY <1>1, <2>5, <3>2, <3>3, <4>2
      <4>7. unclaimed'[w] + Total(g, MaTokens) = unclaimed[w] + Total(f, MaTokens)
        BY <4>1, <4>2, <4>3, <4>5, <4>6
      <4> QED
        BY <4>2, <4>7 DEF QueryUserUnclaimedRewards, UserUnclaimedRewards
    <3>4. CASE w \notin us
      <4>1. userIndices'[t][w] = userIndices[t][w] /\ after[w] = balances[t][w]
        BY <1>1, <2>5, <3>4
      <4>2. Accrued(w)'[t] = Accrued(w)[t]
        BY <1>7, <2>2, <2>7, <2>10, <3>1, <4>1 DEF Due
      <4>3. \A x \in MaTokens : Accrued(w)'[x] = Accrued(w)[x]
        BY <2>11, <4>2
      <4>4. Total(Accrued(w)', MaTokens) = Total(Accrued(w), MaTokens)
        BY <4>3, TotalAgree
      <4>5. unclaimed'[w] = unclaimed[w]
        BY <1>1, <2>5, <3>4
      <4> QED
        BY <4>4, <4>5 DEF QueryUserUnclaimedRewards, UserUnclaimedRewards
    <3> QED
      BY <3>3, <3>4
  <2> QED
    BY <2>8, <2>12
<1> QED
  BY <1>6, <1>7

\* What a step at one time means for the rewards of a user.
Unmoved(u) ==
  \/ QueryUserUnclaimedRewards(u)' = QueryUserUnclaimedRewards(u)
  \/ QueryUserUnclaimedRewards(u)' = 0 /\ mars' = mars - QueryUserUnclaimedRewards(u)

LEMMA TokenStepKeeps ==
  ASSUME IncentivesInv, NEW t \in MaTokens, NEW u \in Users, NEW amount \in Amounts,
         TokenStep(t, u, amount)
  PROVE  IncentivesInv' /\ \A w \in Users : Unmoved(w)
<1>1. /\ balances \in [MaTokens -> [Users -> Nat]] /\ amount \in Nat
      /\ balances[t] \in [Users -> Nat] /\ balances[t][u] \in Nat
  BY IncentivesAssumptions DEF IncentivesInv, TypeOK
<1>2. CASE Mint(t, u, amount)
  <2>1. PICK after : after = Credit(balances[t], u, amount)
    OBVIOUS
  <2>2. after \in [Users -> Nat] /\ \A w \in Users \ {u} : after[w] = balances[t][w]
    BY <1>1, <2>1 DEF Credit
  <2>3. /\ balances' = [balances EXCEPT ![t] = after] /\ {u} \in SUBSET Users
        /\ BalanceChangeMsg(t, {u}) /\ UNCHANGED <<mars, time>>
    BY <1>1, <1>2, <2>1 DEF Mint
  <2> QED
    BY <2>2, <2>3, ReportKeeps DEF Unmoved
<1>3. CASE Burn(t, u, amount)
  <2>1. PICK after : after = Debit(balances[t], u, amount)
    OBVIOUS
  <2>2. after \in [Users -> Nat] /\ \A w \in Users \ {u} : after[w] = balances[t][w]
    BY <1>1, <1>3, <2>1 DEF Debit, Burn
  <2>3. /\ balances' = [balances EXCEPT ![t] = after] /\ {u} \in SUBSET Users
        /\ BalanceChangeMsg(t, {u}) /\ UNCHANGED <<mars, time>>
    BY <1>1, <1>3, <2>1 DEF Burn
  <2> QED
    BY <2>2, <2>3, ReportKeeps DEF Unmoved
<1>4. ASSUME NEW v \in Users, Transfer(t, u, v, amount)
      PROVE  IncentivesInv' /\ \A w \in Users : Unmoved(w)
  <2>1. PICK after : after = Credit(Debit(balances[t], u, amount), v, amount)
    OBVIOUS
  <2>2. /\ after \in [Users -> Nat]
        /\ \A w \in Users \ {u, v} : after[w] = balances[t][w]
    <3>1. Debit(balances[t], u, amount) \in [Users -> Nat]
      BY <1>1, <1>4 DEF Debit, Transfer
    <3>2. \A w \in Users \ {u} : Debit(balances[t], u, amount)[w] = balances[t][w]
      BY <1>1 DEF Debit
    <3> QED
      BY <1>1, <2>1, <3>1, <3>2 DEF Credit
  <2>3. /\ balances' = [balances EXCEPT ![t] = after] /\ {u, v} \in SUBSET Users
        /\ BalanceChangeMsg(t, {u, v}) /\ UNCHANGED <<mars, time>>
    BY <1>1, <1>4, <2>1 DEF Transfer
  <2> QED
    BY <2>2, <2>3, ReportKeeps DEF Unmoved
<1> QED
  BY <1>2, <1>3, <1>4 DEF TokenStep

\* A new emission counts from now on: the index was brought to now before.
LEMMA SettingKeeps ==
  ASSUME IncentivesInv, NEW t \in MaTokens, SetAssetIncentive(t)
  PROVE  IncentivesInv' /\ \A w \in Users : Unmoved(w)
<1> USE IncentivesAssumptions
<1>1. /\ balances \in [MaTokens -> [Users -> Nat]]
      /\ incentives \in [MaTokens -> AssetIncentives \cup {NoIncentive}]
      /\ userIndices \in [MaTokens -> [Users -> Nat]]
      /\ unclaimed \in [Users -> Nat]
      /\ mars \in Nat /\ time \in Nat
      /\ UNCHANGED <<balances, userIndices, unclaimed, mars, time>>
      /\ \A x \in MaTokens : incentives[x] # NoIncentive => incentives[x].last_updated <= time
      /\ \A x \in MaTokens, w \in Users :
           IF incentives[x] = NoIncentive THEN userIndices[x][w] = 0
           ELSE userIndices[x][w] <= incentives[x].index
  BY DEF SetAssetIncentive, IncentivesInv, TypeOK, IndexesDoNotRunAhead, IndexesStartAtZero,
         Incentivized, QueryAssetIncentive
<1>2. AccruedIsDue
  BY AccruedDue
<1>3. IncentivesInv' => AccruedIsDue'
  BY AccruedDue, PTL
<1>4. PICK emission \in Emissions : incentives' = [incentives EXCEPT ![t] = EmissionSet(t, emission)]
  BY DEF SetAssetIncentive
<1>5. PICK old, new, to : /\ old = incentives[t] /\ new = EmissionSet(t, emission)
                          /\ to = IF old = NoIncentive THEN 0 ELSE IndexAt(old, Supply(t), time)
  OBVIOUS
<1>6. emission \in Nat /\ old \in AssetIncentives \cup {NoIncentive} /\ Supply(t) \in Nat
  BY <1>1, <1>2, <1>5 DEF AccruedIsDue
<1>7. /\ new \in AssetIncentives /\ new.index = to /\ new.last_updated = time
      /\ to \in Nat
      /\ old # NoIncentive => old.index <= to
  <2>1. CASE old = NoIncentive
    BY <1>1, <1>5, <1>6, <2>1 DEF EmissionSet, AssetIncentives
  <2>2. CASE old # NoIncentive
    <3>1. old \in AssetIncentives /\ old.last_updated <= time /\ time <= time
      BY <1>1, <1>5, <1>6, <2>2
    <3>2. to \in Nat /\ old.index <= to
      BY <1>1, <1>5, <1>6, <2>2, <3>1, IndexGrows
    <3>3. PICK j : j = UpdatedAt(old, Supply(t), time)
      OBVIOUS
    <3>4. UpdatedIncentive(old, Supply(t)) = j /\ j \in AssetIncentives
      BY <1>1, <1>6, <3>1, <3>3, UpdatedIs
    <3>5. j.index = to /\ j.last_updated = time
      BY <1>5, <2>2, <3>3 DEF UpdatedAt
    <3>6. new = [j EXCEPT !.emission_per_second = emission]
      BY <1>5, <2>2, <3>4 DEF EmissionSet
    <3> QED
      BY <1>6, <3>2, <3>4, <3>5, <3>6 DEF AssetIncentives
  <2> QED
    BY <2>1, <2>2
<1>8. /\ incentives'[t] = new /\ new # NoIncentive
      /\ \A x \in MaTokens \ {t} : incentives'[x] = incentives[x]
      /\ incentives' \in [MaTokens -> AssetIncentives \cup {NoIncentive}]
  BY <1>1, <1>4, <1>5, <1>7
<1>9. IncentivesInv'
  <2>1. \A w \in Users : userIndices[t][w] <= new.index
    <3>1. ASSUME NEW w \in Users
          PROVE  userIndices[t][w] <= new.index
      <4>1. CASE old = NoIncentive
        <5>1. userIndices[t][w] = 0
          BY <1>1, <1>5, <4>1
        <5> QED
          BY <1>7, <5>1
      <4>2. CASE old # NoIncentive
        <5>1. userIndices[t][w] \in Nat /\ userIndices[t][w] <= old.index /\ old.index \in Nat
          BY <1>1, <1>5, <1>6, <4>2 DEF AssetIncentives
        <5> QED
          BY <1>7, <4>2, <5>1
      <4> QED
        BY <4>1, <4>2
    <3> QED
      BY <3>1
  <2> QED
    <3>1. \A x \in MaTokens : incentives'[x] # NoIncentive => incentives'[x].last_updated <= time
      BY <1>1, <1>7, <1>8
    <3>2. \A x \in MaTokens, w \in Users :
            IF incentives'[x] = NoIncentive THEN userIndices[x][w] = 0
            ELSE userIndices[x][w] <= incentives'[x].index
      BY <1>1, <1>8, <2>1
    <3> QED
      BY <1>1, <1>8, <3>1, <3>2 DEF IncentivesInv, TypeOK, IndexesDoNotRunAhead,
         IndexesStartAtZero, Incentivized, QueryAssetIncentive
<1>10. AccruedIsDue' /\ \A x \in MaTokens : Supply(x)' = Supply(x)
  BY <1>1, <1>3, <1>9 DEF Supply
<1>11. ASSUME NEW w \in Users, NEW x \in MaTokens
       PROVE  Accrued(w)'[x] = Accrued(w)[x]
  <2>1. /\ Accrued(w)[x] = Due(incentives[x], Supply(x), balances[x][w], userIndices[x][w], time)
        /\ Accrued(w)'[x] = Due(incentives'[x], Supply(x), balances[x][w], userIndices[x][w], time)
    BY <1>1, <1>2, <1>10 DEF AccruedIsDue, DueOn
  <2>2. CASE x # t
    BY <1>8, <2>1, <2>2
  <2>3. CASE x = t
    <3>1. IndexAt(new, Supply(t), time) = to
      BY <1>1, <1>6, <1>7, IndexSettled
    <3>2. CASE old = NoIncentive
      <4>1. userIndices[t][w] = 0 /\ to = 0 /\ balances[t][w] \in Nat
        BY <1>1, <1>5, <3>2
      <4>2. AccruedRewards(balances[t][w], 0, 0) = 0
        BY <4>1, DueAtIndex
      <4> QED
        BY <1>5, <1>8, <2>1, <2>3, <3>1, <3>2, <4>1, <4>2 DEF Due
    <3>3. CASE old # NoIncentive
      BY <1>5, <1>8, <2>1, <2>3, <3>1, <3>3 DEF Due
    <3> QED
      BY <3>2, <3>3
  <2> QED
    BY <2>2, <2>3
<1>12. ASSUME NEW w \in Users
       PROVE  Unmoved(w)
  <2>1. Total(Accrued(w)', MaTokens) = Total(Accrued(w), MaTokens)
    BY <1>11, TotalAgree
  <2> QED
    BY <1>1, <2>1 DEF Unmoved, QueryUserUnclaimedRewards, UserUnclaimedRewards
<1> QED
  BY <1>9, <1>12

\* Whoever claims gets what it is due and is due nothing; the indexes it brings
\* to the present are due to nobody.
LEMMA ClaimKeeps ==
  ASSUME IncentivesInv, NEW u \in Users, ClaimRewards(u)
  PROVE  IncentivesInv' /\ \A w \in Users : Unmoved(w)
<1> USE IncentivesAssumptions
<1>1. /\ balances \in [MaTokens -> [Users -> Nat]]
      /\ incentives \in [MaTokens -> AssetIncentives \cup {NoIncentive}]
      /\ userIndices \in [MaTokens -> [Users -> Nat]]
      /\ unclaimed \in [Users -> Nat]
      /\ mars \in Nat /\ time \in Nat
      /\ UNCHANGED <<balances, time>>
      /\ \A x \in MaTokens : incentives[x] # NoIncentive => incentives[x].last_updated <= time
      /\ \A x \in MaTokens, w \in Users :
           IF incentives[x] = NoIncentive THEN userIndices[x][w] = 0
           ELSE userIndices[x][w] <= incentives[x].index
  BY DEF ClaimRewards, IncentivesInv, TypeOK, IndexesDoNotRunAhead, IndexesStartAtZero,
         Incentivized, QueryAssetIncentive
<1>2. AccruedIsDue
  BY AccruedDue
<1>3. IncentivesInv' => AccruedIsDue'
  BY AccruedDue, PTL
<1>4. /\ UserUnclaimedRewards(u) <= mars
      /\ incentives' = [t \in MaTokens |->
           IF t \in Held(u) THEN UpdatedIncentive(incentives[t], Supply(t)) ELSE incentives[t]]
      /\ userIndices' = [t \in MaTokens |->
           IF t \in Held(u) THEN [userIndices[t] EXCEPT ![u] = incentives'[t].index]
           ELSE userIndices[t]]
      /\ unclaimed' = [unclaimed EXCEPT ![u] = 0]
      /\ mars' = mars - UserUnclaimedRewards(u)
  BY DEF ClaimRewards
<1>5. UserUnclaimedRewards(u) \in Nat
  <2>1. UserUnclaimedRewards(u) = unclaimed[u] + Total(Accrued(u), MaTokens)
    BY DEF UserUnclaimedRewards
  <2> QED
    BY <1>1, <1>2, <2>1 DEF AccruedIsDue
<1>6. /\ mars' \in Nat
      /\ unclaimed' \in [Users -> Nat] /\ unclaimed'[u] = 0
      /\ \A w \in Users \ {u} : unclaimed'[w] = unclaimed[w]
  BY <1>1, <1>4, <1>5
<1>7. ASSUME NEW t \in Held(u)
      PROVE  /\ t \in MaTokens /\ incentives[t] # NoIncentive
             /\ incentives'[t] \in AssetIncentives
             /\ incentives'[t].index = IndexAt(incentives[t], Supply(t), time)
             /\ incentives'[t].last_updated = time
             /\ incentives[t].index \in Nat /\ incentives'[t].index \in Nat
             /\ incentives[t].index <= incentives'[t].index
             /\ userIndices'[t][u] = incentives'[t].index
             /\ \A w \in Users \ {u} : userIndices'[t][w] = userIndices[t][w]
  <2>1. t \in MaTokens /\ incentives[t] # NoIncentive
    BY DEF Held, Incentivized
  <2>2. PICK i, n, j : i = incentives[t] /\ n = Supply(t) /\ j = incentives'[t]
    OBVIOUS
  <2>3. /\ i \in AssetIncentives /\ n \in Nat /\ i.last_updated <= time /\ time <= time
        /\ i.index \in Nat
    BY <1>1, <1>2, <2>1, <2>2 DEF AccruedIsDue, AssetIncentives
  <2>4. j = UpdatedIncentive(i, n)
    BY <1>4, <2>1, <2>2
  <2>5. j = UpdatedAt(i, n, time) /\ j \in AssetIncentives
    BY <1>1, <2>3, <2>4, UpdatedIs
  <2>6. IndexAt(i, n, time) \in Nat /\ i.index <= IndexAt(i, n, time)
    BY <1>1, <2>3, IndexGrows
  <2>7. j.index = IndexAt(i, n, time) /\ j.last_updated = time
    BY <2>5 DEF UpdatedAt
  <2>8. userIndices'[t] = [userIndices[t] EXCEPT ![u] = incentives'[t].index]
    BY <1>4, <2>1
  <2>9. userIndices[t] \in [Users -> Nat]
    BY <1>1, <2>1
  <2> QED
    BY <2>1, <2>2, <2>3, <2>5, <2>6, <2>7, <2>8, <2>9
<1>8. \A t \in MaTokens \ Held(u) : incentives'[t] = incentives[t] /\ userIndices'[t] = userIndices[t]
  BY <1>4
<1>9. IncentivesInv'
  <2>1. incentives' \in [MaTokens -> AssetIncentives \cup {NoIncentive}]
    <3>1. \A t \in MaTokens : incentives'[t] \in AssetIncentives \cup {NoIncentive}
      BY <1>1, <1>7, <1>8
    <3> QED
      BY <1>4, <3>1
  <2>2. userIndices' \in [MaTokens -> [Users -> Nat]]
    <3>1. ASSUME NEW t \in MaTokens
          PROVE  userIndices'[t] \in [Users -> Nat]
      <4>1. CASE t \in Held(u)
        <5>1. /\ userIndices'[t] = [userIndices[t] EXCEPT ![u] = incentives'[t].index]
              /\ incentives'[t].index \in Nat /\ userIndices[t] \in [Users -> Nat]
          BY <1>1, <1>4, <1>7, <4>1
        <5> QED
          BY <5>1
      <4>2. CASE t \notin Held(u)
        BY <1>1, <1>8, <4>2
      <4> QED
        BY <4>1, <4>2
    <3> QED
      BY <1>4, <3>1
  <2>3. \A t \in MaTokens : incentives'[t] # NoIncentive => incentives'[t].last_updated <= time
    BY <1>1, <1>7, <1>8
  <2>4. ASSUME NEW t \in MaTokens, NEW w \in Users
        PROVE  IF incentives'[t] = NoIncentive THEN userIndices'[t][w] = 0
               ELSE userIndices'[t][w] <= incentives'[t].index
    <3>1. CASE t \in Held(u)
      <4>1. incentives'[t] # NoIncentive /\ userIndices[t][w] \in Nat
        BY <1>1, <1>7, <3>1
      <4>2. userIndices[t][w] <= incentives[t].index
        BY <1>1, <1>7, <3>1
      <4> QED
        BY <1>7, <3>1, <4>1, <4>2
    <3>2. CASE t \notin Held(u)
      BY <1>1, <1>8, <3>2
    <3> QED
      BY <3>1, <3>2
  <2> QED
    BY <1>1, <1>6, <2>1, <2>2, <2>3, <2>4 DEF IncentivesInv, TypeOK, IndexesDoNotRunAhead,
       IndexesStartAtZero, Incentivized, QueryAssetIncentive
<1>10. AccruedIsDue' /\ \A x \in MaTokens : Supply(x)' = Supply(x) /\ Supply(x) \in Nat
  BY <1>1, <1>2, <1>3, <1>9 DEF Supply, AccruedIsDue
<1>11. ASSUME NEW w \in Users, NEW x \in MaTokens
       PROVE  Accrued(w)'[x] = IF w = u THEN 0 ELSE Accrued(w)[x]
  <2>1. /\ Accrued(w)[x] = Due(incentives[x], Supply(x), balances[x][w], userIndices[x][w], time)
        /\ Accrued(w)'[x] = Due(incentives'[x], Supply(x), balances[x][w], userIndices'[x][w], time)
        /\ balances[x][w] \in Nat
    BY <1>1, <1>2, <1>10 DEF AccruedIsDue, DueOn
  <2>2. CASE x \notin Held(u)
    <3>1. incentives[x] = NoIncentive \/ ~ (balances[x][u] > 0)
      BY <2>2 DEF Held, Incentivized
    <3>2. w = u => Accrued(w)'[x] = 0
      BY <1>8, <2>1, <2>2, <3>1 DEF Due
    <3> QED
      BY <1>8, <2>1, <2>2, <3>2
  <2>3. CASE x \in Held(u)
    <3>1. PICK i, n : i = incentives'[x] /\ n = Supply(x)
      OBVIOUS
    <3>2. i \in AssetIncentives /\ n \in Nat /\ i.last_updated = time
      BY <1>7, <1>10, <2>3, <3>1
    <3>3. IndexAt(i, n, time) = i.index
      BY <1>1, <3>2, IndexSettled
    <3>4. CASE w = u
      <4>1. AccruedRewards(balances[x][w], i.index, i.index) = 0
        BY <1>7, <2>1, <2>3, <3>1, DueAtIndex
      <4> QED
        BY <1>7, <2>1, <2>3, <3>1, <3>3, <3>4, <4>1 DEF Due
    <3>5. CASE w # u
      <4>1. userIndices'[x][w] = userIndices[x][w] /\ i # NoIncentive
        BY <1>7, <2>3, <3>2, <3>5
      <4>2. IndexAt(i, n, time) = IndexAt(incentives[x], Supply(x), time) /\ incentives[x] # NoIncentive
        BY <1>7, <2>3, <3>1, <3>3
      <4> QED
        BY <2>1, <3>1, <3>5, <4>1, <4>2 DEF Due
    <3> QED
      BY <3>4, <3>5
  <2> QED
    BY <2>2, <2>3
<1>12. ASSUME NEW w \in Users
       PROVE  Unmoved(w)
  <2>1. CASE w = u
    <3>1. Total(Accrued(w)', MaTokens) = 0
      BY <1>11, <2>1, TotalZero
    <3>2. QueryUserUnclaimedRewards(w)' = 0
      BY <1>6, <2>1, <3>1 DEF QueryUserUnclaimedRewards, UserUnclaimedRewards
    <3> QED
      BY <1>4, <2>1, <3>2 DEF Unmoved, QueryUserUnclaimedRewards
  <2>2. CASE w # u
    <3>1. Total(Accrued(w)', MaTokens) = Total(Accrued(w), MaTokens)
      BY <1>11, <2>2, TotalAgree
    <3> QED
      BY <1>6, <2>2, <3>1 DEF Unmoved, QueryUserUnclaimedRewards, UserUnclaimedRewards
  <2> QED
    BY <2>1, <2>2
<1> QED
  BY <1>9, <1>12

\* The contract's MARS, which no index depends on.
LEMMA PaymentKeeps ==
  ASSUME IncentivesInv, NEW amount \in Amounts, Fund(amount) \/ ExecuteCosmosMsg(amount)
  PROVE  IncentivesInv' /\ \A w \in Users : Unmoved(w)
<1>1. /\ UNCHANGED <<balances, incentives, userIndices, unclaimed, time>>
      /\ mars' \in Nat
  BY IncentivesAssumptions DEF IncentivesInv, TypeOK, Fund, ExecuteCosmosMsg
<1>2. IncentivesInv'
  BY <1>1 DEF IncentivesInv, TypeOK, IndexesDoNotRunAhead, IndexesStartAtZero, Incentivized,
     QueryAssetIncentive
<1>3. ASSUME NEW w \in Users
      PROVE  QueryUserUnclaimedRewards(w)' = QueryUserUnclaimedRewards(w)
  BY <1>1 DEF QueryUserUnclaimedRewards, UserUnclaimedRewards, Accrued, Held, Incentivized,
     AccruedOn, UpdatedIncentive, Supply
<1> QED
  BY <1>2, <1>3 DEF Unmoved

LEMMA TickKeeps ==
  ASSUME IncentivesInv, Tick
  PROVE  IncentivesInv'
<1>1. /\ UNCHANGED <<balances, incentives, userIndices, unclaimed, mars>>
      /\ time' \in Nat /\ time <= time' /\ time \in Nat
  BY DEF IncentivesInv, TypeOK, Tick
<1>2. ASSUME NEW t \in MaTokens, incentives[t] # NoIncentive
      PROVE  incentives[t].last_updated <= time'
  <2>1. incentives[t].last_updated \in Nat /\ incentives[t].last_updated <= time
    BY <1>2 DEF IncentivesInv, TypeOK, Incentivized, AssetIncentives
  <2> QED
    BY <1>1, <2>1
<1> QED
  BY <1>1, <1>2 DEF IncentivesInv, TypeOK, IndexesDoNotRunAhead, IndexesStartAtZero,
     Incentivized, QueryAssetIncentive

LEMMA IncentivesStepKeeps ==
  ASSUME IncentivesInv, [Next]_vars
  PROVE  IncentivesInv' /\ (time' = time => \A w \in Users : Unmoved(w))
<1>1. ASSUME NEW t \in MaTokens, NEW u \in Users, NEW amount \in Amounts, TokenStep(t, u, amount)
      PROVE  IncentivesInv' /\ \A w \in Users : Unmoved(w)
  BY <1>1, TokenStepKeeps
<1>2. ASSUME IncentivesStep
      PROVE  IncentivesInv' /\ \A w \in Users : Unmoved(w)
  <2>1. ASSUME NEW t \in MaTokens, SetAssetIncentive(t)
        PROVE  IncentivesInv' /\ \A w \in Users : Unmoved(w)
    BY <2>1, SettingKeeps
  <2>2. ASSUME NEW u \in Users, ClaimRewards(u)
        PROVE  IncentivesInv' /\ \A w \in Users : Unmoved(w)
    BY <2>2, ClaimKeeps
  <2>3. ASSUME NEW amount \in Amounts, ExecuteCosmosMsg(amount)
        PROVE  IncentivesInv' /\ \A w \in Users : Unmoved(w)
    BY <2>3, PaymentKeeps
  <2> QED
    BY <1>2, <2>1, <2>2, <2>3 DEF IncentivesStep
<1>3. ASSUME NEW amount \in Amounts, Fund(amount)
      PROVE  IncentivesInv' /\ \A w \in Users : Unmoved(w)
  BY <1>3, PaymentKeeps
<1>4. CASE Tick
  <2>1. time' # time
    BY <1>4 DEF Tick, IncentivesInv, TypeOK
  <2> QED
    BY <1>4, <2>1, TickKeeps
<1>5. CASE UNCHANGED vars
  <2>1. IncentivesInv'
    BY <1>5 DEF vars, IncentivesInv, TypeOK, IndexesDoNotRunAhead, IndexesStartAtZero,
       Incentivized, QueryAssetIncentive
  <2>2. ASSUME NEW w \in Users
        PROVE  QueryUserUnclaimedRewards(w)' = QueryUserUnclaimedRewards(w)
    BY <1>5 DEF vars, QueryUserUnclaimedRewards, UserUnclaimedRewards, Accrued, Held,
       Incentivized, AccruedOn, UpdatedIncentive, Supply
  <2> QED
    BY <2>1, <2>2 DEF Unmoved
<1> QED
  BY <1>1, <1>2, <1>3, <1>4, <1>5 DEF Next

LEMMA IncentivesInvInit == Init => IncentivesInv
  BY DEF Init, IncentivesInv, TypeOK, IndexesDoNotRunAhead, IndexesStartAtZero, Incentivized,
     QueryAssetIncentive

-----------------------------------------------------------------------------
(* What the holders of a maToken gain in a second. *)

\* The share of a holder, rounded at both indexes.
LEMMA GainOfHolder ==
  ASSUME NEW b \in Nat, NEW from \in Nat, NEW x \in Nat, NEW y \in Nat, from <= x, x <= y
  PROVE  (AccruedRewards(b, from, y) - AccruedRewards(b, from, x)) * One <= b * (y - x) + 1 * One
<1>1. PICK p, q, r : p = Mul(b, x) /\ q = Mul(b, y) /\ r = Mul(b, from)
  OBVIOUS
<1>2. p \in Nat /\ q \in Nat /\ r \in Nat
  BY <1>1, MulType
<1>3. PICK bx, by : bx = b * x /\ by = b * y
  OBVIOUS
<1>4. bx \in Nat /\ by \in Nat /\ One \in Nat \ {0}
  BY <1>3, ProductType, OneAssumption
<1>5. bx < p * One + One /\ q * One <= by
  BY <1>1, <1>3, <1>4, DivFloor DEF Mul
<1>6. (q - p) * One <= (by - bx) + One
  <2>1. (q - p) * One = q * One - p * One
    BY <1>2, <1>4
  <2>2. q * One \in Nat /\ p * One \in Nat
    BY <1>2, <1>4, ProductType
  <2> QED
    BY <1>4, <1>5, <2>1, <2>2
<1>7. AccruedRewards(b, from, y) - AccruedRewards(b, from, x) = q - p
  BY <1>1, <1>2 DEF AccruedRewards
<1>8. b * (y - x) = by - bx
  BY <1>3
<1> QED
  BY <1>4, <1>6, <1>7, <1>8

\* The growth of an index in a second, times the supply, is what was emitted.
LEMMA GrowthOfIndex ==
  ASSUME NEW i \in AssetIncentives, NEW supply \in Nat \ {0}, NEW now \in Nat,
         i.last_updated <= now
  PROVE  supply * (IndexAt(i, supply, now + 1) - IndexAt(i, supply, now))
           <= i.emission_per_second * One + supply
<1>1. PICK e, l : e = i.emission_per_second /\ l = i.last_updated
  OBVIOUS
<1>2. PICK k, m : k = e * (now - l) /\ m = e * ((now + 1) - l)
  OBVIOUS
<1>3. e \in Nat /\ l \in Nat /\ i.index \in Nat /\ l <= now /\ One \in Nat \ {0}
  BY <1>1, OneAssumption DEF AssetIncentives
<1>4. k \in Nat /\ m \in Nat /\ m = k + e
  <2>1. PICK d : d = now - l
    OBVIOUS
  <2>2. d \in Nat /\ (now + 1) - l = d + 1
    BY <1>3, <2>1
  <2>3. e * (d + 1) = e * d + e /\ e * d \in Nat
    BY <1>3, <2>2, ProductType
  <2> QED
    BY <1>2, <1>3, <2>1, <2>2, <2>3
<1>5. PICK kk, mm, p, q : /\ kk = k * One /\ mm = m * One
                          /\ p = kk \div supply /\ q = mm \div supply
  OBVIOUS
<1>6. kk \in Nat /\ mm \in Nat /\ mm = kk + e * One /\ e * One \in Nat
  BY <1>3, <1>4, <1>5, ProductType
<1>7. /\ p \in Nat /\ q \in Nat /\ kk < p * supply + supply /\ q * supply <= mm
  BY <1>5, <1>6, DivFloor
<1>8. supply * (q - p) <= e * One + supply
  <2>1. PICK qs, ps : qs = q * supply /\ ps = p * supply
    OBVIOUS
  <2>2. qs \in Nat /\ ps \in Nat /\ supply * (q - p) = qs - ps
    BY <1>7, <2>1, ProductType
  <2>3. kk < ps + supply /\ qs <= mm
    BY <1>7, <2>1
  <2> QED
    BY <1>6, <2>2, <2>3
<1>9. /\ IndexAt(i, supply, now) = i.index + p
      /\ IndexAt(i, supply, now + 1) = i.index + q
  BY <1>1, <1>2, <1>5 DEF IndexAt, FromRatio
<1>10. IndexAt(i, supply, now + 1) - IndexAt(i, supply, now) = q - p
  BY <1>3, <1>7, <1>9
<1> QED
  BY <1>1, <1>8, <1>10

\* All holders of a maToken together.
LEMMA GainOfHolders ==
  ASSUME NEW i \in AssetIncentives, NEW ledger \in [Users -> Nat], NEW from \in [Users -> Nat],
         NEW supply \in Nat \ {0}, supply = Total(ledger, Users), NEW now \in Nat,
         i.last_updated <= now, \A u \in Users : from[u] <= i.index,
         NEW gain \in [Users -> Nat],
         \A u \in Users : gain[u] = Due(i, supply, ledger[u], from[u], now + 1)
                                     - Due(i, supply, ledger[u], from[u], now)
  PROVE  Total(gain, Users)
           <= i.emission_per_second + (Cardinality(Users) + CeilDiv(supply, One))
<1>1. PICK x, y : x = IndexAt(i, supply, now) /\ y = IndexAt(i, supply, now + 1)
  OBVIOUS
<1>2. x \in Nat /\ y \in Nat /\ i.index <= x /\ x <= y
  <2>1. now + 1 \in Nat /\ now <= now + 1 /\ supply \in Nat
    OBVIOUS
  <2> QED
    BY <1>1, <2>1, IndexGrows
<1>3. PICK e, k, one : e = i.emission_per_second /\ k = y - x /\ one = [u \in Users |-> 1]
  OBVIOUS
<1>4. e \in Nat /\ k \in Nat /\ i.index \in Nat
  BY <1>2, <1>3 DEF AssetIncentives
<1>5. ASSUME NEW u \in Users
      PROVE  /\ ledger[u] \in Nat /\ gain[u] \in Nat /\ one[u] \in Nat
             /\ gain[u] * One <= ledger[u] * k + one[u] * One
  <2>1. one[u] = 1 /\ ledger[u] \in Nat /\ from[u] \in Nat /\ gain[u] \in Nat
    BY <1>3
  <2>2. CASE ledger[u] > 0
    <3>1. i # NoIncentive
      BY IncentivesAssumptions
    <3>2. gain[u] = AccruedRewards(ledger[u], from[u], y) - AccruedRewards(ledger[u], from[u], x)
      BY <1>1, <2>2, <3>1 DEF Due
    <3>3. PICK b, f : b = ledger[u] /\ f = from[u]
      OBVIOUS
    <3>4. b \in Nat /\ f \in Nat /\ f <= x
      BY <1>2, <1>4, <2>1, <3>3
    <3>5. (AccruedRewards(b, f, y) - AccruedRewards(b, f, x)) * One <= b * (y - x) + 1 * One
      BY <1>2, <3>4, GainOfHolder
    <3> QED
      BY <1>3, <2>1, <3>2, <3>3, <3>5
  <2>3. CASE ledger[u] = 0
    <3>1. gain[u] = 0
      BY <2>3 DEF Due
    <3>2. 0 * One = 0 /\ 0 * k = 0 /\ 1 * One = One /\ One \in Nat
      BY <1>4, OneAssumption
    <3> QED
      BY <2>1, <2>3, <3>1, <3>2
  <2> QED
    BY <2>1, <2>2, <2>3
<1>6. Total(gain, Users) * One <= Total(ledger, Users) * k + Total(one, Users) * One
  <2>1. /\ \A u \in Users : /\ ledger[u] \in Nat /\ gain[u] \in Nat /\ one[u] \in Nat
                            /\ gain[u] * One <= ledger[u] * k + one[u] * One
        /\ k \in Int /\ One \in Int /\ IsFiniteSet(Users)
    BY <1>4, <1>5, OneAssumption, IncentivesAssumptions
  <2> QED
    BY ONLY <2>1, TotalWeighted, Z3
<1>7. Total(one, Users) = Cardinality(Users) /\ Cardinality(Users) \in Nat
  BY <1>3, TotalOfOnes, IncentivesAssumptions
<1>8. Total(gain, Users) \in Nat
  BY TotalType, IncentivesAssumptions
<1>9. supply * k <= e * One + supply
  BY <1>1, <1>3, GrowthOfIndex
<1>10. CeilDiv(supply, One) \in Nat /\ supply <= CeilDiv(supply, One) * One
  BY CeilDivCovers, OneAssumption
<1>11. PICK g, n, c : g = Total(gain, Users) /\ n = Cardinality(Users) /\ c = CeilDiv(supply, One)
  OBVIOUS
<1>12. g * One <= (e + (n + c)) * One
  <2>1. PICK eo, no, co, go, sk : /\ eo = e * One /\ no = n * One /\ co = c * One
                                  /\ go = g * One /\ sk = supply * k
    OBVIOUS
  <2>2. /\ eo \in Nat /\ no \in Nat /\ co \in Nat /\ go \in Nat /\ sk \in Nat
        /\ (e + (n + c)) * One = eo + (no + co)
    BY <1>4, <1>7, <1>8, <1>10, <1>11, <2>1, OneAssumption, ProductType
  <2>3. go <= sk + no /\ sk <= eo + supply /\ supply <= co
    BY <1>6, <1>7, <1>9, <1>10, <1>11, <2>1
  <2> QED
    BY <2>1, <2>2, <2>3
<1>13. g <= e + (n + c)
  BY <1>4, <1>7, <1>8, <1>10, <1>11, <1>12, OneAssumption
<1> QED
  BY <1>3, <1>11, <1>13

\* On any maToken: nobody loses, and all gain at most what was emitted.
LEMMA GainOnToken ==
  ASSUME IncentivesInv, Tick, NEW t \in MaTokens, NEW gain,
         gain = [u \in Users |-> DueOn(t, u)' - DueOn(t, u)]
  PROVE  /\ gain \in [Users -> Nat]
         /\ Total(gain, Users) <= EmittedOn(t) + SlackOn(t)
         /\ EmittedOn(t) \in Nat /\ SlackOn(t) \in Nat
<1> USE IncentivesAssumptions
<1>1. PICK i, ledger, from, now, supply :
        /\ i = incentives[t] /\ ledger = balances[t] /\ from = userIndices[t] /\ now = time
        /\ supply = Supply(t)
  OBVIOUS
<1>2. /\ i \in AssetIncentives \cup {NoIncentive}
      /\ ledger \in [Users -> Nat] /\ from \in [Users -> Nat] /\ now \in Nat
      /\ i # NoIncentive => i.last_updated <= now
      /\ i # NoIncentive => \A u \in Users : from[u] <= i.index
  BY <1>1 DEF IncentivesInv, TypeOK, IndexesDoNotRunAhead, Incentivized, QueryAssetIncentive
<1>3. supply \in Nat /\ supply = Total(ledger, Users)
  BY <1>1, <1>2, TotalType DEF Supply
<1>4. time' = now + 1 /\ UNCHANGED <<balances, incentives, userIndices>> /\ now + 1 \in Nat
  BY <1>1, <1>2 DEF Tick
<1>5. \A u \in Users : gain[u] = Due(i, supply, ledger[u], from[u], now + 1)
                                  - Due(i, supply, ledger[u], from[u], now)
  BY <1>1, <1>4 DEF DueOn, Supply
<1>6. ASSUME NEW u \in Users
      PROVE  gain[u] \in Nat
  <2>1. PICK b, f : b = ledger[u] /\ f = from[u]
    OBVIOUS
  <2>2. /\ b \in Nat /\ f \in Nat /\ now <= now + 1
        /\ i # NoIncentive => i.last_updated <= now /\ f <= i.index
    BY <1>2, <2>1
  <2>3. /\ Due(i, supply, b, f, now) \in Nat
        /\ Due(i, supply, b, f, now + 1) \in Nat
        /\ Due(i, supply, b, f, now) <= Due(i, supply, b, f, now + 1)
    BY <1>2, <1>3, <1>4, <2>2, DueGrows
  <2> QED
    BY <1>5, <2>1, <2>3
<1>7. gain \in [Users -> Nat]
  BY <1>6
<1>8. CASE i = NoIncentive
  <2>1. EmittedOn(t) = 0 /\ SlackOn(t) = 0
    BY <1>1, <1>8 DEF EmittedOn, SlackOn, Incentivized
  <2>2. \A u \in Users : gain[u] = 0
    BY <1>5, <1>8 DEF Due
  <2>3. Total(gain, Users) = 0
    BY <2>2, TotalZero
  <2> QED
    BY <1>7, <2>1, <2>3
<1>9. CASE i # NoIncentive
  <2>1. i \in AssetIncentives /\ i.emission_per_second \in Nat
    BY <1>2, <1>9 DEF AssetIncentives
  <2>2. PICK c, n : c = CeilDiv(supply, One) /\ n = Cardinality(Users)
    OBVIOUS
  <2>3. c \in Nat /\ n \in Nat
    BY <1>3, <2>2, CeilDivCovers, OneAssumption, FS_CardinalityType
  <2>4. SlackOn(t) = n + c
    BY <1>1, <1>9, <2>2 DEF SlackOn, Incentivized
  <2>5. CASE supply > 0
    <3>1. EmittedOn(t) = i.emission_per_second
      BY <1>1, <1>9, <2>5 DEF EmittedOn, Incentivized, QueryAssetIncentive
    <3>2. supply \in Nat \ {0}
      BY <1>3, <2>5
    <3>3. Total(gain, Users) <= i.emission_per_second + (n + c)
      <4>1. i.last_updated <= now /\ \A u \in Users : from[u] <= i.index
        BY <1>2, <1>9
      <4> QED
        BY <1>2, <1>3, <1>5, <1>7, <2>1, <2>2, <3>2, <4>1, GainOfHolders
    <3> QED
      BY <1>7, <2>1, <2>3, <2>4, <3>1, <3>3
  <2>6. CASE supply = 0
    <3>1. EmittedOn(t) = 0
      BY <1>1, <1>3, <2>6 DEF EmittedOn
    <3>2. ASSUME NEW u \in Users
          PROVE  gain[u] = 0
      <4>1. \A x \in Users : ledger[x] \in Nat
        BY <1>2
      <4>2. ledger[u] <= Total(ledger, Users)
        BY <4>1, TotalBoundsEntry
      <4>3. ledger[u] = 0
        BY <1>3, <2>6, <4>1, <4>2
      <4> QED
        BY <1>5, <4>3 DEF Due
    <3>3. Total(gain, Users) = 0
      BY <3>2, TotalZero
    <3> QED
      BY <1>7, <2>3, <2>4, <3>1, <3>3
  <2> QED
    BY <1>3, <2>5, <2>6
<1> QED
  BY <1>8, <1>9

\* A second passes: the gains of each user on each maToken, added up by user and
\* by maToken.
LEMMA EmissionStep ==
  ASSUME IncentivesInv, Tick
  PROVE  /\ \A u \in Users : QueryUserUnclaimedRewards(u)' >= QueryUserUnclaimedRewards(u)
         /\ AllRewards' <= AllRewards + Emitted * (time' - time) + Slack
<1> USE IncentivesAssumptions
<1>1. AccruedIsDue
  BY AccruedDue
<1>2. AccruedIsDue'
  <2>1. IncentivesInv'
    BY TickKeeps
  <2> QED
    BY <2>1, AccruedDue, PTL
<1>3. /\ unclaimed' = unclaimed /\ unclaimed \in [Users -> Nat]
      /\ time' - time = 1
  BY DEF Tick, IncentivesInv, TypeOK
<1>4. PICK table : table = [u \in Users |-> [t \in MaTokens |-> DueOn(t, u)' - DueOn(t, u)]]
  OBVIOUS
<1>5. PICK column : column = [t \in MaTokens |-> [u \in Users |-> table[u][t]]]
  OBVIOUS
<1>6. ASSUME NEW t \in MaTokens
      PROVE  /\ column[t] \in [Users -> Nat]
             /\ Total(column[t], Users) <= EmittedOn(t) + SlackOn(t)
             /\ EmittedOn(t) \in Nat /\ SlackOn(t) \in Nat
  <2>1. column[t] = [u \in Users |-> DueOn(t, u)' - DueOn(t, u)]
    BY <1>4, <1>5
  <2> QED
    BY <2>1, GainOnToken
<1>7. table \in [Users -> [MaTokens -> Nat]]
  BY <1>4, <1>5, <1>6
<1>8. PICK rows, before, after : /\ rows = [u \in Users |-> Total(table[u], MaTokens)]
                                 /\ before = [u \in Users |-> QueryUserUnclaimedRewards(u)]
                                 /\ after = [u \in Users |-> QueryUserUnclaimedRewards(u)']
  OBVIOUS
<1>9. ASSUME NEW u \in Users
      PROVE  /\ before[u] \in Nat /\ rows[u] \in Nat /\ after[u] = before[u] + rows[u]
             /\ after[u] \in Nat
  <2>1. PICK f, g, h : f = Accrued(u) /\ g = Accrued(u)' /\ h = table[u]
    OBVIOUS
  <2>2. \A t \in MaTokens : f[t] \in Nat /\ h[t] \in Nat /\ g[t] = f[t] + h[t]
    <3>1. ASSUME NEW t \in MaTokens
          PROVE  f[t] \in Nat /\ h[t] \in Nat /\ g[t] = f[t] + h[t]
      <4>1. /\ f[t] = DueOn(t, u) /\ f[t] \in Nat /\ g[t] = DueOn(t, u)' /\ g[t] \in Nat
        BY <1>1, <1>2, <2>1 DEF AccruedIsDue
      <4>2. h[t] = g[t] - f[t] /\ h[t] \in Nat
        BY <1>4, <1>7, <2>1, <4>1
      <4> QED
        BY <4>1, <4>2
    <3> QED
      BY <3>1
  <2>3. Total(g, MaTokens) = Total(f, MaTokens) + Total(h, MaTokens)
    BY <2>2, TotalPlus
  <2>4. Total(f, MaTokens) \in Nat /\ Total(h, MaTokens) \in Nat
    BY <2>2, TotalType
  <2>5. /\ before[u] = unclaimed[u] + Total(f, MaTokens)
        /\ after[u] = unclaimed[u] + Total(g, MaTokens)
        /\ rows[u] = Total(h, MaTokens) /\ unclaimed[u] \in Nat
    BY <1>1, <1>2, <1>3, <1>8, <2>1 DEF AccruedIsDue
  <2> QED
    BY <2>3, <2>4, <2>5
<1>10. \A u \in Users : QueryUserUnclaimedRewards(u)' >= QueryUserUnclaimedRewards(u)
  BY <1>8, <1>9
<1>11. Total(after, Users) = Total(before, Users) + Total(rows, Users)
  BY <1>9, TotalPlus
<1>12. PICK sums, emitted, slack, both :
         /\ sums = [t \in MaTokens |-> Total(column[t], Users)]
         /\ emitted = [t \in MaTokens |-> EmittedOn(t)]
         /\ slack = [t \in MaTokens |-> SlackOn(t)]
         /\ both = [t \in MaTokens |-> EmittedOn(t) + SlackOn(t)]
  OBVIOUS
<1>13. Total(rows, Users) = Total(sums, MaTokens)
  <2>1. sums = [t \in MaTokens |-> Total([u \in Users |-> table[u][t]], Users)]
    BY <1>5, <1>12
  <2> QED
    BY <1>7, <1>8, <2>1, TotalOfRows
<1>14. Total(sums, MaTokens) <= Total(both, MaTokens)
  <2>1. \A t \in MaTokens : sums[t] \in Nat /\ both[t] \in Nat /\ sums[t] <= both[t]
    <3>1. ASSUME NEW t \in MaTokens
          PROVE  sums[t] \in Nat /\ both[t] \in Nat /\ sums[t] <= both[t]
      <4>1. \A u \in Users : column[t][u] \in Nat
        BY <1>6
      <4>2. Total(column[t], Users) \in Nat
        BY <4>1, TotalType
      <4> QED
        BY <1>6, <1>12, <4>2
    <3> QED
      BY <3>1
  <2> QED
    BY <2>1, TotalMonotone
<1>15. Total(both, MaTokens) = Total(emitted, MaTokens) + Total(slack, MaTokens)
  BY <1>6, <1>12, TotalPlus
<1>16. /\ Total(emitted, MaTokens) = Emitted /\ Total(slack, MaTokens) = Slack
       /\ Total(before, Users) = AllRewards /\ Total(after, Users) = AllRewards'
  BY <1>8, <1>12 DEF Emitted, Slack, AllRewards
<1>17. PICK a, b, c, d, x : /\ a = Total(emitted, MaTokens) /\ b = Total(slack, MaTokens)
                            /\ c = Total(before, Users) /\ d = Total(rows, Users)
                            /\ x = Total(after, Users)
  OBVIOUS
<1>18. a \in Nat /\ b \in Nat /\ c \in Nat /\ d \in Nat
  BY <1>6, <1>9, <1>12, <1>17, TotalType
<1>19. x = c + d /\ d <= a + b
  BY <1>11, <1>13, <1>14, <1>15, <1>17
<1>20. x <= c + a * 1 + b
  BY <1>18, <1>19
<1> QED
  BY <1>3, <1>10, <1>16, <1>17, <1>20

-----------------------------------------------------------------------------
(* The theorems. *)

\* Types, and indexes that do not run ahead, for any holders, maTokens and
\* emissions.
THEOREM IncentivesCorrect == Spec => []IncentivesInv
<1>1. IncentivesInv /\ [Next]_vars => IncentivesInv'
  BY IncentivesStepKeeps
<1> QED
  BY IncentivesInvInit, <1>1, PTL DEF Spec

\* Nobody's index is ahead of its maToken's, whatever is minted, burnt and set in
\* between: no accrual underflows.
THEOREM IndexesStayBehind == Spec => []IndexesDoNotRunAhead
<1>1. IncentivesInv => IndexesDoNotRunAhead
  BY DEF IncentivesInv
<1> QED
  BY IncentivesCorrect, <1>1, PTL

\* No operation on balances or emissions moves rewards from one user to another
\* or makes any up: only time does, and a claim pays exactly what was due.
THEOREM RewardsFollowTime == Spec => RewardsMoveOnlyWithTime
<1>1. IncentivesInv /\ [Next]_vars =>
        [\A u \in Users : time' = time => Unmoved(u)]_vars
  BY IncentivesStepKeeps
<1>2. RewardsMoveOnlyWithTime <=> [][\A u \in Users : time' = time => Unmoved(u)]_vars
  BY DEF RewardsMoveOnlyWithTime, Unmoved
<1> QED
  BY IncentivesCorrect, <1>1, <1>2, PTL DEF Spec

\* A second adds at most what was emitted in it to the rewards of all users, up
\* to the rounding, and takes nothing from anybody.
THEOREM EmissionStaysShared == Spec => EmissionIsShared
<1>1. IncentivesInv /\ [Next]_vars =>
        [time' # time =>
           /\ \A u \in Users : QueryUserUnclaimedRewards(u)' >= QueryUserUnclaimedRewards(u)
           /\ AllRewards' <= AllRewards + Emitted * (time' - time) + Slack]_vars
  <2>1. ASSUME IncentivesInv, Next, time' # time
        PROVE  Tick
    BY <2>1 DEF Next, TokenStep, Mint, Burn, Transfer, IncentivesStep, SetAssetIncentive,
       ClaimRewards, ExecuteCosmosMsg, Fund
  <2> QED
    BY <2>1, EmissionStep
<1> QED
  BY IncentivesCorrect, <1>1, PTL DEF Spec, EmissionIsShared

=============================================================================
