---------------------------- MODULE XMarsProofs -----------------------------
(***************************************************************************)
(* What xMARS guarantees for any holders, amounts, cap, allowances and     *)
(* slashes: the token, its snapshots and its spenders first, and then the  *)
(* staking contract that mints and burns it for MARS.                      *)
(***************************************************************************)
EXTENDS XMarsToken, Staking, CommonProofs

-----------------------------------------------------------------------------
(* The ledger and its snapshots. *)

\* SnapshotsAddUp is not inductive: the last snapshots must be the balances and
\* the supply, which must be their sum.
XMarsInv ==
  /\ height \in Nat \ {0}
  /\ xmars \in [Accounts -> Nat]
  /\ xmarsSupply = Total(xmars, Accounts) /\ WithinCap(xmarsSupply)
  /\ \A u \in Accounts : /\ IsHistory(balanceSnapshots[u], height)
                         /\ ValueAt(balanceSnapshots[u], height) = xmars[u]
  /\ IsHistory(supplySnapshots, height)
  /\ ValueAt(supplySnapshots, height) = xmarsSupply
  /\ SnapshotsAddUp

ApprovalInv ==
  /\ allowances \in [Approvals -> [amount : Nat, expires : Nat \cup {Never}]]
  /\ credit \in [Approvals -> Nat]
  /\ SpentWithinGrants

TokenInv == XMarsInv /\ ApprovalInv

\* The past is what it was: in no block before the present one do the snapshots
\* answer anything else.
PastStays ==
  \A block \in 0 .. height - 1 : BalanceAt(block)' = BalanceAt(block)

\* The first balances are captured.
LEMMA XMarsInvInit == XMarsInit => XMarsInv
<1> SUFFICES ASSUME XMarsInit
             PROVE  XMarsInv
  OBVIOUS
<1> DEFINE supply == Total(FirstBalances, Accounts)
<1>1. FirstBalances \in [Accounts -> Nat] /\ IsFiniteSet(Accounts)
  BY XMarsAssumptions DEF FirstBalances
<1>2. supply \in Nat
  BY <1>1, TotalType
<1> HIDE DEF supply
<1>3. /\ height = 1 /\ xmars = FirstBalances /\ xmarsSupply = supply /\ WithinCap(supply)
      /\ supplySnapshots = IF supply > 0 THEN Captured(NoHistory, height, supply)
                                         ELSE NoHistory
      /\ \A u \in Accounts : balanceSnapshots[u] =
           IF u \in DOMAIN InitialBalances THEN Captured(NoHistory, height, FirstBalances[u])
                                           ELSE NoHistory
  BY DEF XMarsInit, supply
<1>4. IsHistory(NoHistory, 1)
  BY DEF IsHistory, NoHistory
<1>5. ASSUME NEW amount \in Nat
      PROVE  /\ IsHistory(Captured(NoHistory, 1, amount), 1)
             /\ ValueAt(Captured(NoHistory, 1, amount), 1) = amount
             /\ ValueAt(Captured(NoHistory, 1, amount), 0) = 0
  BY <1>4, ValueAtCaptured, ValueAtNothing
<1>6. /\ IsHistory(supplySnapshots, 1) /\ ValueAt(supplySnapshots, 1) = supply
      /\ ValueAt(supplySnapshots, 0) = 0
  BY <1>2, <1>3, <1>4, <1>5, ValueAtNothing
<1>7. ASSUME NEW u \in Accounts
      PROVE  /\ IsHistory(balanceSnapshots[u], 1)
             /\ ValueAt(balanceSnapshots[u], 1) = FirstBalances[u]
             /\ ValueAt(balanceSnapshots[u], 0) = 0
  <2>1. FirstBalances[u] \in Nat
    BY <1>1
  <2>2. CASE u \in DOMAIN InitialBalances
    BY <1>3, <1>5, <2>1, <2>2
  <2>3. CASE u \notin DOMAIN InitialBalances
    <3>1. FirstBalances[u] = 0 /\ balanceSnapshots[u] = NoHistory
      BY <1>3, <2>3 DEF FirstBalances
    <3> QED
      BY <1>4, <3>1, ValueAtNothing
  <2> QED
    BY <2>2, <2>3
<1>8. SnapshotsAddUp
  <2>1. Total(BalanceAt(0), Accounts) = 0
    BY <1>7, TotalZero DEF BalanceAt
  <2>2. Total(BalanceAt(1), Accounts) = Total(FirstBalances, Accounts)
    BY <1>7, TotalAgree DEF BalanceAt
  <2>3. 0 .. height = {0, 1}
    BY <1>3
  <2> QED
    BY <1>6, <2>1, <2>2, <2>3 DEF SnapshotsAddUp, TotalSupplyAt, supply
<1> QED
  BY <1>1, <1>3, <1>6, <1>7, <1>8 DEF XMarsInv, supply

\* A ledger is set and the balances that changed are captured.
LEMMA BalancesStep ==
  ASSUME XMarsInv, NEW ledger \in [Accounts -> Nat], NEW us,
         \A u \in Accounts \ us : ledger[u] = xmars[u],
         SetBalances(ledger, us)
  PROVE  /\ xmars' = ledger
         /\ \A u \in Accounts :
              /\ IsHistory(balanceSnapshots'[u], height)
              /\ ValueAt(balanceSnapshots'[u], height) = ledger[u]
              /\ \A block \in 0 .. height - 1 :
                   ValueAt(balanceSnapshots'[u], block) = ValueAt(balanceSnapshots[u], block)
<1>1. ASSUME NEW u \in Accounts
      PROVE  /\ IsHistory(balanceSnapshots'[u], height)
             /\ ValueAt(balanceSnapshots'[u], height) = ledger[u]
             /\ \A block \in 0 .. height - 1 :
                  ValueAt(balanceSnapshots'[u], block) = ValueAt(balanceSnapshots[u], block)
  <2>1. /\ IsHistory(balanceSnapshots[u], height) /\ height \in Nat \ {0}
        /\ ValueAt(balanceSnapshots[u], height) = xmars[u] /\ ledger[u] \in Nat
    BY DEF XMarsInv
  <2>2. CASE u \in us
    <3>1. balanceSnapshots'[u] = Captured(balanceSnapshots[u], height, ledger[u])
      BY <2>2 DEF SetBalances
    <3> QED
      BY <2>1, <3>1, ValueAtCaptured
  <2>3. CASE u \notin us
    <3>1. balanceSnapshots'[u] = balanceSnapshots[u] /\ ledger[u] = xmars[u]
      BY <2>3 DEF SetBalances
    <3> QED
      BY <2>1, <3>1
  <2> QED
    BY <2>2, <2>3
<1> QED
  BY <1>1 DEF SetBalances

\* A step within a block that keeps the supply the sum of the balances, and
\* captures both, keeps the past.
LEMMA LedgerStep ==
  ASSUME XMarsInv, height' = height, NEW ledger \in [Accounts -> Nat], NEW us, NEW supply,
         \A u \in Accounts \ us : ledger[u] = xmars[u],
         SetBalances(ledger, us),
         \/ SetSupply(supply)
         \/ UNCHANGED <<xmarsSupply, supplySnapshots>> /\ supply = xmarsSupply,
         supply = Total(ledger, Accounts), WithinCap(supply)
  PROVE  XMarsInv' /\ PastStays
<1>1. /\ xmars' = ledger
      /\ \A u \in Accounts :
           /\ IsHistory(balanceSnapshots'[u], height)
           /\ ValueAt(balanceSnapshots'[u], height) = ledger[u]
           /\ \A block \in 0 .. height - 1 :
                ValueAt(balanceSnapshots'[u], block) = ValueAt(balanceSnapshots[u], block)
  BY BalancesStep
<1>2. supply \in Nat /\ height \in Nat \ {0} /\ IsHistory(supplySnapshots, height)
  BY TotalType, XMarsAssumptions DEF XMarsInv
<1>3. /\ xmarsSupply' = supply
      /\ IsHistory(supplySnapshots', height) /\ ValueAt(supplySnapshots', height) = supply
      /\ \A block \in 0 .. height - 1 :
           ValueAt(supplySnapshots', block) = ValueAt(supplySnapshots, block)
  <2>1. CASE SetSupply(supply)
    <3>1. supplySnapshots' = Captured(supplySnapshots, height, supply) /\ xmarsSupply' = supply
      BY <2>1 DEF SetSupply
    <3> QED
      BY <1>2, <3>1, ValueAtCaptured
  <2>2. CASE UNCHANGED <<xmarsSupply, supplySnapshots>> /\ supply = xmarsSupply
    BY <2>2 DEF XMarsInv
  <2> QED
    BY <2>1, <2>2
<1>4. PastStays
  BY <1>1 DEF PastStays, BalanceAt
<1>5. SnapshotsAddUp'
  <2>1. ASSUME NEW block \in 0 .. height - 1
        PROVE  Total(BalanceAt(block)', Accounts) = TotalSupplyAt(block)'
    <3>1. Total(BalanceAt(block), Accounts) = TotalSupplyAt(block)
      BY <1>2 DEF XMarsInv, SnapshotsAddUp
    <3>2. BalanceAt(block)' = BalanceAt(block) /\ TotalSupplyAt(block)' = TotalSupplyAt(block)
      BY <1>3, <1>4 DEF PastStays, TotalSupplyAt
    <3> QED
      BY <3>1, <3>2
  <2>2. Total(BalanceAt(height)', Accounts) = TotalSupplyAt(height)'
    <3>1. BalanceAt(height)' = [u \in Accounts |-> ValueAt(balanceSnapshots'[u], height)]
      BY DEF BalanceAt
    <3>2. Total(BalanceAt(height)', Accounts) = Total(ledger, Accounts)
      BY <1>1, <3>1, TotalAgree
    <3> QED
      BY <1>3, <3>2 DEF TotalSupplyAt
  <2>3. \A block \in 0 .. height : block = height \/ block \in 0 .. height - 1
    BY <1>2
  <2> QED
    BY <2>1, <2>2, <2>3 DEF SnapshotsAddUp, BalanceAt, TotalSupplyAt
<1> QED
  BY <1>1, <1>2, <1>3, <1>4, <1>5 DEF XMarsInv

LEMMA TransferXMarsStep ==
  ASSUME XMarsInv, height' = height,
         NEW sender \in Accounts, NEW recipient \in Accounts, NEW amount \in Nat,
         TransferXMars(sender, recipient, amount)
  PROVE  XMarsInv' /\ PastStays
<1> DEFINE debited == Debit(xmars, sender, amount)
           ledger == Credit(debited, recipient, amount)
<1>1. /\ xmars \in [Accounts -> Nat] /\ IsFiniteSet(Accounts) /\ amount <= xmars[sender]
      /\ xmarsSupply = Total(xmars, Accounts) /\ WithinCap(xmarsSupply)
  BY XMarsAssumptions DEF XMarsInv, TransferXMars
<1>2. /\ debited \in [Accounts -> Nat] /\ Total(debited, Accounts) = xmarsSupply - amount
      /\ xmarsSupply \in Nat /\ amount <= xmarsSupply
  BY <1>1, TotalDebit, TotalType
<1>3. ledger \in [Accounts -> Nat] /\ Total(ledger, Accounts) = (xmarsSupply - amount) + amount
  <2>1. PICK middle : middle = debited
    OBVIOUS
  <2>2. /\ Credit(middle, recipient, amount) \in [Accounts -> Nat]
        /\ Total(Credit(middle, recipient, amount), Accounts) = Total(middle, Accounts) + amount
    BY <1>1, <1>2, <2>1, TotalCredit
  <2> QED
    BY <1>2, <2>1, <2>2
<1>4. \A u \in Accounts \ {sender, recipient} : ledger[u] = xmars[u]
  BY <1>1 DEF Credit, Debit
<1>5. /\ SetBalances(ledger, {sender, recipient})
      /\ UNCHANGED <<xmarsSupply, supplySnapshots>>
  BY DEF TransferXMars
<1> HIDE DEF ledger
<1> QED
  BY <1>1, <1>2, <1>3, <1>4, <1>5, LedgerStep

LEMMA MintStep ==
  ASSUME XMarsInv, height' = height, NEW recipient \in Accounts, NEW amount \in Nat,
         MintXMars(recipient, amount)
  PROVE  XMarsInv' /\ PastStays
<1> DEFINE ledger == Credit(xmars, recipient, amount)
<1>1. /\ xmars \in [Accounts -> Nat] /\ IsFiniteSet(Accounts)
      /\ xmarsSupply = Total(xmars, Accounts)
  BY XMarsAssumptions DEF XMarsInv
<1>2. ledger \in [Accounts -> Nat] /\ Total(ledger, Accounts) = xmarsSupply + amount
  BY <1>1, TotalCredit
<1>3. \A u \in Accounts \ {recipient} : ledger[u] = xmars[u]
  BY <1>1 DEF Credit
<1>4. /\ SetBalances(ledger, {recipient}) /\ SetSupply(xmarsSupply + amount)
      /\ WithinCap(xmarsSupply + amount)
  BY DEF MintXMars
<1> HIDE DEF ledger
<1> QED
  BY <1>2, <1>3, <1>4, LedgerStep

\* A burn by the owner, or by the contract the tokens were sent to.
LEMMA BurnStep ==
  ASSUME XMarsInv, height' = height, NEW owner \in Accounts, NEW contract \in Accounts,
         NEW amount \in Nat,
         BurnXMars(owner, amount) \/ SendAndBurnXMars(owner, contract, amount)
  PROVE  XMarsInv' /\ PastStays
<1> DEFINE ledger == Debit(xmars, owner, amount)
<1>1. /\ xmars \in [Accounts -> Nat] /\ IsFiniteSet(Accounts) /\ amount <= xmars[owner]
      /\ xmarsSupply = Total(xmars, Accounts) /\ WithinCap(xmarsSupply)
  BY XMarsAssumptions DEF XMarsInv, BurnXMars, SendAndBurnXMars
<1>2. /\ ledger \in [Accounts -> Nat] /\ Total(ledger, Accounts) = xmarsSupply - amount
      /\ xmarsSupply \in Nat
  BY <1>1, TotalDebit, TotalType
<1>3. \A u \in Accounts \ {owner} : ledger[u] = xmars[u]
  BY <1>1 DEF Debit
<1>4. WithinCap(xmarsSupply - amount)
  BY <1>1, <1>2, XMarsAssumptions DEF WithinCap
<1>5. /\ SetBalances(ledger, {owner}) \/ SetBalances(ledger, {owner, contract})
      /\ SetSupply(xmarsSupply - amount)
  BY DEF BurnXMars, SendAndBurnXMars
<1> HIDE DEF ledger
<1>6. PICK us : SetBalances(ledger, us) /\ \A u \in Accounts \ us : ledger[u] = xmars[u]
  BY <1>3, <1>5
<1> QED
  BY <1>2, <1>4, <1>5, <1>6, LedgerStep

\* The block ends: what was captured last is what the snapshots answer for it.
LEMMA NextBlockStep ==
  ASSUME XMarsInv, NextBlock
  PROVE  /\ XMarsInv' /\ PastStays
         /\ \A block : block = height => BalanceAt(block)' = xmars
<1>1. /\ height' = height + 1 /\ xmars' = xmars /\ xmarsSupply' = xmarsSupply
      /\ balanceSnapshots' = balanceSnapshots /\ supplySnapshots' = supplySnapshots
      /\ height \in Nat \ {0}
  BY DEF NextBlock, xmarsVars, XMarsInv
<1>2. \A u \in Accounts : /\ IsHistory(balanceSnapshots[u], height)
                          /\ ValueAt(balanceSnapshots[u], height) = xmars[u]
  BY DEF XMarsInv
<1>3. \A u \in Accounts : /\ IsHistory(balanceSnapshots[u], height + 1)
                          /\ ValueAt(balanceSnapshots[u], height + 1) = xmars[u]
  <2>1. ASSUME NEW u \in Accounts
        PROVE  /\ IsHistory(balanceSnapshots[u], height + 1)
               /\ ValueAt(balanceSnapshots[u], height + 1)
                    = ValueAt(balanceSnapshots[u], height)
    <3>1. IsHistory(balanceSnapshots[u], height + 1)
      BY <1>1, <1>2 DEF IsHistory
    <3> QED
      BY <1>1, <1>2, <3>1, ValueAtLater
  <2> QED
    BY <1>2, <2>1
<1>4. /\ IsHistory(supplySnapshots, height + 1)
      /\ ValueAt(supplySnapshots, height + 1) = ValueAt(supplySnapshots, height)
  <2>1. IsHistory(supplySnapshots, height)
    BY DEF XMarsInv
  <2>2. IsHistory(supplySnapshots, height + 1)
    BY <1>1, <2>1 DEF IsHistory
  <2> QED
    BY <1>1, <2>1, <2>2, ValueAtLater
<1>5. \A block : BalanceAt(block)' = BalanceAt(block) /\ TotalSupplyAt(block)' = TotalSupplyAt(block)
  BY <1>1 DEF BalanceAt, TotalSupplyAt
<1>6. SnapshotsAddUp'
  <2>1. \A block \in 0 .. height : Total(BalanceAt(block), Accounts) = TotalSupplyAt(block)
    BY DEF XMarsInv, SnapshotsAddUp
  <2>2. Total(BalanceAt(height + 1), Accounts) = TotalSupplyAt(height + 1)
    <3>1. Total(BalanceAt(height + 1), Accounts) = Total(xmars, Accounts)
      BY <1>3, TotalAgree DEF BalanceAt
    <3> QED
      BY <1>4, <3>1 DEF TotalSupplyAt, XMarsInv
  <2>3. \A block \in 0 .. height' : block = height + 1 \/ block \in 0 .. height
    BY <1>1
  <2>4. \A block \in 0 .. height' : Total(BalanceAt(block), Accounts) = TotalSupplyAt(block)
    BY <2>1, <2>2, <2>3
  <2> QED
    BY <1>1, <2>4 DEF SnapshotsAddUp, BalanceAt, TotalSupplyAt
<1>7. XMarsInv'
  BY <1>1, <1>3, <1>4, <1>6 DEF XMarsInv
<1>8. BalanceAt(height) = xmars
  BY <1>2 DEF BalanceAt, XMarsInv
<1> QED
  BY <1>5, <1>7, <1>8 DEF PastStays

-----------------------------------------------------------------------------
(* The token with its allowances. *)

LEMMA TokenStepKeeps ==
  ASSUME XMarsInv, height' = height, NEW u \in Accounts, NEW amount \in Amounts,
         TokenStep(u, amount)
  PROVE  XMarsInv' /\ PastStays
<1>1. amount \in Nat /\ StakingContract \in Accounts
  BY XMarsAssumptions
<1> QED
  BY <1>1, MintStep, BurnStep, TransferXMarsStep DEF TokenStep

\* What a spender does is what the owner might have done itself.
LEMMA SpenderActsForOwner ==
  ASSUME NEW p \in Approvals, NEW amount \in Amounts, SpenderStep(p, amount)
  PROVE  height' = height /\ TokenStep(p[1], amount) /\ p[1] \in Accounts
<1>1. p[1] \in Accounts /\ StakingContract \in Accounts
  BY XMarsTokenAssumptions, XMarsAssumptions
<1> QED
  BY <1>1 DEF SpenderStep, TransferFrom, BurnFrom, SendFrom, TokenStep

LEMMA SpenderLedger ==
  ASSUME XMarsInv, NEW p \in Approvals, NEW amount \in Amounts, SpenderStep(p, amount)
  PROVE  height' = height /\ XMarsInv' /\ PastStays
  BY SpenderActsForOwner, TokenStepKeeps

LEMMA OwnerLedger ==
  ASSUME XMarsInv, UNCHANGED <<height, xmarsVars>>
  PROVE  XMarsInv' /\ PastStays
<1>1. /\ height' = height /\ xmars' = xmars /\ xmarsSupply' = xmarsSupply
      /\ balanceSnapshots' = balanceSnapshots /\ supplySnapshots' = supplySnapshots
  BY DEF xmarsVars
<1> QED
  BY <1>1 DEF XMarsInv, PastStays, SnapshotsAddUp, BalanceAt, TotalSupplyAt

\* What an owner lets, reduces and what a spender uses keeps the entry within
\* what was granted and not used.
LEMMA EntryStep ==
  ASSUME ApprovalInv, NEW p \in Approvals, NEW entry, NEW left \in Nat,
         entry \in [amount : Nat, expires : Nat \cup {Never}], entry.amount <= left,
         allowances' = [allowances EXCEPT ![p] = entry],
         credit' = [credit EXCEPT ![p] = left]
  PROVE  ApprovalInv'
  BY DEF ApprovalInv, SpentWithinGrants

LEMMA ApprovalStep ==
  ASSUME ApprovalInv, NEW p \in Approvals, NEW amount \in Amounts,
         OwnerStep(p, amount) \/ SpenderStep(p, amount)
  PROVE  ApprovalInv'
<1> DEFINE old == allowances[p]
           c == credit[p]
<1>1. /\ old \in [amount : Nat, expires : Nat \cup {Never}] /\ c \in Nat /\ old.amount <= c
      /\ amount \in Nat
      /\ credit \in [Approvals -> Nat]
  BY XMarsAssumptions DEF ApprovalInv, SpentWithinGrants
<1>2. ASSUME NEW expires \in Expirations \cup {Never}, IncreaseAllowance(p, amount, expires)
      PROVE  ApprovalInv'
  <2>1. /\ allowances' = [allowances EXCEPT ![p] = Increased(old, amount, expires)]
        /\ credit' = [credit EXCEPT ![p] = c + amount]
    BY <1>2 DEF IncreaseAllowance
  <2>2. expires \in Nat \cup {Never}
    BY XMarsTokenAssumptions
  <2>3. /\ Increased(old, amount, expires) \in [amount : Nat, expires : Nat \cup {Never}]
        /\ Increased(old, amount, expires).amount = old.amount + amount
    BY <1>1, <2>2 DEF Increased, Expiring
  <2>4. PICK entry, left : entry = Increased(old, amount, expires) /\ left = c + amount
    OBVIOUS
  <2>5. /\ left \in Nat /\ entry \in [amount : Nat, expires : Nat \cup {Never}]
        /\ entry.amount <= left
        /\ allowances' = [allowances EXCEPT ![p] = entry] /\ credit' = [credit EXCEPT ![p] = left]
    BY <1>1, <2>1, <2>3, <2>4
  <2> QED
    BY <2>5, EntryStep
<1>3. ASSUME NEW expires \in Expirations \cup {Never}, DecreaseAllowance(p, amount, expires)
      PROVE  ApprovalInv'
  <2>1. /\ allowances' = [allowances EXCEPT ![p] = Decreased(old, amount, expires)]
        /\ credit' = [credit EXCEPT ![p] = c]
    BY <1>1, <1>3 DEF DecreaseAllowance
  <2>2. expires \in Nat \cup {Never}
    BY XMarsTokenAssumptions
  <2>3. /\ Decreased(old, amount, expires) \in [amount : Nat, expires : Nat \cup {Never}]
        /\ Decreased(old, amount, expires).amount <= old.amount
    BY <1>1, <2>2 DEF Decreased, Expiring, NoAllowance
  <2>4. PICK entry, left : entry = Decreased(old, amount, expires) /\ left = c
    OBVIOUS
  <2>5. /\ left \in Nat /\ entry \in [amount : Nat, expires : Nat \cup {Never}]
        /\ entry.amount <= left
        /\ allowances' = [allowances EXCEPT ![p] = entry] /\ credit' = [credit EXCEPT ![p] = left]
    BY <1>1, <2>1, <2>3, <2>4
  <2> QED
    BY <2>5, EntryStep
<1>4. ASSUME DeductAllowance(p, amount)
      PROVE  ApprovalInv'
  <2>1. /\ allowances' = [allowances EXCEPT ![p] = Deducted(old, amount)]
        /\ credit' = [credit EXCEPT ![p] = c - amount]
        /\ amount <= old.amount
    BY <1>4 DEF DeductAllowance, MaySpend
  <2>2. /\ Deducted(old, amount) \in [amount : Nat, expires : Nat \cup {Never}]
        /\ Deducted(old, amount).amount = old.amount - amount
    BY <1>1, <2>1 DEF Deducted
  <2>4. PICK entry, left : entry = Deducted(old, amount) /\ left = c - amount
    OBVIOUS
  <2>5. /\ left \in Nat /\ entry \in [amount : Nat, expires : Nat \cup {Never}]
        /\ entry.amount <= left
        /\ allowances' = [allowances EXCEPT ![p] = entry] /\ credit' = [credit EXCEPT ![p] = left]
    BY <1>1, <2>1, <2>2, <2>4
  <2> QED
    BY <2>5, EntryStep
<1> QED
  BY <1>2, <1>3, <1>4 DEF OwnerStep, SpenderStep, TransferFrom, BurnFrom, SendFrom

LEMMA TokenInvInit == TokenInit => TokenInv
<1>1. TokenInit => XMarsInv
  BY XMarsInvInit DEF TokenInit
<1>2. TokenInit => ApprovalInv
  BY DEF TokenInit, ApprovalInv, SpentWithinGrants, NoAllowance
<1> QED
  BY <1>1, <1>2 DEF TokenInv

LEMMA TokenInvStep ==
  ASSUME TokenInv, [TokenNext]_tokenVars
  PROVE  TokenInv' /\ PastStays
<1> USE DEF TokenInv
<1>1. ASSUME XMarsNext, UNCHANGED approvalVars
      PROVE  TokenInv' /\ PastStays
  <2>1. XMarsInv' /\ PastStays
    BY <1>1, TokenStepKeeps, NextBlockStep DEF XMarsNext
  <2>2. ApprovalInv'
    BY <1>1 DEF approvalVars, ApprovalInv, SpentWithinGrants
  <2> QED
    BY <2>1, <2>2
<1>2. ASSUME NEW p \in Approvals, NEW amount \in Amounts, OwnerStep(p, amount)
      PROVE  TokenInv' /\ PastStays
  <2>1. UNCHANGED <<height, xmarsVars>>
    BY <1>2 DEF OwnerStep, IncreaseAllowance, DecreaseAllowance
  <2> QED
    BY <1>2, <2>1, OwnerLedger, ApprovalStep
<1>3. ASSUME NEW p \in Approvals, NEW amount \in Amounts, SpenderStep(p, amount)
      PROVE  TokenInv' /\ PastStays
  BY <1>3, SpenderLedger, ApprovalStep
<1>4. CASE UNCHANGED tokenVars
  <2>1. ApprovalInv'
    BY <1>4 DEF tokenVars, approvalVars, ApprovalInv, SpentWithinGrants
  <2> QED
    BY <1>4, <2>1, OwnerLedger DEF tokenVars
<1> QED
  BY <1>1, <1>2, <1>3, <1>4 DEF TokenNext

\* The strengthened invariant holds for any holders, cap, amounts and grants.
THEOREM TokenCorrect == TokenSpec => []TokenInv
<1>1. TokenInit => TokenInv
  BY TokenInvInit
<1>2. TokenInv /\ [TokenNext]_tokenVars => TokenInv'
  BY TokenInvStep
<1> QED
  BY <1>1, <1>2, PTL DEF TokenSpec

\* For every block the balances remembered add up to the supply remembered: a
\* quorum is counted against exactly the votes that can be cast.
THEOREM SnapshotsStaySums == TokenSpec => []SnapshotsAddUp
<1>1. TokenInv => SnapshotsAddUp
  BY DEF TokenInv, XMarsInv
<1> QED
  BY <1>1, TokenCorrect, PTL

\* However grants, reductions and uses follow each other, no spender moves more
\* than the owner granted it.
THEOREM SpendersStayWithinGrants == TokenSpec => []SpentWithinGrants
<1>1. TokenInv => SpentWithinGrants
  BY DEF TokenInv, ApprovalInv
<1> QED
  BY <1>1, TokenCorrect, PTL

-----------------------------------------------------------------------------
(* The balances are a voting power. *)

\* The balances remembered for the past blocks, as XMarsIsVotingPower has them.
Remembered == [block \in 1 .. height - 1 |-> BalanceAt(block)]

LEMMA RememberedType ==
  ASSUME XMarsInv
  PROVE  Remembered \in [1 .. height - 1 -> [Accounts -> Nat]]
<1>1. ASSUME NEW block \in 1 .. height - 1
      PROVE  BalanceAt(block) \in [Accounts -> Nat]
  <2>1. \A u \in Accounts : IsHistory(balanceSnapshots[u], height) /\ height \in Nat /\ block \in Nat
    BY DEF XMarsInv
  <2>2. \A u \in Accounts : ValueAt(balanceSnapshots[u], block) \in Nat
    BY <2>1, ValueAtType
  <2> QED
    BY <2>2 DEF BalanceAt
<1> QED
  BY <1>1 DEF Remembered

\* No balance exceeds the cap.
LEMMA BalancesWithinCap ==
  ASSUME NEW ledger \in [Accounts -> Nat], WithinCap(Total(ledger, Accounts))
  PROVE  ledger \in [Accounts -> 0 .. MaxXMars]
<1>1. /\ IsFiniteSet(Accounts) /\ MaxXMars \in Nat
      /\ Total(ledger, Accounts) <= MaxXMars /\ Total(ledger, Accounts) \in Nat
  BY TotalType, XMarsAssumptions DEF WithinCap
<1>2. ASSUME NEW u \in Accounts
      PROVE  ledger[u] \in 0 .. MaxXMars
  <2>1. ledger[u] <= Total(ledger, Accounts) /\ ledger[u] \in Nat
    BY <1>1, TotalBoundsEntry
  <2> QED
    BY <1>1, <2>1
<1> QED
  BY <1>2

\* A step within a block changes the power and nothing that is sealed.
LEMMA WithinBlock ==
  ASSUME XMarsInv, XMarsInv', PastStays, height' = height
  PROVE  Implemented!ChangePower
<1>1. xmars' \in [Accounts -> 0 .. MaxXMars]
  <2>1. /\ xmars' \in [Accounts -> Nat] /\ xmarsSupply' = Total(xmars', Accounts)
        /\ xmarsSupply' <= MaxXMars
    BY DEF XMarsInv, WithinCap
  <2> QED
    BY <2>1, BalancesWithinCap DEF WithinCap
<1>2. Remembered' = Remembered
  <2>1. \A block \in 1 .. height - 1 : BalanceAt(block)' = BalanceAt(block)
    BY DEF PastStays, XMarsInv
  <2> QED
    BY <2>1 DEF Remembered
<1> QED
  BY <1>1, <1>2 DEF Implemented!ChangePower, Remembered

\* The end of a block seals the balances it ends with.
LEMMA BlockIsSealed ==
  ASSUME XMarsInv, NextBlock
  PROVE  Implemented!SealBlock
<1>1. /\ height' = height + 1 /\ xmars' = xmars /\ height \in Nat \ {0}
      /\ xmars \in [Accounts -> Nat]
  BY DEF NextBlock, xmarsVars, XMarsInv
<1>2. /\ PastStays /\ \A block : block = height => BalanceAt(block)' = xmars
  BY NextBlockStep
<1>3. PICK past, after : past = Remembered /\ after = Remembered'
  OBVIOUS
<1>4. past \in [1 .. height - 1 -> [Accounts -> Nat]]
  BY <1>3, RememberedType
<1>5. /\ 1 .. height' - 1 = 1 .. height
      /\ after = [b \in 1 .. height' - 1 |-> BalanceAt(b)']
  BY <1>1, <1>3 DEF Remembered
<1>6. after = [b \in 1 .. height |-> after[b]] /\ after[height] = xmars
  BY <1>1, <1>2, <1>5
<1>7. \A b \in 1 .. height - 1 : after[b] = past[b]
  BY <1>1, <1>2, <1>3, <1>5 DEF PastStays, Remembered
<1>8. after = Append(past, xmars)
  <2>1. PICK now, last, S : now = height /\ last = xmars /\ S = [Accounts -> Nat]
    OBVIOUS
  <2>2. now \in Nat \ {0} /\ last \in S /\ past \in [1 .. now - 1 -> S]
    BY <1>1, <1>4, <2>1
  <2>3. after[now] = last /\ \A b \in 1 .. now - 1 : after[b] = past[b]
    BY <1>6, <1>7, <2>1
  <2>4. after \in [1 .. now -> S]
    <3>1. ASSUME NEW b \in 1 .. now
          PROVE  after[b] \in S
      <4>1. b = now \/ b \in 1 .. now - 1
        BY <2>2
      <4> QED
        BY <2>2, <2>3, <4>1
    <3>2. after = [b \in 1 .. now |-> after[b]]
      BY <1>6, <2>1
    <3> QED
      BY <3>1, <3>2
  <2>5. after = Append(past, last)
    BY <2>2, <2>3, <2>4, Sealing
  <2> QED
    BY <2>1, <2>5
<1>9. Remembered' = Append(Remembered, xmars)
  BY <1>3, <1>8
<1> QED
  BY <1>1, <1>9 DEF Implemented!SealBlock, Remembered

LEMMA PowerStep ==
  ASSUME TokenInv, TokenInv', [TokenNext]_tokenVars
  PROVE  [Implemented!ChangePower \/ Implemented!SealBlock]_Implemented!powerVars
<1> USE DEF TokenInv
<1>1. PastStays
  BY TokenInvStep
<1>2. CASE height' = height
  BY <1>1, <1>2, WithinBlock
<1>3. CASE NextBlock
  BY <1>3, BlockIsSealed
<1>4. NextBlock \/ height' = height
  <2>1. ASSUME NEW p \in Approvals, NEW amount \in Amounts, SpenderStep(p, amount)
        PROVE  height' = height
    BY <2>1, SpenderLedger
  <2>2. ASSUME NEW p \in Approvals, NEW amount \in Amounts, OwnerStep(p, amount)
        PROVE  height' = height
    BY <2>2 DEF OwnerStep, IncreaseAllowance, DecreaseAllowance
  <2> QED
    BY <2>1, <2>2 DEF TokenNext, XMarsNext, tokenVars
<1> QED
  BY <1>2, <1>3, <1>4

\* The token with its snapshots implements what the council relies on: what it
\* answers for a past block is what the balances were when that block ended.
THEOREM BalancesAreVotingPower == TokenSpec => XMarsIsVotingPower
<1>1. TokenInit => Implemented!PowerInit
  <2> SUFFICES ASSUME TokenInit
               PROVE  Implemented!PowerInit
    OBVIOUS
  <2>1. height = 1 /\ xmars = FirstBalances
    BY DEF TokenInit, XMarsInit
  <2>2. [block \in 1 .. height - 1 |-> BalanceAt(block)] = <<>>
    BY <2>1
  <2> QED
    BY <2>1, <2>2 DEF Implemented!PowerInit
<1>2. TokenInv /\ TokenInv' /\ [TokenNext]_tokenVars
        => [Implemented!ChangePower \/ Implemented!SealBlock]_Implemented!powerVars
  BY PowerStep
<1> QED
  BY <1>1, <1>2, TokenCorrect, PTL DEF TokenSpec, XMarsIsVotingPower, Implemented!PowerSpec

\* Allowances add no behaviour to the ledger and its snapshots: the token with
\* allowances implements the token by itself.
THEOREM AllowancesAddNothing == TokenSpec => XMarsSpec
<1>1. TokenInit => XMarsInit
  BY DEF TokenInit
<1>2. [TokenNext]_tokenVars => [XMarsNext]_<<height, xmarsVars>>
  <2> SUFFICES ASSUME [TokenNext]_tokenVars
               PROVE  [XMarsNext]_<<height, xmarsVars>>
    OBVIOUS
  <2>1. ASSUME NEW p \in Approvals, NEW amount \in Amounts, SpenderStep(p, amount)
        PROVE  XMarsNext
    BY <2>1, SpenderActsForOwner DEF XMarsNext
  <2>2. ASSUME NEW p \in Approvals, NEW amount \in Amounts, OwnerStep(p, amount)
        PROVE  UNCHANGED <<height, xmarsVars>>
    BY <2>2 DEF OwnerStep, IncreaseAllowance, DecreaseAllowance
  <2> QED
    BY <2>1, <2>2 DEF TokenNext, tokenVars
<1> QED
  BY <1>1, <1>2, PTL DEF TokenSpec, XMarsSpec

-----------------------------------------------------------------------------
(* The staking contract: arithmetic of its ratios. *)

\* A quotient is below what its dividend is below.
LEMMA DivLess ==
  ASSUME NEW a \in Nat, NEW q \in Nat, NEW b \in Nat \ {0}, a < (q + 1) * b
  PROVE  a \div b <= q
<1>1. a \div b \in Nat /\ (a \div b) * b <= a
  BY DivFloor
<1>2. PICK r \in Nat : r = a \div b
  BY <1>1
<1>3. SUFFICES ASSUME r >= q + 1
               PROVE  FALSE
  BY <1>2
<1>4. (q + 1) * b <= r * b
  BY <1>3, ProductMono
<1>5. r * b \in Nat /\ (q + 1) * b \in Nat /\ r * b <= a
  BY <1>1, <1>2, ProductType
<1> QED
  BY <1>4, <1>5

\* What the ratio of a transfer to the balance leaves of the balance.
LEMMA LeftByRatio ==
  ASSUME NEW M \in Nat, NEW a \in 1 .. M
  PROVE  /\ FromRatio(a, M) \in 0 .. One
         /\ One - FromRatio(a, M) \in 0 .. One
         /\ (M - a) * One <= (One - FromRatio(a, M)) * M
         /\ (One - FromRatio(a, M)) * M < (M - a) * One + M
<1>1. M \in Nat \ {0} /\ a \in Nat /\ a <= M /\ One \in Nat \ {0} /\ a * One \in Nat
  BY OneAssumption, ProductType
<1>2. PICK q : q = FromRatio(a, M)
  OBVIOUS
<1>3. q \in Nat /\ q <= One
  BY <1>1, <1>2, FromRatioType, FromRatioOfPart
<1>4. q * M <= a * One /\ a * One < q * M + M
  BY <1>1, <1>2, DivFloor DEF FromRatio
<1>5. PICK k \in Nat : k = One - q /\ k <= One
  BY <1>1, <1>3
<1>6. k * M = One * M - q * M
  BY <1>1, <1>3, <1>5
<1>7. (M - a) * One = One * M - a * One
  BY <1>1
<1>8. q * M \in Nat /\ One * M \in Nat
  BY <1>1, <1>3, ProductType
<1> QED
  BY <1>1, <1>2, <1>3, <1>4, <1>5, <1>6, <1>7, <1>8

\* A slash leaves claimers no more than what the transfer leaves: rounding takes
\* less than one unit, as amounts are below the precision of a Decimal.
LEMMA SlashFits ==
  ASSUME NEW M \in Nat, M <= One, NEW F \in 0 .. M, NEW a \in 1 .. M
  PROVE  /\ Mul(F, One - FromRatio(a, M)) \in Nat
         /\ Mul(F, One - FromRatio(a, M)) <= M - a
<1>1. One \in Nat \ {0} /\ M - a \in Nat /\ a \in Nat /\ F \in Nat
  BY OneAssumption
<1>2. PICK k : k = One - FromRatio(a, M)
  OBVIOUS
<1>3. k \in Nat /\ k * M < (M - a) * One + M
  BY <1>1, <1>2, LeftByRatio
<1>4. F * k \in Nat /\ k * M \in Nat /\ (M - a) * One \in Nat
  BY <1>1, <1>3, ProductType
<1>5. F * k <= M * k /\ M * k = k * M
  BY <1>1, <1>3, ProductMono
<1>6. ((M - a) + 1) * One = (M - a) * One + One
  BY <1>1
<1>7. F * k < ((M - a) + 1) * One
  BY <1>1, <1>3, <1>4, <1>5, <1>6
<1>8. (F * k) \div One <= M - a
  BY <1>1, <1>4, <1>7, DivLess
<1> QED
  BY <1>1, <1>2, <1>3, <1>8, MulType DEF Mul

\* Neither side of a slash loses more than its share, up to one unit.
LEMMA SlashShares ==
  ASSUME NEW M \in Nat, M <= One, NEW F \in 0 .. M, NEW a \in 1 .. M
  PROVE  LET left == Mul(F, One - FromRatio(a, M))
         IN  /\ left * M + M >= F * (M - a)
             /\ ((M - a) - left) * M + M >= (M - F) * (M - a)
<1>1. One \in Nat \ {0} /\ M - a \in Nat /\ F \in Nat
  BY OneAssumption
<1>2. PICK k, left, rest : /\ k = One - FromRatio(a, M) /\ left = Mul(F, k) /\ rest = M - a
  OBVIOUS
<1>3. /\ k \in Nat /\ rest \in Nat /\ rest * One <= k * M /\ k * M < rest * One + M
      /\ left \in Nat /\ left <= rest
  BY <1>1, <1>2, LeftByRatio, SlashFits
<1>4. F * k \in Nat
  BY <1>1, <1>3, ProductType
<1>5. left * One <= F * k /\ F * k < left * One + One
  BY <1>1, <1>2, <1>4, DivFloor DEF Mul
<1>6. left * M + M >= F * rest
  <2>1. F * (rest * One) <= F * (k * M)
    BY <1>1, <1>3, ProductMono, ProductType
  <2>2. (F * k) * M <= (left * One + One) * M
    BY <1>1, <1>3, <1>4, <1>5, ProductMono, ProductType
  <2>3. F * (k * M) = (F * k) * M /\ F * (rest * One) = (F * rest) * One
    BY <1>1, <1>3
  <2>4. (left * One + One) * M = (left * M + M) * One
    BY <1>1, <1>3
  <2>5. (F * rest) * One <= (left * M + M) * One
    <3>1. /\ F * (rest * One) \in Nat /\ F * (k * M) \in Nat /\ (F * k) * M \in Nat
          /\ (left * One + One) * M \in Nat
      BY <1>1, <1>3, <1>4, ProductType
    <3> QED
      BY <2>1, <2>2, <2>3, <2>4, <3>1
  <2>6. F * rest \in Nat /\ left * M + M \in Nat
    BY <1>1, <1>3, ProductType
  <2> QED
    BY <1>1, <2>5, <2>6, CancelFactor
<1>7. left * M <= F * rest + M
  <2>1. (left * One) * M <= (F * k) * M
    BY <1>1, <1>3, <1>4, <1>5, ProductMono, ProductType
  <2>2. F * (k * M) <= F * (rest * One + M)
    BY <1>1, <1>3, ProductMono, ProductType
  <2>3. F * M <= One * M
    BY <1>1, ProductMono
  <2>4. /\ (left * One) * M = (left * M) * One
        /\ (F * k) * M = F * (k * M)
        /\ F * (rest * One + M) = (F * rest) * One + F * M
        /\ (F * rest + M) * One = (F * rest) * One + One * M
    BY <1>1, <1>3
  <2>5. (left * M) * One <= (F * rest + M) * One
    <3>1. /\ (left * One) * M \in Nat /\ (F * k) * M \in Nat
          /\ F * (rest * One + M) \in Nat /\ F * M \in Nat /\ One * M \in Nat
          /\ (F * rest) * One \in Nat
      BY <1>1, <1>3, <1>4, ProductType
    <3> QED
      BY <2>1, <2>2, <2>3, <2>4, <3>1
  <2>6. left * M \in Nat /\ F * rest + M \in Nat
    BY <1>1, <1>3, ProductType
  <2> QED
    BY <1>1, <2>5, <2>6, CancelFactor
<1>8. /\ (rest - left) * M = rest * M - left * M
      /\ (M - F) * rest = rest * M - F * rest
      /\ rest * M \in Nat /\ left * M \in Nat /\ F * rest \in Nat
  BY <1>1, <1>3, ProductType
<1>9. (rest - left) * M + M >= (M - F) * rest
  BY <1>1, <1>7, <1>8
<1> QED
  BY <1>2, <1>6, <1>9

\* Rounded down, xMARS or MARS handed out for an amount at the ratio of whole to
\* base are worth no more than the amount.
LEMMA HandedOut ==
  ASSUME NEW amount \in Nat, NEW whole \in Nat, NEW base \in Nat \ {0}
  PROVE  /\ Mul(amount, FromRatio(whole, base)) \in Nat
         /\ Mul(amount, FromRatio(whole, base)) * base <= amount * whole
<1>1. One \in Nat \ {0} /\ whole * One \in Nat
  BY OneAssumption, ProductType
<1>2. PICK r : r = FromRatio(whole, base)
  OBVIOUS
<1>3. r \in Nat /\ r * base <= whole * One
  BY <1>1, <1>2, DivFloor DEF FromRatio
<1>4. amount * r \in Nat
  BY <1>3, ProductType
<1>5. PICK x : x = Mul(amount, r)
  OBVIOUS
<1>6. x \in Nat /\ x * One <= amount * r
  BY <1>1, <1>4, <1>5, DivFloor DEF Mul
<1>7. (x * One) * base <= (amount * r) * base
  BY <1>1, <1>4, <1>6, ProductMono, ProductType
<1>8. amount * (r * base) <= amount * (whole * One)
  BY <1>1, <1>3, ProductMono, ProductType
<1>9. /\ (x * One) * base = (x * base) * One /\ (amount * r) * base = amount * (r * base)
      /\ amount * (whole * One) = (amount * whole) * One
  BY <1>1, <1>3, <1>6
<1>10. (x * base) * One <= (amount * whole) * One
  <2>1. /\ (x * One) * base \in Nat /\ (amount * r) * base \in Nat
        /\ amount * (whole * One) \in Nat
    BY <1>1, <1>3, <1>4, <1>6, ProductType
  <2> QED
    BY <1>7, <1>8, <1>9, <2>1
<1>11. x * base <= amount * whole
  BY <1>1, <1>6, <1>10, CancelFactor, ProductType
<1> QED
  BY <1>2, <1>5, <1>6, <1>11

\* Ratios compare as the products across do.
LEMMA RatiosCompare ==
  ASSUME NEW a \in Nat, NEW b \in Nat \ {0}, NEW c \in Nat, NEW d \in Nat \ {0},
         a * d <= c * b
  PROVE  FromRatio(a, b) <= FromRatio(c, d)
<1>1. One \in Nat \ {0} /\ a * One \in Nat /\ c * One \in Nat
  BY OneAssumption, ProductType
<1>2. PICK q : q = FromRatio(a, b)
  OBVIOUS
<1>3. q \in Nat /\ q * b <= a * One
  BY <1>1, <1>2, DivFloor DEF FromRatio
<1>4. (q * b) * d <= (a * One) * d
  BY <1>1, <1>3, ProductMono, ProductType
<1>5. One * (a * d) <= One * (c * b)
  BY <1>1, ProductMono, ProductType
<1>6. /\ (q * b) * d = (q * d) * b /\ (a * One) * d = One * (a * d)
      /\ One * (c * b) = (c * One) * b
  BY <1>1, <1>3
<1>7. (q * d) * b <= (c * One) * b
  <2>1. (q * b) * d \in Nat /\ (a * One) * d \in Nat /\ One * (c * b) \in Nat
    BY <1>1, <1>3, ProductType
  <2> QED
    BY <1>4, <1>5, <1>6, <2>1
<1>8. q * d <= c * One
  BY <1>1, <1>3, <1>7, CancelFactor, ProductType
<1>9. (q * d) \div d <= (c * One) \div d
  BY <1>1, <1>3, <1>8, DivMono, ProductType
<1> QED
  BY <1>2, <1>3, <1>9, DivExact DEF FromRatio

-----------------------------------------------------------------------------
(* What slashes leave of a claim.  The recursion over the blocks has a value, and
   only one: both are shown on the least block that would have none or two. *)

\* One block of the recursion, and a function that satisfies it.
SlashedOnce(amount, b, events) ==
  IF b \in DOMAIN events THEN Mul(amount, One - events[b]) ELSE amount

IsWorth(worth, amount, first, last, events) ==
  worth = [b \in first - 1 .. last |->
             IF b < first THEN amount
             ELSE IF b \in DOMAIN events THEN Mul(worth[b - 1], One - events[b])
             ELSE worth[b - 1]]

\* The same happens in the blocks from first to last.
SameEvents(first, last, events, others) ==
  \A b \in first .. last : \A x : SlashedOnce(x, b, events) = SlashedOnce(x, b, others)

\* A block takes the one before it as given.
LEMMA WorthAt ==
  ASSUME NEW worth, NEW amount, NEW first \in Nat \ {0}, NEW last \in Nat, NEW events,
         IsWorth(worth, amount, first, last, events), NEW b \in first - 1 .. last
  PROVE  /\ b < first => worth[b] = amount
         /\ b >= first => worth[b] = SlashedOnce(worth[b - 1], b, events)
<1> DEFINE f == [c \in first - 1 .. last |->
                  IF c < first THEN amount
                  ELSE IF c \in DOMAIN events THEN Mul(worth[c - 1], One - events[c])
                  ELSE worth[c - 1]]
<1>1. f[b] = IF b < first THEN amount
             ELSE IF b \in DOMAIN events THEN Mul(worth[b - 1], One - events[b])
             ELSE worth[b - 1]
  OBVIOUS
<1>2. worth = f
  BY DEF IsWorth
<1>3. worth[b] = f[b]
  BY <1>2, Zenon
<1> HIDE DEF f
<1>4. b < first \/ (b >= first /\ ~(b < first))
  OBVIOUS
<1> QED
  BY <1>1, <1>3, <1>4 DEF SlashedOnce

\* The recursion has a solution up to every block.
LEMMA WorthExists ==
  ASSUME NEW amount, NEW first \in Nat \ {0}, NEW last \in Nat, last >= first - 1, NEW events
  PROVE  \E worth : IsWorth(worth, amount, first, last, events)
<1> DEFINE Without == {n \in Nat : /\ n >= first - 1
                                   /\ ~ \E worth : IsWorth(worth, amount, first, n, events)}
<1>1. SUFFICES ASSUME Without # {}
               PROVE  FALSE
  OBVIOUS
<1>2. PICK n \in Without : \A m \in Without : n <= m
  BY <1>1, LeastOfSome
<1>3. n \in Nat /\ n >= first - 1 /\ ~ \E worth : IsWorth(worth, amount, first, n, events)
  BY <1>2
<1>4. CASE n = first - 1
  <2> DEFINE w == [b \in first - 1 .. n |-> amount]
  <2>1. \A b \in first - 1 .. n : b < first
    BY <1>4
  <2>2. IsWorth(w, amount, first, n, events)
    BY <2>1 DEF IsWorth
  <2> QED
    BY <1>3, <2>2
<1>5. CASE n >= first
  <2>1. n - 1 \in Nat /\ n - 1 >= first - 1 /\ n - 1 \notin Without
    BY <1>2, <1>3, <1>5
  <2>2. PICK v : IsWorth(v, amount, first, n - 1, events)
    BY <2>1
  <2> DEFINE w == [b \in first - 1 .. n |-> IF b = n THEN SlashedOnce(v[n - 1], n, events) ELSE v[b]]
  <2>3. /\ w[n] = SlashedOnce(v[n - 1], n, events)
        /\ \A b \in first - 1 .. n - 1 : w[b] = v[b]
    BY <1>3, <1>5
  <2>4. w = [b \in first - 1 .. n |-> w[b]]
    OBVIOUS
  <2> HIDE DEF w
  <2>5. ASSUME NEW b \in first - 1 .. n
        PROVE  w[b] = IF b < first THEN amount
                      ELSE IF b \in DOMAIN events THEN Mul(w[b - 1], One - events[b])
                      ELSE w[b - 1]
    <3>1. CASE b = n
      <4>1. n - 1 \in first - 1 .. n - 1 /\ ~(b < first)
        BY <1>3, <1>5, <3>1
      <4>2. w[n - 1] = v[n - 1]
        BY <2>3, <4>1
      <4> QED
        BY <2>3, <3>1, <4>1, <4>2 DEF SlashedOnce
    <3>2. CASE b # n
      <4>1. b \in first - 1 .. n - 1 /\ w[b] = v[b]
        BY <1>3, <2>3, <3>2
      <4>2. /\ b < first => v[b] = amount
            /\ b >= first => v[b] = SlashedOnce(v[b - 1], b, events)
        BY <2>1, <2>2, <4>1, WorthAt
      <4>3. CASE b < first
        BY <4>1, <4>2, <4>3
      <4>4. CASE b >= first
        <5>1. b - 1 \in first - 1 .. n - 1 /\ ~(b < first)
          BY <1>3, <4>1, <4>4
        <5>2. w[b - 1] = v[b - 1]
          BY <2>3, <5>1
        <5> QED
          BY <4>1, <4>2, <4>4, <5>1, <5>2 DEF SlashedOnce
      <4> QED
        BY <1>3, <4>3, <4>4
    <3> QED
      BY <3>1, <3>2
  <2>6. IsWorth(w, amount, first, n, events)
    BY <2>4, <2>5, Zenon DEF IsWorth
  <2> QED
    BY <1>3, <2>6
<1> QED
  BY <1>3, <1>4, <1>5

\* Two solutions are the same up to a block if the events are.
LEMMA WorthAgrees ==
  ASSUME NEW amount, NEW first \in Nat \ {0}, NEW upTo \in Nat,
         NEW one, NEW last \in Nat, NEW events, IsWorth(one, amount, first, last, events),
         NEW two, NEW end \in Nat, NEW others, IsWorth(two, amount, first, end, others),
         upTo <= last, upTo <= end,
         SameEvents(first, upTo, events, others)
  PROVE  \A b \in first - 1 .. upTo : one[b] = two[b]
<1> DEFINE Different == {b \in first - 1 .. upTo : one[b] # two[b]}
<1>1. SUFFICES ASSUME Different # {}
               PROVE  FALSE
  OBVIOUS
<1>2. Different \subseteq Nat
  OBVIOUS
<1>3. PICK b \in Different : \A c \in Different : b <= c
  BY <1>1, <1>2, LeastOfSome
<1>4. b \in Nat /\ b \in first - 1 .. last /\ b \in first - 1 .. end
  BY <1>3
<1>5. /\ b < first => one[b] = amount /\ two[b] = amount
      /\ b >= first => /\ one[b] = SlashedOnce(one[b - 1], b, events)
                       /\ two[b] = SlashedOnce(two[b - 1], b, others)
  <2>1. /\ b < first => one[b] = amount
        /\ b >= first => one[b] = SlashedOnce(one[b - 1], b, events)
    BY <1>4, WorthAt
  <2>2. /\ b < first => two[b] = amount
        /\ b >= first => two[b] = SlashedOnce(two[b - 1], b, others)
    BY <1>4, WorthAt
  <2> QED
    BY <2>1, <2>2
<1>6. b >= first
  BY <1>3, <1>4, <1>5
<1>7. b - 1 \in first - 1 .. upTo /\ b \in first .. upTo
  BY <1>3, <1>6
<1>8. one[b - 1] = two[b - 1]
  BY <1>3, <1>4, <1>7
<1> QED
  BY <1>3, <1>5, <1>6, <1>7, <1>8 DEF SameEvents

\* The recursion of the model is such a solution.
LEMMA SlashedIsWorth ==
  ASSUME NEW amount, NEW first \in Nat \ {0}, NEW last \in Nat, last >= first - 1, NEW events
  PROVE  \E worth : /\ IsWorth(worth, amount, first, last, events)
                    /\ Slashed(amount, first, last, events) = worth[last]
<1>1. \E worth : IsWorth(worth, amount, first, last, events)
  BY WorthExists
<1>2. PICK chosen : chosen = CHOOSE worth : IsWorth(worth, amount, first, last, events)
  OBVIOUS
<1>3. IsWorth(chosen, amount, first, last, events)
  BY <1>1, <1>2
<1>4. Slashed(amount, first, last, events) = chosen[last]
  BY <1>2 DEF Slashed, IsWorth
<1> QED
  BY <1>3, <1>4

\* Up to the block of another last block, what slashes leave is what a solution
\* says there.
LEMMA SlashedAt ==
  ASSUME NEW amount, NEW first \in Nat \ {0}, NEW last \in Nat, NEW events,
         NEW worth, IsWorth(worth, amount, first, last, events),
         NEW upTo \in Nat, upTo >= first - 1, upTo <= last, NEW others,
         SameEvents(first, upTo, events, others)
  PROVE  Slashed(amount, first, upTo, others) = worth[upTo]
<1>1. PICK two : /\ IsWorth(two, amount, first, upTo, others)
                 /\ Slashed(amount, first, upTo, others) = two[upTo]
  BY SlashedIsWorth
<1>2. \A b \in first - 1 .. upTo : worth[b] = two[b]
  <2>1. upTo <= upTo
    OBVIOUS
  <2> QED
    BY <1>1, <2>1, WorthAgrees
<1>3. upTo \in first - 1 .. upTo
  OBVIOUS
<1> QED
  BY <1>1, <1>2, <1>3

\* A claim is worth its amount before the first event, what the block before left
\* of it after each block, and the same for events that are the same.
LEMMA SlashedFirst ==
  ASSUME NEW amount, NEW first \in Nat \ {0}, NEW events
  PROVE  Slashed(amount, first, first - 1, events) = amount
<1>1. PICK worth : /\ IsWorth(worth, amount, first, first - 1, events)
                   /\ Slashed(amount, first, first - 1, events) = worth[first - 1]
  BY SlashedIsWorth
<1>2. first - 1 \in Nat /\ first - 1 \in first - 1 .. first - 1 /\ first - 1 < first
  OBVIOUS
<1> QED
  BY <1>1, <1>2, WorthAt

LEMMA SlashedNext ==
  ASSUME NEW amount, NEW first \in Nat \ {0}, NEW last \in Nat, last >= first, NEW events
  PROVE  Slashed(amount, first, last, events) =
           SlashedOnce(Slashed(amount, first, last - 1, events), last, events)
<1>1. PICK worth : /\ IsWorth(worth, amount, first, last, events)
                   /\ Slashed(amount, first, last, events) = worth[last]
  BY SlashedIsWorth
<1>2. last \in first - 1 .. last /\ last - 1 \in Nat /\ last - 1 >= first - 1
  OBVIOUS
<1>3. worth[last] = SlashedOnce(worth[last - 1], last, events)
  BY <1>1, <1>2, WorthAt
<1>4. Slashed(amount, first, last - 1, events) = worth[last - 1]
  <2>1. SameEvents(first, last - 1, events, events) /\ last - 1 <= last
    BY DEF SameEvents
  <2> QED
    BY <1>1, <1>2, <2>1, SlashedAt
<1> QED
  BY <1>1, <1>3, <1>4

LEMMA SlashedSame ==
  ASSUME NEW amount, NEW first \in Nat \ {0}, NEW last \in Nat, last >= first - 1,
         NEW events, NEW others,
         SameEvents(first, last, events, others)
  PROVE  Slashed(amount, first, last, events) = Slashed(amount, first, last, others)
<1>1. PICK worth : /\ IsWorth(worth, amount, first, last, events)
                   /\ Slashed(amount, first, last, events) = worth[last]
  BY SlashedIsWorth
<1>2. last <= last
  OBVIOUS
<1> QED
  BY <1>1, <1>2, SlashedAt

\* What slashes leave of an amount is an amount.
LEMMA SlashedType ==
  ASSUME NEW amount \in Nat, NEW first \in Nat \ {0}, NEW last \in Nat, last >= first - 1,
         NEW events, \A b \in DOMAIN events : events[b] \in 0 .. One
  PROVE  Slashed(amount, first, last, events) \in Nat
<1> DEFINE Wrong == {n \in Nat : /\ n >= first - 1
                                 /\ Slashed(amount, first, n, events) \notin Nat}
<1>1. SUFFICES ASSUME Wrong # {}
               PROVE  FALSE
  OBVIOUS
<1>2. PICK n \in Wrong : \A m \in Wrong : n <= m
  BY <1>1, LeastOfSome
<1>3. n \in Nat /\ n >= first - 1 /\ Slashed(amount, first, n, events) \notin Nat
  BY <1>2
<1>4. n # first - 1
  <2>1. Slashed(amount, first, first - 1, events) = amount
    BY SlashedFirst
  <2> QED
    BY <1>3, <2>1
<1>5. n - 1 \in Nat /\ n - 1 >= first - 1 /\ n >= first /\ n - 1 \notin Wrong
  BY <1>2, <1>3, <1>4
<1>6. PICK x : x = Slashed(amount, first, n - 1, events)
  OBVIOUS
<1>7. x \in Nat
  BY <1>5, <1>6
<1>8. Slashed(amount, first, n, events) = SlashedOnce(x, n, events)
  BY <1>3, <1>5, <1>6, SlashedNext
<1>9. n \in DOMAIN events => One - events[n] \in Nat
  BY OneAssumption
<1>10. SlashedOnce(x, n, events) \in Nat
  BY <1>7, <1>9, MulType DEF SlashedOnce
<1> QED
  BY <1>3, <1>8, <1>10

\* Slashing many amounts, each rounded down, leaves no more than slashing their
\* sum.
LEMMA SlashedSum ==
  ASSUME NEW S, IsFiniteSet(S), NEW f, NEW g, NEW k \in Nat,
         \A x \in S : f[x] \in Nat /\ g[x] = Mul(f[x], k)
  PROVE  Total(g, S) <= Mul(Total(f, S), k)
<1>1. One \in Nat \ {0}
  BY OneAssumption
<1>2. \A x \in S : f[x] \in Nat /\ g[x] \in Nat /\ g[x] * One <= f[x] * k
  <2>1. ASSUME NEW x \in S
        PROVE  g[x] \in Nat /\ g[x] * One <= f[x] * k
    BY <1>1, MulType, ProductType, DivFloor DEF Mul
  <2> QED
    BY <2>1
<1>3. \A x \in S : /\ f[x] \in Nat /\ g[x] \in Nat
                  /\ g[x] * One <= f[x] * k + f[x] * 0
  BY <1>1, <1>2
<1>4. Total(g, S) * One <= Total(f, S) * k + Total(f, S) * 0
  <2>1. One \in Int /\ k \in Int /\ 0 \in Int
    BY <1>1
  <2> QED
    BY <1>3, <2>1, TotalWeighted
<1>5. Total(g, S) \in Nat /\ Total(f, S) \in Nat
  BY <1>2, TotalType
<1>6. PICK a, b : a = Total(g, S) /\ b = Total(f, S)
  OBVIOUS
<1>7. a * One <= b * k /\ a \in Nat /\ b \in Nat
  BY <1>4, <1>5, <1>6
<1>8. (a * One) \div One <= (b * k) \div One
  BY <1>1, <1>7, ProductType, DivMono
<1>9. a <= (b * k) \div One
  BY <1>1, <1>7, <1>8, DivExact
<1> QED
  BY <1>6, <1>9 DEF Mul

-----------------------------------------------------------------------------
(* What is owed to claimers. *)

\* Claims opened up to a block, and slashes up to it.
ClaimsUpTo(cs, now) ==
  /\ cs \in [Accounts -> Claims \cup {NoClaim}]
  /\ \A u \in Accounts : cs[u] # NoClaim => cs[u].created_at_block \in 1 .. now

SlashesUpTo(events, now) ==
  /\ DOMAIN events \subseteq 1 .. now
  /\ \A b \in DOMAIN events : events[b] \in 0 .. One

\* What each account would be paid for its claim.
Owed(cs, now, events) ==
  [u \in Accounts |->
     IF cs[u] = NoClaim THEN 0
     ELSE Slashed(cs[u].amount, cs[u].created_at_block, now, events)]

LEMMA OwedType ==
  ASSUME NEW now \in Nat \ {0}, NEW cs, ClaimsUpTo(cs, now), NEW events, SlashesUpTo(events, now)
  PROVE  \A u \in Accounts : Owed(cs, now, events)[u] \in Nat
<1>1. ASSUME NEW u \in Accounts, cs[u] # NoClaim
      PROVE  Slashed(cs[u].amount, cs[u].created_at_block, now, events) \in Nat
  <2>1. PICK amount, first : amount = cs[u].amount /\ first = cs[u].created_at_block
    OBVIOUS
  <2>2. cs[u] \in Claims /\ first \in 1 .. now
    BY <1>1, <2>1 DEF ClaimsUpTo
  <2>3. amount \in Nat /\ first \in Nat \ {0} /\ now >= first - 1
    BY <2>1, <2>2 DEF Claims
  <2> QED
    BY <2>1, <2>3, SlashedType DEF SlashesUpTo
<1> QED
  BY <1>1 DEF Owed

\* A block passes: nothing happened in it yet.
LEMMA OwedLater ==
  ASSUME NEW now \in Nat \ {0}, NEW cs, ClaimsUpTo(cs, now), NEW events, SlashesUpTo(events, now)
  PROVE  Total(Owed(cs, now + 1, events), Accounts) = Total(Owed(cs, now, events), Accounts)
<1>1. ASSUME NEW u \in Accounts, cs[u] # NoClaim
      PROVE  Slashed(cs[u].amount, cs[u].created_at_block, now + 1, events)
               = Slashed(cs[u].amount, cs[u].created_at_block, now, events)
  <2>1. PICK amount, first : amount = cs[u].amount /\ first = cs[u].created_at_block
    OBVIOUS
  <2>2. first \in 1 .. now
    BY <1>1, <2>1 DEF ClaimsUpTo
  <2>3. /\ first \in Nat \ {0} /\ now + 1 \in Nat /\ now + 1 >= first /\ (now + 1) - 1 = now
        /\ now + 1 \notin DOMAIN events
    BY <2>2 DEF SlashesUpTo
  <2>4. Slashed(amount, first, now + 1, events)
          = SlashedOnce(Slashed(amount, first, (now + 1) - 1, events), now + 1, events)
    BY <2>3, SlashedNext
  <2> QED
    BY <2>1, <2>3, <2>4 DEF SlashedOnce
<1>2. \A u \in Accounts : Owed(cs, now + 1, events)[u] = Owed(cs, now, events)[u]
  BY <1>1 DEF Owed
<1> QED
  BY <1>2, TotalAgree

\* A slash in the present block leaves of all claims no more than it leaves of
\* their sum.
LEMMA OwedSlashed ==
  ASSUME NEW now \in Nat \ {0}, NEW cs, ClaimsUpTo(cs, now), NEW events, SlashesUpTo(events, now),
         now \notin DOMAIN events, NEW percentage \in 0 .. One
  PROVE  /\ Total(Owed(cs, now, Captured(events, now, percentage)), Accounts)
              <= Mul(Total(Owed(cs, now, events), Accounts), One - percentage)
         /\ SlashesUpTo(Captured(events, now, percentage), now)
<1>1. PICK after, k : after = Captured(events, now, percentage) /\ k = One - percentage
  OBVIOUS
<1>2. /\ DOMAIN after = DOMAIN events \cup {now}
      /\ after[now] = percentage
      /\ \A b \in DOMAIN events : after[b] = events[b]
  BY <1>1 DEF Captured
<1>3. SlashesUpTo(after, now) /\ k \in Nat
  BY <1>1, <1>2, OneAssumption DEF SlashesUpTo
<1>4. ASSUME NEW u \in Accounts, cs[u] # NoClaim
      PROVE  Slashed(cs[u].amount, cs[u].created_at_block, now, after)
               = Mul(Slashed(cs[u].amount, cs[u].created_at_block, now, events), k)
  <2>1. PICK amount, first : amount = cs[u].amount /\ first = cs[u].created_at_block
    OBVIOUS
  <2>2. first \in 1 .. now
    BY <1>4, <2>1 DEF ClaimsUpTo
  <2>3. first \in Nat \ {0} /\ now >= first /\ now - 1 \in Nat /\ now - 1 >= first - 1
    BY <2>2
  <2>4. SameEvents(first, now - 1, events, after)
    <3>1. ASSUME NEW b \in first .. now - 1
          PROVE  /\ b \in DOMAIN events <=> b \in DOMAIN after
                 /\ b \in DOMAIN events => events[b] = after[b]
      BY <1>2
    <3> QED
      BY <3>1 DEF SameEvents, SlashedOnce
  <2>5. Slashed(amount, first, now - 1, events) = Slashed(amount, first, now - 1, after)
    BY <2>3, <2>4, SlashedSame
  <2>6. /\ Slashed(amount, first, now, events)
             = SlashedOnce(Slashed(amount, first, now - 1, events), now, events)
        /\ Slashed(amount, first, now, after)
             = SlashedOnce(Slashed(amount, first, now - 1, after), now, after)
    BY <2>3, SlashedNext
  <2> QED
    BY <1>1, <1>2, <2>1, <2>5, <2>6 DEF SlashedOnce
<1>5. Mul(0, k) = 0
  <2>1. 0 * k = 0 /\ 0 \div One = 0
    BY <1>3, OneAssumption
  <2> QED
    BY <2>1 DEF Mul
<1>6. PICK f, g : f = Owed(cs, now, events) /\ g = Owed(cs, now, after)
  OBVIOUS
<1>7. \A u \in Accounts : f[u] \in Nat /\ g[u] = Mul(f[u], k)
  <2>1. \A u \in Accounts : f[u] \in Nat
    BY <1>6, OwedType
  <2>2. \A u \in Accounts : g[u] = Mul(f[u], k)
    BY <1>4, <1>5, <1>6 DEF Owed
  <2> QED
    BY <2>1, <2>2
<1>8. Total(g, Accounts) <= Mul(Total(f, Accounts), k)
  BY <1>3, <1>7, SlashedSum, XMarsAssumptions
<1> QED
  BY <1>1, <1>3, <1>6, <1>8

\* A claim opened in the present block adds at most its amount.
LEMMA OwedOpened ==
  ASSUME NEW now \in Nat \ {0}, NEW cs, ClaimsUpTo(cs, now), NEW events, SlashesUpTo(events, now),
         NEW u \in Accounts, cs[u] = NoClaim, NEW claim \in Claims, claim.created_at_block = now
  PROVE  /\ ClaimsUpTo([cs EXCEPT ![u] = claim], now)
         /\ Total(Owed([cs EXCEPT ![u] = claim], now, events), Accounts)
              <= Total(Owed(cs, now, events), Accounts) + claim.amount
<1>1. PICK opened : opened = [cs EXCEPT ![u] = claim]
  OBVIOUS
<1>2. /\ opened \in [Accounts -> Claims \cup {NoClaim}]
      /\ opened[u] = claim /\ \A v \in Accounts \ {u} : opened[v] = cs[v]
  BY <1>1 DEF ClaimsUpTo
<1>3. ClaimsUpTo(opened, now)
  BY <1>2 DEF ClaimsUpTo
<1>4. PICK f, g, amount : /\ f = Owed(cs, now, events) /\ g = Owed(opened, now, events)
                          /\ amount = claim.amount
  OBVIOUS
<1>5. /\ \A v \in Accounts : f[v] \in Nat /\ g[v] \in Nat
      /\ \A v \in Accounts \ {u} : g[v] = f[v]
      /\ f[u] = 0
  <2>1. \A v \in Accounts : f[v] \in Nat /\ g[v] \in Nat
    BY <1>3, <1>4, OwedType
  <2>2. f[u] = 0 /\ \A v \in Accounts \ {u} : g[v] = f[v]
    BY <1>2, <1>4 DEF Owed
  <2> QED
    BY <2>1, <2>2
<1>6. g[u] <= amount /\ amount \in Nat
  <2>1. claim # NoClaim /\ amount \in Nat
    BY <1>4, StakingAssumptions DEF Claims
  <2>2. g[u] = Slashed(amount, now, now, events)
    BY <1>2, <1>4, <2>1 DEF Owed
  <2>3. Slashed(amount, now, now, events) = SlashedOnce(amount, now, events)
    <3>1. now >= now
      OBVIOUS
    <3>2. Slashed(amount, now, now, events)
            = SlashedOnce(Slashed(amount, now, now - 1, events), now, events)
      BY <3>1, SlashedNext
    <3>3. Slashed(amount, now, now - 1, events) = amount
      BY SlashedFirst
    <3> QED
      BY <3>2, <3>3
  <2>4. now \in DOMAIN events => One - events[now] \in Nat /\ One - events[now] <= One
    BY OneAssumption DEF SlashesUpTo
  <2> QED
    BY <2>1, <2>2, <2>3, <2>4, MulByFraction DEF SlashedOnce
<1>7. /\ Total(g, Accounts) = (Total(f, Accounts) - f[u]) + g[u]
      /\ Total(f, Accounts) \in Nat /\ Total(g, Accounts) \in Nat /\ g[u] \in Nat
  <2>1. IsFiniteSet(Accounts)
    BY XMarsAssumptions
  <2>2. \A v \in Accounts : f[v] \in Nat /\ g[v] \in Nat
    BY <1>5
  <2>3. \A v \in Accounts \ {u} : g[v] = f[v]
    BY <1>5
  <2>4. /\ Total(g, Accounts) = (Total(f, Accounts) - f[u]) + g[u]
        /\ Total(f, Accounts) \in Nat /\ Total(g, Accounts) \in Nat
    BY <2>1, <2>2, <2>3, TotalChange
  <2> QED
    BY <2>2, <2>4
<1> QED
  BY <1>1, <1>3, <1>4, <1>5, <1>6, <1>7

\* A claim that is closed takes away what it was worth.
LEMMA OwedClosed ==
  ASSUME NEW now \in Nat \ {0}, NEW cs, ClaimsUpTo(cs, now), NEW events, SlashesUpTo(events, now),
         NEW u \in Accounts, cs[u] # NoClaim
  PROVE  /\ ClaimsUpTo([cs EXCEPT ![u] = NoClaim], now)
         /\ Total(Owed([cs EXCEPT ![u] = NoClaim], now, events), Accounts)
              = Total(Owed(cs, now, events), Accounts)
                - Slashed(cs[u].amount, cs[u].created_at_block, now, events)
<1>1. PICK closed : closed = [cs EXCEPT ![u] = NoClaim]
  OBVIOUS
<1>2. /\ closed \in [Accounts -> Claims \cup {NoClaim}]
      /\ closed[u] = NoClaim /\ \A v \in Accounts \ {u} : closed[v] = cs[v]
  BY <1>1 DEF ClaimsUpTo
<1>3. ClaimsUpTo(closed, now)
  BY <1>2 DEF ClaimsUpTo
<1>4. PICK f, g, worth : /\ f = Owed(cs, now, events) /\ g = Owed(closed, now, events)
                         /\ worth = Slashed(cs[u].amount, cs[u].created_at_block, now, events)
  OBVIOUS
<1>5. /\ \A v \in Accounts : f[v] \in Nat /\ g[v] \in Nat
      /\ \A v \in Accounts \ {u} : g[v] = f[v]
      /\ g[u] = 0 /\ f[u] = worth
  <2>1. \A v \in Accounts : f[v] \in Nat /\ g[v] \in Nat
    BY <1>3, <1>4, OwedType
  <2>2. g[u] = 0 /\ f[u] = worth /\ \A v \in Accounts \ {u} : g[v] = f[v]
    BY <1>2, <1>4 DEF Owed
  <2> QED
    BY <2>1, <2>2
<1>6. /\ Total(g, Accounts) = (Total(f, Accounts) - f[u]) + g[u]
      /\ Total(f, Accounts) \in Nat /\ Total(g, Accounts) \in Nat /\ g[u] \in Nat
  <2>1. IsFiniteSet(Accounts)
    BY XMarsAssumptions
  <2>2. \A v \in Accounts : f[v] \in Nat /\ g[v] \in Nat
    BY <1>5
  <2>3. \A v \in Accounts \ {u} : g[v] = f[v]
    BY <1>5
  <2>4. /\ Total(g, Accounts) = (Total(f, Accounts) - f[u]) + g[u]
        /\ Total(f, Accounts) \in Nat /\ Total(g, Accounts) \in Nat
    BY <2>1, <2>2, <2>3, TotalChange
  <2> QED
    BY <2>2, <2>4
<1> QED
  BY <1>1, <1>3, <1>4, <1>5, <1>6

-----------------------------------------------------------------------------
(* The invariant. *)

\* Neither ReservesAreHeld nor ClaimsAreReserved is inductive: a slash leaves the
\* reserve within the balance only if amounts are below the precision of a
\* Decimal, and the claims within the reserve only if no event is of a later block.
StakingInv ==
  /\ height \in Nat \ {0} /\ xmarsSupply \in Nat /\ time \in Nat
  /\ mars \in 0 .. MaxMars
  /\ forClaimers \in 0 .. mars
  /\ ClaimsUpTo(claims, height)
  /\ SlashesUpTo(slashes, height)
  /\ cooldown \in Cooldowns
  /\ Total(Owed(claims, height, slashes), Accounts) <= forClaimers

\* The MARS behind an xMARS does not fall.
SharesStay ==
  xmarsSupply > 0 => ForStakers * xmarsSupply' <= ForStakers' * xmarsSupply

LEMMA StakingInvInit == Init => StakingInv
<1> SUFFICES ASSUME Init
             PROVE  StakingInv
  OBVIOUS
<1>1. /\ height = 1 /\ time = 0 /\ mars = 0 /\ forClaimers = 0 /\ slashes = NoHistory
      /\ claims = [u \in Accounts |-> NoClaim] /\ cooldown \in Cooldowns
      /\ xmarsSupply = Total(FirstBalances, Accounts)
  BY DEF Init, XMarsInit
<1>2. FirstBalances \in [Accounts -> Nat] /\ IsFiniteSet(Accounts)
  BY XMarsAssumptions DEF FirstBalances
<1>3. xmarsSupply \in Nat
  BY <1>1, <1>2, TotalType
<1>4. ClaimsUpTo(claims, height) /\ SlashesUpTo(slashes, height)
  BY <1>1 DEF ClaimsUpTo, SlashesUpTo, NoHistory
<1>5. Total(Owed(claims, height, slashes), Accounts) = 0
  <2>1. \A u \in Accounts : Owed(claims, height, slashes)[u] = 0
    BY <1>1 DEF Owed
  <2> QED
    BY <2>1, TotalZero
<1>6. MaxMars \in Nat
  BY StakingAssumptions
<1> QED
  BY <1>1, <1>3, <1>4, <1>5, <1>6 DEF StakingInv

\* A step that moves MARS and xMARS alone keeps the invariant as long as what is
\* reserved stays there.
LEMMA BalanceStep ==
  ASSUME StakingInv, UNCHANGED <<height, time, forClaimers, claims, slashes, cooldown>>,
         xmarsSupply' \in Nat, mars' \in 0 .. MaxMars, mars' >= mars
  PROVE  StakingInv'
  BY DEF StakingInv

LEMMA StakeStep ==
  ASSUME StakingInv, NEW recipient, NEW amount \in Amounts, Stake(recipient, amount)
  PROVE  StakingInv' /\ SharesStay
<1>1. /\ amount \in Nat /\ xmarsSupply \in Nat /\ mars \in Nat /\ forClaimers \in Nat
      /\ forClaimers <= mars /\ mars + amount <= MaxMars
      /\ MaxMars \in Nat
  BY XMarsAssumptions, StakingAssumptions DEF StakingInv, Stake
<1>2. /\ mars' = mars + amount /\ forClaimers' = forClaimers
      /\ UNCHANGED <<height, time, forClaimers, claims, slashes, cooldown>>
      /\ xmarsSupply' = xmarsSupply + XMarsFor(amount)
  BY DEF Stake, MintXMars, SetSupply
<1>3. PICK P, S, x : P = ForStakers /\ S = xmarsSupply /\ x = XMarsFor(amount)
  OBVIOUS
<1>4. P \in Nat /\ S \in Nat /\ P = mars - forClaimers /\ ForStakers' = P + amount
  BY <1>1, <1>2, <1>3 DEF ForStakers
<1>5. x \in Nat /\ (S > 0 => P * x <= amount * S)
  <2>1. CASE RatioDefined
    <3>1. P \in Nat \ {0} /\ x = Mul(amount, FromRatio(S, P))
      BY <1>3, <1>4, <2>1 DEF RatioDefined, XMarsFor, XMarsPerMars
    <3>2. x \in Nat /\ x * P <= amount * S
      BY <1>1, <1>4, <3>1, HandedOut
    <3>3. x * P = P * x
      BY <1>4, <3>2
    <3> QED
      BY <3>2, <3>3
  <2>2. CASE ~RatioDefined
    <3>1. x = amount /\ (S > 0 => P = 0)
      BY <1>3, <1>4, <2>2 DEF RatioDefined, XMarsFor
    <3>2. amount * S \in Nat /\ 0 * x = 0
      BY <1>1, <1>4, <3>1, ProductType
    <3> QED
      BY <1>1, <3>1, <3>2
  <2> QED
    BY <2>1, <2>2
<1>6. StakingInv'
  <2>1. xmarsSupply' \in Nat /\ mars' \in 0 .. MaxMars /\ mars' >= mars
    BY <1>1, <1>2, <1>3, <1>5
  <2> QED
    BY <1>2, <2>1, BalanceStep
<1>7. SharesStay
  <2>1. P * (S + x) = P * S + P * x /\ (P + amount) * S = P * S + amount * S
    BY <1>1, <1>4, <1>5
  <2>2. P * S \in Nat /\ P * x \in Nat /\ amount * S \in Nat
    BY <1>1, <1>4, <1>5, ProductType
  <2>3. S > 0 => P * (S + x) <= (P + amount) * S
    BY <1>5, <2>1, <2>2
  <2> QED
    BY <1>2, <1>3, <1>4, <2>3 DEF SharesStay
<1> QED
  BY <1>6, <1>7

\* A claim is worth no more than what is behind the xMARS unstaked for it.
LEMMA UnstakeStep ==
  ASSUME StakingInv, NEW staker, NEW recipient \in Accounts, NEW amount \in Amounts,
         Unstake(staker, recipient, amount)
  PROVE  StakingInv' /\ SharesStay
<1>1. PICK P, S, claimable, claim :
        /\ P = ForStakers /\ S = xmarsSupply /\ claimable = Mul(amount, MarsPerXMars)
        /\ claim = [created_at_block |-> height, cooldown_end_timestamp |-> time + cooldown,
                    amount |-> claimable]
  OBVIOUS
<1>2. /\ amount \in Nat /\ mars \in Nat /\ forClaimers \in Nat /\ forClaimers <= mars
      /\ height \in Nat \ {0} /\ time \in Nat /\ cooldown \in Nat
      /\ ClaimsUpTo(claims, height) /\ SlashesUpTo(slashes, height)
  BY XMarsAssumptions, StakingAssumptions DEF StakingInv
<1>3. P \in Nat \ {0} /\ S \in Nat \ {0} /\ P = mars - forClaimers
  BY <1>1, <1>2 DEF Unstake, RatioDefined, ForStakers, StakingInv
<1>4. /\ claims[recipient] = NoClaim /\ claims' = [claims EXCEPT ![recipient] = claim]
      /\ forClaimers' = forClaimers + claimable /\ forClaimers' <= mars
      /\ xmarsSupply' = xmarsSupply - amount /\ xmarsSupply >= amount
      /\ UNCHANGED <<height, time, mars, slashes, cooldown>>
  BY <1>1 DEF Unstake, SendAndBurnXMars, SetSupply, Reserved
<1>5. claimable \in Nat /\ claimable * S <= amount * P
  BY <1>1, <1>2, <1>3, HandedOut DEF MarsPerXMars
<1>6. claim \in Claims /\ claim.created_at_block = height /\ claim.amount = claimable
  BY <1>1, <1>2, <1>5 DEF Claims
<1>7. /\ ClaimsUpTo(claims', height)
      /\ Total(Owed(claims', height, slashes), Accounts)
           <= Total(Owed(claims, height, slashes), Accounts) + claimable
  BY <1>2, <1>4, <1>6, OwedOpened
<1>8. Total(Owed(claims', height, slashes), Accounts) \in Nat
      /\ Total(Owed(claims, height, slashes), Accounts) \in Nat
  BY <1>2, <1>7, OwedType, TotalType, XMarsAssumptions
<1>9. Total(Owed(claims', height, slashes), Accounts) <= forClaimers'
  BY <1>2, <1>4, <1>5, <1>7, <1>8 DEF StakingInv
<1>10. StakingInv'
  BY <1>2, <1>4, <1>5, <1>7, <1>9 DEF StakingInv
<1>11. SharesStay
  <2>1. P * (S - amount) = P * S - amount * P /\ (P - claimable) * S = P * S - claimable * S
    BY <1>2, <1>3, <1>5
  <2>2. P * S \in Nat /\ amount * P \in Nat /\ claimable * S \in Nat
    BY <1>2, <1>3, <1>5, ProductType
  <2>3. P * (S - amount) <= (P - claimable) * S
    BY <1>5, <2>1, <2>2
  <2>4. ForStakers' = P - claimable
    BY <1>2, <1>3, <1>4, <1>5 DEF ForStakers
  <2> QED
    BY <1>1, <1>4, <2>3, <2>4 DEF SharesStay
<1> QED
  BY <1>10, <1>11

\* A claim is paid from what is reserved.
LEMMA ClaimStep ==
  ASSUME StakingInv, NEW claimer \in Accounts, NEW recipient, Claim(claimer, recipient)
  PROVE  StakingInv' /\ SharesStay
<1>1. /\ mars \in Nat /\ forClaimers \in Nat /\ forClaimers <= mars /\ mars <= MaxMars
      /\ height \in Nat \ {0} /\ xmarsSupply \in Nat /\ MaxMars \in Nat
      /\ ClaimsUpTo(claims, height) /\ SlashesUpTo(slashes, height)
  BY StakingAssumptions DEF StakingInv
<1>2. PICK payout \in 1 .. SmallerOf(forClaimers, mars) :
        /\ payout = AfterSlashes(claims[claimer])
        /\ forClaimers' = forClaimers - payout
        /\ mars' = IF recipient = StakingContract THEN mars ELSE mars - payout
  BY DEF Claim
<1>3. /\ claims[claimer] # NoClaim /\ claims' = [claims EXCEPT ![claimer] = NoClaim]
      /\ UNCHANGED <<height, time, slashes, cooldown>> /\ xmarsSupply' = xmarsSupply
  BY DEF Claim, xmarsVars
<1>4. payout \in Nat /\ payout <= forClaimers
  <2>1. SmallerOf(forClaimers, mars) = forClaimers
    BY <1>1 DEF SmallerOf
  <2> QED
    BY <1>1, <1>2, <2>1
<1>5. /\ ClaimsUpTo(claims', height)
      /\ Total(Owed(claims', height, slashes), Accounts)
           = Total(Owed(claims, height, slashes), Accounts) - payout
  <2>1. payout = Slashed(claims[claimer].amount, claims[claimer].created_at_block, height, slashes)
    BY <1>2 DEF AfterSlashes
  <2>2. /\ ClaimsUpTo([claims EXCEPT ![claimer] = NoClaim], height)
        /\ Total(Owed([claims EXCEPT ![claimer] = NoClaim], height, slashes), Accounts)
             = Total(Owed(claims, height, slashes), Accounts)
               - Slashed(claims[claimer].amount, claims[claimer].created_at_block, height, slashes)
    <3>1. PICK cs, now : cs = claims /\ now = height
      OBVIOUS
    <3>2. /\ now \in Nat \ {0} /\ ClaimsUpTo(cs, now) /\ SlashesUpTo(slashes, now)
          /\ cs[claimer] # NoClaim
      BY <1>1, <1>3, <3>1
    <3> QED
      BY <3>1, <3>2, OwedClosed
  <2> QED
    BY <1>3, <2>1, <2>2
<1>6. Total(Owed(claims, height, slashes), Accounts) \in Nat
  BY <1>1, OwedType, TotalType, XMarsAssumptions
<1>7. mars' \in Nat /\ mars' <= MaxMars /\ mars' >= mars - payout
  BY <1>1, <1>2, <1>4
<1>8. StakingInv'
  <2>1. Total(Owed(claims', height, slashes), Accounts) <= forClaimers'
    BY <1>1, <1>2, <1>4, <1>5, <1>6 DEF StakingInv
  <2>2. forClaimers' \in 0 .. mars' /\ mars' \in 0 .. MaxMars
    BY <1>1, <1>2, <1>4, <1>7
  <2> QED
    BY <1>3, <1>5, <2>1, <2>2 DEF StakingInv
<1>9. SharesStay
  <2>1. PICK P, Q : P = ForStakers /\ Q = ForStakers'
    OBVIOUS
  <2>2. P \in Nat /\ Q \in Nat /\ P <= Q
    BY <1>1, <1>2, <1>4, <1>7, <2>1 DEF ForStakers
  <2>3. P * xmarsSupply <= Q * xmarsSupply
    BY <1>1, <2>2, ProductMono
  <2> QED
    BY <1>3, <2>1, <2>3 DEF SharesStay
<1> QED
  BY <1>8, <1>9

\* Neither stakers nor claimers lose more than their share of a slash.
BornAlike ==
  /\ forClaimers' * mars + mars >= forClaimers * mars'
  /\ ForStakers' * mars + mars >= ForStakers * mars'

\* A slash lowers the reserve with the balance, and the claims with the reserve.
LEMMA TransferStep ==
  ASSUME StakingInv, NEW amount \in Amounts, TransferMars(amount)
  PROVE  StakingInv' /\ BornAlike /\ slashes' # slashes
<1>1. PICK M, F, p, left :
        M = mars /\ F = forClaimers /\ p = FromRatio(amount, mars) /\ left = Mul(F, One - p)
  OBVIOUS
<1>2. /\ M \in Nat /\ M <= One /\ F \in 0 .. M /\ amount \in 1 .. M
      /\ height \in Nat \ {0} /\ MaxMars \in Nat /\ M <= MaxMars
      /\ ClaimsUpTo(claims, height) /\ SlashesUpTo(slashes, height)
  BY <1>1, XMarsAssumptions, StakingAssumptions, OneAssumption
     DEF StakingInv, TransferMars, CanTransfer
<1>3. /\ height \notin DOMAIN slashes /\ slashes' = Captured(slashes, height, p)
      /\ forClaimers' = left /\ mars' = M - amount
      /\ UNCHANGED <<height, time, claims, cooldown>> /\ xmarsSupply' = xmarsSupply
  BY <1>1 DEF TransferMars, LeftForClaimers, xmarsVars
<1>4. left \in Nat /\ left <= M - amount /\ p \in 0 .. One
  BY <1>1, <1>2, SlashFits, LeftByRatio
<1>5. /\ SlashesUpTo(slashes', height)
      /\ Total(Owed(claims, height, slashes'), Accounts)
           <= Mul(Total(Owed(claims, height, slashes), Accounts), One - p)
  <2>1. /\ Total(Owed(claims, height, Captured(slashes, height, p)), Accounts)
             <= Mul(Total(Owed(claims, height, slashes), Accounts), One - p)
        /\ SlashesUpTo(Captured(slashes, height, p), height)
    BY <1>2, <1>3, <1>4, OwedSlashed
  <2> QED
    BY <1>3, <2>1
<1>6. StakingInv'
  <2>1. PICK before, after : /\ before = Total(Owed(claims, height, slashes), Accounts)
                             /\ after = Total(Owed(claims, height, slashes'), Accounts)
    OBVIOUS
  <2>2. before \in Nat /\ after \in Nat
    BY <1>2, <1>5, <2>1, OwedType, TotalType, XMarsAssumptions
  <2>3. before <= F /\ One - p \in Nat
    BY <1>1, <1>4, <2>1, OneAssumption DEF StakingInv
  <2>4. Mul(before, One - p) <= Mul(F, One - p) /\ Mul(before, One - p) \in Nat
    <3>1. One - p <= One - p /\ F \in Nat
      BY <1>2, <2>3
    <3> QED
      BY <2>2, <2>3, <3>1, MulMono, MulType
  <2>5. after <= left
    BY <1>1, <1>4, <1>5, <2>1, <2>2, <2>4
  <2>6. mars' \in 0 .. MaxMars /\ forClaimers' \in 0 .. mars'
    BY <1>2, <1>3, <1>4
  <2> QED
    BY <1>3, <1>5, <2>1, <2>5, <2>6 DEF StakingInv
<1>7. BornAlike
  <2>1. /\ left * M + M >= F * (M - amount)
        /\ ((M - amount) - left) * M + M >= (M - F) * (M - amount)
    BY <1>1, <1>2, SlashShares
  <2> QED
    BY <1>1, <1>3, <2>1 DEF BornAlike, ForStakers
<1>8. slashes' # slashes
  BY <1>3 DEF Captured
<1> QED
  BY <1>6, <1>7, <1>8

\* The steps that leave claims and slashes alone.
LEMMA HolderStep ==
  ASSUME StakingInv, NEW u, NEW recipient, NEW amount \in Amounts,
         HolderTransfers(u, recipient, amount) \/ HolderBurns(u, amount)
  PROVE  StakingInv' /\ SharesStay
<1>1. /\ amount \in Nat /\ xmarsSupply \in Nat /\ mars \in Nat /\ mars \in 0 .. MaxMars
      /\ forClaimers \in Nat /\ forClaimers <= mars
  BY XMarsAssumptions, StakingAssumptions DEF StakingInv
<1>2. /\ UNCHANGED <<height, time, mars, forClaimers, claims, slashes, cooldown>>
      /\ xmarsSupply' \in Nat /\ xmarsSupply' <= xmarsSupply
  BY <1>1 DEF HolderTransfers, HolderBurns, TransferXMars, BurnXMars, SetSupply, stakingVars
<1>3. StakingInv'
  BY <1>1, <1>2, BalanceStep
<1>4. SharesStay
  <2>1. ForStakers \in Nat /\ ForStakers' = ForStakers
    BY <1>1, <1>2 DEF ForStakers
  <2>2. PICK P, S, T : P = ForStakers /\ S = xmarsSupply /\ T = xmarsSupply'
    OBVIOUS
  <2>3. P \in Nat /\ P <= P /\ S \in Nat /\ T \in Nat /\ T <= S
    BY <1>1, <1>2, <2>1, <2>2
  <2>4. P * T <= P * S
    BY <2>3, ProductMono
  <2> QED
    BY <2>1, <2>2, <2>4 DEF SharesStay
<1> QED
  BY <1>3, <1>4

LEMMA ReceiveStep ==
  ASSUME StakingInv, NEW amount \in Amounts, ReceiveMars(amount)
  PROVE  StakingInv' /\ SharesStay
<1>1. /\ amount \in Nat /\ xmarsSupply \in Nat /\ mars \in Nat
      /\ forClaimers \in Nat /\ forClaimers <= mars /\ MaxMars \in Nat
  BY XMarsAssumptions, StakingAssumptions DEF StakingInv
<1>2. /\ UNCHANGED <<height, time, forClaimers, claims, slashes, cooldown>>
      /\ xmarsSupply' = xmarsSupply /\ mars' = mars + amount /\ mars + amount <= MaxMars
  BY DEF ReceiveMars, xmarsVars
<1>3. StakingInv'
  <2>1. mars' \in 0 .. MaxMars /\ mars' >= mars
    BY <1>1, <1>2
  <2> QED
    BY <1>1, <1>2, <2>1, BalanceStep
<1>4. SharesStay
  <2>1. PICK P, Q : P = ForStakers /\ Q = ForStakers'
    OBVIOUS
  <2>2. P \in Nat /\ Q \in Nat /\ P <= Q
    BY <1>1, <1>2, <2>1 DEF ForStakers
  <2>3. P * xmarsSupply <= Q * xmarsSupply
    BY <1>1, <2>2, ProductMono
  <2> QED
    BY <1>2, <2>1, <2>3 DEF SharesStay
<1> QED
  BY <1>3, <1>4

LEMMA QuietStep ==
  ASSUME StakingInv, UpdateConfig \/ BlockPasses \/ UNCHANGED vars
  PROVE  StakingInv' /\ SharesStay
<1>1. /\ UNCHANGED <<mars, forClaimers, claims, slashes>> /\ xmarsSupply' = xmarsSupply
      /\ height' \in {height, height + 1} /\ time' \in {time, time + 1}
      /\ cooldown' \in Cooldowns
  BY DEF StakingInv, UpdateConfig, BlockPasses, NextBlock, vars, stakingVars, xmarsVars
<1>2. /\ height \in Nat \ {0} /\ xmarsSupply \in Nat /\ time \in Nat
      /\ ClaimsUpTo(claims, height) /\ SlashesUpTo(slashes, height)
      /\ mars \in Nat /\ forClaimers \in Nat /\ forClaimers <= mars
  BY StakingAssumptions DEF StakingInv
<1>3. ClaimsUpTo(claims, height') /\ SlashesUpTo(slashes, height')
  BY <1>1, <1>2 DEF ClaimsUpTo, SlashesUpTo
<1>4. Total(Owed(claims, height', slashes), Accounts)
        = Total(Owed(claims, height, slashes), Accounts)
  <2>1. CASE height' = height
    BY <2>1
  <2>2. CASE height' = height + 1
    <3>1. Total(Owed(claims, height + 1, slashes), Accounts)
            = Total(Owed(claims, height, slashes), Accounts)
      BY <1>2, OwedLater
    <3> QED
      BY <2>2, <3>1
  <2> QED
    BY <1>1, <2>1, <2>2
<1>5. StakingInv'
  BY <1>1, <1>2, <1>3, <1>4 DEF StakingInv
<1>6. SharesStay
  <2>1. ForStakers \in Nat /\ ForStakers' = ForStakers
    BY <1>1, <1>2 DEF ForStakers
  <2>2. ForStakers * xmarsSupply \in Nat
    BY <1>2, <2>1, ProductType
  <2> QED
    BY <1>1, <2>1, <2>2 DEF SharesStay
<1> QED
  BY <1>5, <1>6

\* Every step keeps the invariant, and either slashes both sides alike or leaves
\* every xMARS worth what it was.
LEMMA StakingStep ==
  ASSUME StakingInv, [Next]_vars
  PROVE  /\ StakingInv'
         /\ \/ SharesStay /\ slashes' = slashes
            \/ BornAlike /\ slashes' # slashes
<1>1. ASSUME NEW u \in Users, UserStep(u)
      PROVE  StakingInv' /\ SharesStay /\ slashes' = slashes
  <2>1. PICK amount \in Amounts, recipient \in Accounts :
          \/ Stake(recipient, amount)
          \/ Unstake(u, recipient, amount)
          \/ Claim(u, recipient)
          \/ HolderTransfers(u, recipient, amount)
          \/ HolderBurns(u, amount)
    BY <1>1 DEF UserStep
  <2>2. u \in Accounts
    BY DEF Users
  <2>3. StakingInv' /\ SharesStay
    BY <2>1, <2>2, StakeStep, UnstakeStep, ClaimStep, HolderStep
  <2>4. slashes' = slashes
    BY <2>1 DEF Stake, Unstake, Claim, HolderTransfers, HolderBurns, stakingVars
  <2> QED
    BY <2>3, <2>4
<1>2. ASSUME NEW amount \in Amounts, ReceiveMars(amount)
      PROVE  StakingInv' /\ SharesStay /\ slashes' = slashes
  BY <1>2, ReceiveStep DEF ReceiveMars
<1>3. ASSUME UpdateConfig \/ BlockPasses \/ UNCHANGED vars
      PROVE  StakingInv' /\ SharesStay /\ slashes' = slashes
  BY <1>3, QuietStep DEF UpdateConfig, BlockPasses, vars, stakingVars
<1>4. ASSUME NEW amount \in Amounts, TransferMars(amount)
      PROVE  StakingInv' /\ BornAlike /\ slashes' # slashes
  BY <1>4, TransferStep
<1> QED
  BY <1>1, <1>2, <1>3, <1>4 DEF Next

-----------------------------------------------------------------------------
(* The token as the staking contract mints and burns it. *)

LEMMA StakedAmountType ==
  ASSUME StakingInv, NEW amount \in Nat
  PROVE  XMarsFor(amount) \in Nat
<1>1. CASE RatioDefined
  <2>1. /\ ForStakers \in Nat \ {0} /\ xmarsSupply \in Nat
        /\ XMarsFor(amount) = Mul(amount, FromRatio(xmarsSupply, ForStakers))
    BY <1>1 DEF StakingInv, RatioDefined, ForStakers, XMarsFor, XMarsPerMars
  <2> QED
    BY <2>1, HandedOut
<1>2. CASE ~RatioDefined
  BY <1>2 DEF XMarsFor
<1> QED
  BY <1>1, <1>2

\* Whatever the contract and the holders do, the ledger takes a step of its own
\* or none: the past stays, and a block that ends is sealed.
LEMMA StakedLedgerStep ==
  ASSUME StakingInv, XMarsInv, [Next]_vars
  PROVE  XMarsInv' /\ PastStays /\ (NextBlock \/ height' = height)
<1>1. ASSUME NEW u \in Users, UserStep(u)
      PROVE  XMarsInv' /\ PastStays /\ height' = height
  <2>1. PICK amount \in Amounts, recipient \in Accounts :
          \/ Stake(recipient, amount)
          \/ Unstake(u, recipient, amount)
          \/ Claim(u, recipient)
          \/ HolderTransfers(u, recipient, amount)
          \/ HolderBurns(u, amount)
    BY <1>1 DEF UserStep
  <2>2. u \in Accounts /\ StakingContract \in Accounts /\ amount \in Nat
    BY XMarsAssumptions DEF Users
  <2>3. CASE Stake(recipient, amount)
    <3>1. XMarsFor(amount) \in Nat
      BY <2>2, StakedAmountType
    <3>2. height' = height /\ MintXMars(recipient, XMarsFor(amount))
      BY <2>3 DEF Stake
    <3> QED
      BY <3>1, <3>2, MintStep
  <2>4. CASE Unstake(u, recipient, amount)
    BY <2>2, <2>4, BurnStep DEF Unstake
  <2>5. CASE Claim(u, recipient)
    BY <2>5, OwnerLedger DEF Claim
  <2>6. CASE HolderTransfers(u, recipient, amount)
    BY <2>2, <2>6, TransferXMarsStep DEF HolderTransfers
  <2>7. CASE HolderBurns(u, amount)
    BY <2>2, <2>7, BurnStep DEF HolderBurns
  <2> QED
    BY <2>1, <2>3, <2>4, <2>5, <2>6, <2>7
<1>2. ASSUME NEW amount \in Amounts, TransferMars(amount) \/ ReceiveMars(amount)
      PROVE  XMarsInv' /\ PastStays /\ height' = height
  BY <1>2, OwnerLedger DEF TransferMars, ReceiveMars
<1>3. ASSUME UpdateConfig \/ UNCHANGED vars
      PROVE  XMarsInv' /\ PastStays /\ height' = height
  BY <1>3, OwnerLedger DEF UpdateConfig, vars
<1>4. ASSUME BlockPasses
      PROVE  XMarsInv' /\ PastStays /\ NextBlock
  BY <1>4, NextBlockStep DEF BlockPasses
<1> QED
  BY <1>1, <1>2, <1>3, <1>4 DEF Next

\* Minted for stakes and burnt for claims, the balances of xMARS remain the
\* voting power the council counts on: what the snapshots answer for a past
\* block is what the balances were when it ended, and it adds up.
THEOREM StakedIsVotingPower == Spec => XMarsIsVotingPower /\ []SnapshotsAddUp
<1> DEFINE Inv == StakingInv /\ XMarsInv
           Power == Implemented!ChangePower \/ Implemented!SealBlock
<1>1. Init => Implemented!PowerInit /\ Inv
  <2> SUFFICES ASSUME Init
               PROVE  Implemented!PowerInit /\ Inv
    OBVIOUS
  <2>1. height = 1 /\ xmars = FirstBalances /\ XMarsInit
    BY DEF Init, XMarsInit
  <2>2. [block \in 1 .. height - 1 |-> BalanceAt(block)] = <<>>
    BY <2>1
  <2> QED
    BY <2>1, <2>2, XMarsInvInit, StakingInvInit DEF Implemented!PowerInit
<1>2. Inv /\ [Next]_vars => Inv'
  BY StakingStep, StakedLedgerStep
<1>3. Inv /\ Inv' /\ [Next]_vars => [Power]_Implemented!powerVars
  BY StakedLedgerStep, WithinBlock, BlockIsSealed
<1>4. Inv => SnapshotsAddUp
  BY DEF XMarsInv
<1> QED
  BY <1>1, <1>2, <1>3, <1>4, PTL DEF Spec, XMarsIsVotingPower, Implemented!PowerSpec

-----------------------------------------------------------------------------
(* Answers. *)

\* What one step mints, reserves and pays is what was answered before it.
KeptBy == MintsAsAnswered /\ ReservesAsAnswered /\ \A u \in Accounts : PaysAsAnswered(u)

LEMMA KeptByStake ==
  ASSUME StakingInv, NEW recipient, NEW amount \in Amounts, Stake(recipient, amount)
  PROVE  KeptBy
<1>1. amount \in Nat /\ xmarsSupply \in Nat /\ mars \in Nat /\ forClaimers \in Nat
  BY XMarsAssumptions, StakingAssumptions DEF StakingInv
<1>2. /\ mars' = mars + amount /\ forClaimers' = forClaimers /\ claims' = claims
      /\ xmarsSupply' = xmarsSupply + XMarsFor(amount) /\ XMarsFor(amount) > 0
  BY DEF Stake, MintXMars, SetSupply
<1>3. XMarsFor(amount) \in Nat
  <2>1. CASE RatioDefined
    <3>1. ForStakers \in Nat \ {0}
      BY <1>1, <2>1 DEF RatioDefined, ForStakers
    <3> QED
      BY <1>1, <2>1, <3>1, FromRatioType, MulType DEF XMarsFor, XMarsPerMars
  <2>2. CASE ~RatioDefined
    BY <1>1, <2>2 DEF XMarsFor
  <2> QED
    BY <2>1, <2>2
<1>4. xmarsSupply' - xmarsSupply = XMarsFor(amount) /\ mars' - mars = amount
  <2>1. PICK x, s, m : x = XMarsFor(amount) /\ s = xmarsSupply /\ m = mars
    OBVIOUS
  <2>2. (s + x) - s = x /\ (m + amount) - m = amount
    BY <1>1, <1>3, <2>1
  <2> QED
    BY <1>2, <2>1, <2>2
<1>5. MintsAsAnswered
  <2>1. Answer([ask |-> "xmars_per_mars"]) = QueryXMarsPerMars
    BY DEF Answer
  <2>2. CASE RatioDefined
    BY <1>4, <2>1, <2>2 DEF MintsAsAnswered, QueryXMarsPerMars, XMarsFor
  <2>3. CASE ~RatioDefined
    BY <1>4, <2>1, <2>3 DEF MintsAsAnswered, QueryXMarsPerMars, XMarsFor
  <2> QED
    BY <2>2, <2>3
<1>6. ReservesAsAnswered /\ \A u \in Accounts : PaysAsAnswered(u)
  BY <1>1, <1>2 DEF ReservesAsAnswered, PaysAsAnswered
<1> QED
  BY <1>5, <1>6 DEF KeptBy

LEMMA KeptByUnstake ==
  ASSUME StakingInv, NEW staker, NEW recipient \in Accounts, NEW amount \in Amounts,
         Unstake(staker, recipient, amount)
  PROVE  KeptBy
<1>1. /\ amount \in Nat /\ xmarsSupply \in Nat /\ mars \in Nat /\ forClaimers \in Nat
      /\ ForStakers \in Nat /\ xmarsSupply # 0
  BY XMarsAssumptions, StakingAssumptions DEF StakingInv, Unstake, RatioDefined, ForStakers
<1>2. PICK claimable : claimable = Mul(amount, MarsPerXMars)
  OBVIOUS
<1>3. claimable \in Nat
  BY <1>1, <1>2, FromRatioType, MulType DEF MarsPerXMars
<1>4. /\ RatioDefined /\ amount > 0 /\ xmarsSupply' = xmarsSupply - amount
      /\ forClaimers' = forClaimers + claimable
      /\ claims[recipient] = NoClaim
      /\ claims' = [claims EXCEPT ![recipient] =
                      [created_at_block |-> height,
                       cooldown_end_timestamp |-> time + cooldown,
                       amount |-> claimable]]
  BY <1>2 DEF Unstake, Reserved, SendAndBurnXMars, SetSupply
<1>5. xmarsSupply - xmarsSupply' = amount /\ forClaimers' - forClaimers = claimable
  <2>1. PICK f, s : f = forClaimers /\ s = xmarsSupply
    OBVIOUS
  <2>2. s - (s - amount) = amount /\ (f + claimable) - f = claimable
    BY <1>1, <1>3, <2>1
  <2> QED
    BY <1>4, <2>1, <2>2
<1>6. ReservesAsAnswered
  <2>1. Answer([ask |-> "mars_per_xmars"]) = {MarsPerXMars}
    BY <1>4 DEF Answer, QueryMarsPerXMars
  <2> QED
    BY <1>2, <1>5, <2>1 DEF ReservesAsAnswered
<1>7. MintsAsAnswered
  BY <1>1, <1>4 DEF MintsAsAnswered
<1>8. \A u \in Accounts : PaysAsAnswered(u)
  <2> SUFFICES ASSUME NEW u \in Accounts, claims[u] # NoClaim
               PROVE  claims'[u] # NoClaim
    BY DEF PaysAsAnswered
  <2>1. claims'[u] = claims[u]
    BY <1>4
  <2> QED
    BY <2>1
<1> QED
  BY <1>6, <1>7, <1>8 DEF KeptBy

LEMMA KeptByClaim ==
  ASSUME StakingInv, NEW claimer \in Accounts, NEW recipient, Claim(claimer, recipient)
  PROVE  KeptBy
<1>1. xmarsSupply \in Nat /\ mars \in Nat /\ forClaimers \in Nat
  BY StakingAssumptions DEF StakingInv
<1>2. PICK payout \in 1 .. SmallerOf(forClaimers, mars) :
        /\ payout = AfterSlashes(claims[claimer])
        /\ forClaimers' = forClaimers - payout
  BY DEF Claim
<1>3. payout \in Nat \ {0}
  BY <1>1, <1>2 DEF SmallerOf
<1>4. /\ xmarsSupply' = xmarsSupply /\ claims[claimer] \in Claims
      /\ claims' = [claims EXCEPT ![claimer] = NoClaim]
  BY DEF Claim, xmarsVars, StakingInv, ClaimsUpTo
<1>5. forClaimers - forClaimers' = payout
  <2>1. PICK f : f = forClaimers
    OBVIOUS
  <2>2. f - (f - payout) = payout
    BY <1>1, <1>3, <2>1
  <2> QED
    BY <1>2, <2>1, <2>2
<1>6. MintsAsAnswered /\ ReservesAsAnswered
  BY <1>1, <1>2, <1>3, <1>4 DEF MintsAsAnswered, ReservesAsAnswered
<1>7. ASSUME NEW u \in Accounts, claims[u] # NoClaim, claims'[u] = NoClaim
      PROVE  forClaimers - forClaimers' = Answer([ask |-> "claim", user_address |-> u]).amount
  <2>1. u = claimer
    BY <1>4, <1>7
  <2>2. Answer([ask |-> "claim", user_address |-> u]) = QueryClaim(u)
    BY DEF Answer
  <2>3. QueryClaim(u).amount = AfterSlashes(claims[u])
    BY <1>4, <1>7, <2>1 DEF QueryClaim, Claims
  <2> QED
    BY <1>2, <1>5, <2>1, <2>2, <2>3
<1> QED
  BY <1>6, <1>7 DEF KeptBy, PaysAsAnswered

\* The steps that neither mint, reserve nor pay.
LEMMA KeptByOthers ==
  ASSUME StakingInv, xmarsSupply' <= xmarsSupply, forClaimers' <= forClaimers,
         xmarsSupply' \in Nat, forClaimers' \in Nat, claims' = claims
  PROVE  KeptBy
<1>1. xmarsSupply \in Nat /\ forClaimers \in Nat
  BY StakingAssumptions DEF StakingInv
<1> QED
  BY <1>1 DEF KeptBy, MintsAsAnswered, ReservesAsAnswered, PaysAsAnswered

-----------------------------------------------------------------------------
(* The theorems. *)

\* What the contract counts and stores is well typed, what it reserves is there,
\* and what it owes is reserved, whatever accounts, amounts and cooldowns.
THEOREM StakingCorrect == Spec => []StakingInv
<1>1. StakingInv /\ [Next]_vars => StakingInv'
  BY StakingStep
<1> QED
  BY StakingInvInit, <1>1, PTL DEF Spec

\* The contract never reserves more MARS for claimers than it holds, however its
\* slashes are rounded: get_staking_tokens_info can always subtract.
THEOREM ReservesStayHeld == Spec => []ReservesAreHeld
<1>1. StakingInv => ReservesAreHeld
  BY StakingAssumptions DEF StakingInv, ReservesAreHeld, QueryGlobalState
<1> QED
  BY StakingCorrect, <1>1, PTL

\* All open claims, slashed one by one and rounded at every event, fit in what is
\* reserved for them: the last claimer is paid.
THEOREM ClaimsStayReserved == Spec => []ClaimsAreReserved
<1>1. ASSUME StakingInv
      PROVE  ClaimsAreReserved
  <2> DEFINE asked == [u \in Accounts |-> IF claims[u] = NoClaim THEN 0 ELSE QueryClaim(u).amount]
  <2>1. ASSUME NEW u \in Accounts
        PROVE  asked[u] = Owed(claims, height, slashes)[u]
    <3>1. claims[u] # NoClaim => QueryClaim(u).amount = AfterSlashes(claims[u])
      <4>1. claims[u] # NoClaim => claims[u] \in Claims
        BY <1>1 DEF StakingInv, ClaimsUpTo
      <4> QED
        BY <4>1 DEF QueryClaim, Claims
    <3> QED
      BY <3>1 DEF Owed, AfterSlashes
  <2> HIDE DEF asked
  <2>2. Total(asked, Accounts) = Total(Owed(claims, height, slashes), Accounts)
    BY <2>1, TotalAgree
  <2>3. Total(asked, Accounts) <= forClaimers
    BY <1>1, <2>2 DEF StakingInv
  <2> QED
    BY <2>3 DEF ClaimsAreReserved, QueryGlobalState, asked
<1> QED
  BY StakingCorrect, <1>1, PTL

\* A transfer of MARS by the owner takes from stakers and from claimers in
\* proportion, up to the unit that is lost when the reserve is rounded.
THEOREM SlashesAreProportional == Spec => SlashIsProportional
<1>1. StakingInv /\ [Next]_vars =>
        [slashes' # slashes =>
          /\ forClaimers' * mars + mars >= forClaimers * mars'
          /\ ForStakers' * mars + mars >= ForStakers * mars']_vars
  BY StakingStep DEF BornAlike
<1> QED
  BY StakingCorrect, <1>1, PTL DEF Spec, SlashIsProportional

\* No stake, unstake, claim, transfer or burn of somebody lowers what another
\* holder's xMARS is worth, and the two ratios the contract reports follow.
THEOREM NobodyIsDiluted == Spec => HoldersAreNotDiluted
<1>1. ASSUME StakingInv, [Next]_vars, slashes' = slashes, xmarsSupply > 0
      PROVE  /\ ForStakers * xmarsSupply' <= ForStakers' * xmarsSupply
             /\ \A before \in QueryMarsPerXMars, after \in QueryMarsPerXMars' : before <= after
             /\ \A before \in QueryXMarsPerMars, after \in QueryXMarsPerMars' : before >= after
  <2>1. ForStakers * xmarsSupply' <= ForStakers' * xmarsSupply /\ StakingInv'
    BY <1>1, StakingStep DEF SharesStay
  <2>2. PICK P, S, Q, T : /\ P = ForStakers /\ S = xmarsSupply
                          /\ Q = ForStakers' /\ T = xmarsSupply'
    OBVIOUS
  <2>3. P \in Nat /\ S \in Nat \ {0} /\ Q \in Nat /\ T \in Nat /\ P * T <= Q * S
    <3>1. P \in Nat /\ S \in Nat
      BY <1>1, <2>2, StakingAssumptions DEF StakingInv, ForStakers
    <3>2. Q \in Nat /\ T \in Nat
      <4>1. mars' \in 0 .. MaxMars /\ forClaimers' \in 0 .. mars' /\ xmarsSupply' \in Nat
        BY <2>1 DEF StakingInv
      <4>2. Q = mars' - forClaimers' /\ T = xmarsSupply'
        BY <2>2 DEF ForStakers
      <4>3. mars' \in Nat /\ forClaimers' \in Nat /\ forClaimers' <= mars'
        BY <4>1, StakingAssumptions
      <4>4. PICK m, f : m = mars' /\ f = forClaimers'
        OBVIOUS
      <4>5. m \in Nat /\ f \in Nat /\ f <= m
        BY <4>3, <4>4
      <4>6. m - f \in Nat
        BY <4>5
      <4> QED
        BY <4>1, <4>2, <4>4, <4>6
    <3>3. P * T <= Q * S /\ S > 0
      BY <1>1, <2>1, <2>2
    <3> QED
      BY <3>1, <3>2, <3>3
  <2>4. ASSUME RatioDefined, RatioDefined'
        PROVE  FromRatio(P, S) <= FromRatio(Q, T) /\ FromRatio(T, Q) <= FromRatio(S, P)
    <3>1. P \in Nat \ {0} /\ Q \in Nat \ {0} /\ T \in Nat \ {0}
      BY <2>2, <2>3, <2>4 DEF RatioDefined
    <3>2. P * T <= Q * S /\ T * P <= S * Q
      BY <2>3
    <3> QED
      BY <2>3, <3>1, <3>2, RatiosCompare
  <2>5. ASSUME NEW before \in QueryMarsPerXMars, NEW after \in QueryMarsPerXMars'
        PROVE  before <= after
    <3>1. /\ RatioDefined /\ before = FromRatio(P, S)
          /\ RatioDefined' /\ after = FromRatio(Q, T)
      BY <2>2, <2>5 DEF QueryMarsPerXMars, MarsPerXMars
    <3> QED
      BY <2>4, <3>1
  <2>6. ASSUME NEW before \in QueryXMarsPerMars, NEW after \in QueryXMarsPerMars'
        PROVE  before >= after
    <3>1. /\ RatioDefined /\ before = FromRatio(S, P)
          /\ RatioDefined' /\ after = FromRatio(T, Q)
      BY <2>2, <2>6 DEF QueryXMarsPerMars, XMarsPerMars
    <3>2. FromRatio(T, Q) <= FromRatio(S, P)
      BY <2>4, <3>1
    <3> QED
      BY <3>1, <3>2
  <2> QED
    BY <2>1, <2>5, <2>6
<1>2. StakingInv /\ [Next]_vars =>
        [slashes' = slashes /\ xmarsSupply > 0 =>
           /\ ForStakers * xmarsSupply' <= ForStakers' * xmarsSupply
           /\ \A before \in QueryMarsPerXMars, after \in QueryMarsPerXMars' : before <= after
           /\ \A before \in QueryXMarsPerMars, after \in QueryXMarsPerMars' : before >= after]_vars
  BY <1>1
<1> QED
  BY StakingCorrect, <1>2, PTL DEF Spec, HoldersAreNotDiluted

\* What the contract announces for staking, unstaking and claiming is what it
\* then does in that block, whatever was slashed and whoever else acts.
THEOREM AnswersStayKept == Spec => AnswersAreKept
<1>1. ASSUME StakingInv, [Next]_vars
      PROVE  KeptBy
  <2>1. /\ xmarsSupply \in Nat /\ mars \in Nat /\ forClaimers \in Nat
        /\ forClaimers <= mars /\ mars <= One
    BY <1>1, StakingAssumptions, OneAssumption DEF StakingInv
  <2>2. StakingInv'
    BY <1>1, StakingStep
  <2>3. xmarsSupply' \in Nat /\ forClaimers' \in Nat
    BY <2>2, StakingAssumptions DEF StakingInv
  <2>4. ASSUME NEW u \in Users, UserStep(u)
        PROVE  KeptBy
    <3>1. PICK amount \in Amounts, recipient \in Accounts :
            \/ Stake(recipient, amount)
            \/ Unstake(u, recipient, amount)
            \/ Claim(u, recipient)
            \/ HolderTransfers(u, recipient, amount)
            \/ HolderBurns(u, amount)
      BY <2>4 DEF UserStep
    <3>2. CASE HolderTransfers(u, recipient, amount) \/ HolderBurns(u, amount)
      <4>1. /\ claims' = claims /\ forClaimers' = forClaimers
            /\ amount \in Nat /\ xmarsSupply' \in {xmarsSupply, xmarsSupply - amount}
        BY <3>2, XMarsAssumptions
           DEF HolderTransfers, HolderBurns, TransferXMars, BurnXMars, SetSupply, stakingVars
      <4> QED
        BY <1>1, <2>1, <2>3, <4>1, KeptByOthers
    <3>3. u \in Accounts
      BY DEF Users
    <3> QED
      BY <1>1, <3>1, <3>2, <3>3, KeptByStake, KeptByUnstake, KeptByClaim
  <2>5. ASSUME NEW amount \in Amounts, TransferMars(amount)
        PROVE  KeptBy
    <3>1. PICK p, left : p = FromRatio(amount, mars) /\ left = Mul(forClaimers, One - p)
      OBVIOUS
    <3>2. amount \in 1 .. mars
      BY <2>1, <2>5, XMarsAssumptions DEF TransferMars, CanTransfer
    <3>3. p \in 0 .. One
      BY <2>1, <3>1, <3>2, LeftByRatio
    <3>4. One - p \in Nat /\ One - p <= One
      BY <3>3, OneAssumption
    <3>5. left <= forClaimers
      BY <2>1, <3>1, <3>4, MulByFraction
    <3>6. claims' = claims /\ xmarsSupply' = xmarsSupply /\ forClaimers' = left
      BY <2>5, <3>1 DEF TransferMars, LeftForClaimers, xmarsVars
    <3> QED
      BY <1>1, <2>1, <2>3, <3>5, <3>6, KeptByOthers
  <2>6. ASSUME \/ \E amount \in Amounts : ReceiveMars(amount)
               \/ UpdateConfig \/ BlockPasses \/ UNCHANGED vars
        PROVE  KeptBy
    <3>1. claims' = claims /\ forClaimers' = forClaimers /\ xmarsSupply' = xmarsSupply
      BY <2>6 DEF ReceiveMars, UpdateConfig, BlockPasses, NextBlock, vars, stakingVars, xmarsVars
    <3> QED
      BY <1>1, <2>1, <2>3, <3>1, KeptByOthers
  <2> QED
    BY <1>1, <2>4, <2>5, <2>6 DEF Next
<1>2. StakingInv /\ [Next]_vars =>
        [MintsAsAnswered /\ ReservesAsAnswered /\ \A u \in Accounts : PaysAsAnswered(u)]_vars
  BY <1>1 DEF KeptBy
<1> QED
  BY StakingCorrect, <1>2, PTL DEF Spec, AnswersAreKept

=============================================================================
