---------------------------- MODULE PayoutProofs ----------------------------
(***************************************************************************)
(* What is paid out fits what there is: the refunds of a closed red bank,  *)
(* page by page, for any number of holders, any page and any maTokens; and *)
(* the parts the rewards collector distributes, with the taxes on them.    *)
(* What the deployment script makes, and that it leaves nothing to its     *)
(* wallet; and who gets what is distributed once the protocol runs.        *)
(***************************************************************************)
EXTENDS Closure, Deployment, CommonProofs

-----------------------------------------------------------------------------
(* The maTokens. *)

AllowanceType == [amount : Nat, expires : {Never}]

\* What is recorded of the maTokens, and that their supply is what is held.
MaInv ==
  /\ maTokens \in [Holders -> Nat] /\ maListed \subseteq Holders /\ maSupply \in Nat
  /\ maAllowances \in [MaApprovals -> AllowanceType]
  /\ SupplyIsHeld

\* What moves from one account to another stays in the total.
LEMMA TotalMoved ==
  ASSUME NEW S, IsFiniteSet(S), NEW f \in [S -> Nat], NEW u \in S, NEW v \in S,
         NEW amount \in Nat, amount <= f[u]
  PROVE  /\ Credit(Debit(f, u, amount), v, amount) \in [S -> Nat]
         /\ Total(Credit(Debit(f, u, amount), v, amount), S) = Total(f, S)
<1>1. PICK g : g = Debit(f, u, amount)
  OBVIOUS
<1>2. /\ g \in [S -> Nat] /\ Total(g, S) = Total(f, S) - amount /\ amount <= Total(f, S)
  BY <1>1, TotalDebit
<1>3. /\ Credit(g, v, amount) \in [S -> Nat]
      /\ Total(Credit(g, v, amount), S) = Total(g, S) + amount
  BY <1>2, TotalCredit
<1>4. Total(f, S) \in Nat
  BY TotalType
<1> QED
  BY <1>1, <1>2, <1>3, <1>4

LEMMA MoveStep ==
  ASSUME MaInv, NEW sender \in Holders, NEW recipient \in Holders, NEW amount \in Nat,
         Move(sender, recipient, amount)
  PROVE  /\ maTokens' \in [Holders -> Nat] /\ maListed' \subseteq Holders /\ maSupply' \in Nat
         /\ SupplyIsHeld'
<1>1. /\ maTokens \in [Holders -> Nat] /\ maSupply \in Nat
      /\ maListed \subseteq Holders /\ maSupply = Total(maTokens, Holders)
  BY DEF MaInv, SupplyIsHeld
<1>2. /\ amount <= maTokens[sender] /\ maSupply' = maSupply
      /\ maListed' = maListed \cup {sender, recipient}
      /\ maTokens' = Credit(Debit(maTokens, sender, amount), recipient, amount)
  BY <1>1 DEF Move
<1>3. PICK f : f = maTokens
  OBVIOUS
<1> IsFiniteSet(Holders) /\ f \in [Holders -> Nat] /\ amount <= f[sender]
  BY <1>1, <1>2, <1>3, MaTokenAssumptions
<1>4. /\ Credit(Debit(f, sender, amount), recipient, amount) \in [Holders -> Nat]
      /\ Total(Credit(Debit(f, sender, amount), recipient, amount), Holders) = Total(f, Holders)
  BY TotalMoved
<1> QED
  BY <1>1, <1>2, <1>3, <1>4 DEF SupplyIsHeld

LEMMA TransferKeeps ==
  ASSUME MaInv, NEW sender \in Holders, NEW recipient \in Holders, NEW amount \in Nat,
         MaTransfer(sender, recipient, amount)
  PROVE  MaInv'
  BY MoveStep DEF MaTransfer, MaInv

LEMMA SendKeeps ==
  ASSUME MaInv, NEW sender \in Holders, NEW contract \in Holders, NEW recipient \in Holders,
         NEW amount \in Nat, MaSend(sender, contract, recipient, amount)
  PROVE  MaInv'
<1>1. /\ maTokens \in [Holders -> Nat] /\ maSupply \in Nat
      /\ maListed \subseteq Holders /\ maSupply = Total(maTokens, Holders)
  BY DEF MaInv, SupplyIsHeld
<1>2. /\ amount <= maTokens[sender] /\ maSupply' = maSupply /\ maAllowances' = maAllowances
      /\ maListed' = maListed \cup {sender, contract, recipient}
      /\ maTokens' = Credit(Debit(maTokens, sender, amount), recipient, amount)
  BY <1>1 DEF MaSend
<1>3. PICK f : f = maTokens
  OBVIOUS
<1> IsFiniteSet(Holders) /\ f \in [Holders -> Nat] /\ amount <= f[sender]
  BY <1>1, <1>2, <1>3, MaTokenAssumptions
<1>4. /\ Credit(Debit(f, sender, amount), recipient, amount) \in [Holders -> Nat]
      /\ Total(Credit(Debit(f, sender, amount), recipient, amount), Holders) = Total(f, Holders)
  BY TotalMoved
<1> QED
  BY <1>1, <1>2, <1>3, <1>4 DEF MaInv, SupplyIsHeld

LEMMA TransferFromKeeps ==
  ASSUME MaInv, NEW p \in MaApprovals, NEW recipient \in Holders, NEW amount \in Nat,
         MaTransferFrom(p, recipient, amount)
  PROVE  MaInv'
<1>1. p[1] \in Holders
  BY MaTokenAssumptions
<1>2. Move(p[1], recipient, amount)
  BY DEF MaTransferFrom
<1>3. /\ maTokens' \in [Holders -> Nat] /\ maListed' \subseteq Holders /\ maSupply' \in Nat
      /\ SupplyIsHeld'
  BY <1>1, <1>2, MoveStep
<1>4. maAllowances' \in [MaApprovals -> AllowanceType]
  <2>1. /\ maAllowances \in [MaApprovals -> AllowanceType]
        /\ maAllowances' = [maAllowances EXCEPT ![p] = Deducted(@, amount)]
        /\ amount <= maAllowances[p].amount
    BY DEF MaInv, MaTransferFrom, MaySpend
  <2>2. Deducted(maAllowances[p], amount) \in AllowanceType
    BY <2>1 DEF Deducted, AllowanceType
  <2> QED
    BY <2>1, <2>2
<1> QED
  BY <1>3, <1>4 DEF MaInv

LEMMA ApproveKeeps ==
  ASSUME MaInv, NEW p \in MaApprovals, NEW amount \in Nat, MaApprove(p, amount)
  PROVE  MaInv'
<1>1. /\ maAllowances \in [MaApprovals -> AllowanceType]
      /\ UNCHANGED <<maTokens, maListed, maSupply>>
      /\ maAllowances' \in {[maAllowances EXCEPT ![p] = Increased(@, amount, Never)],
                            [maAllowances EXCEPT ![p] = Decreased(@, amount, Never)]}
  BY DEF MaInv, MaApprove
<1>2. /\ Increased(maAllowances[p], amount, Never) \in AllowanceType
      /\ Decreased(maAllowances[p], amount, Never) \in AllowanceType
  BY <1>1 DEF Increased, Decreased, Expiring, NoAllowance, AllowanceType
<1>3. maAllowances' \in [MaApprovals -> AllowanceType]
  BY <1>1, <1>2
<1> QED
  BY <1>1, <1>3 DEF MaInv, SupplyIsHeld

LEMMA MintKeeps ==
  ASSUME MaInv, NEW u \in Holders, NEW amount \in Nat, MaMint(u, amount)
  PROVE  MaInv'
<1>1. /\ maTokens \in [Holders -> Nat] /\ maSupply \in Nat /\ maListed \subseteq Holders
      /\ maSupply = Total(maTokens, Holders)
  BY DEF MaInv, SupplyIsHeld
<1>2. /\ maSupply' = maSupply + amount /\ maTokens' = Credit(maTokens, u, amount)
      /\ maListed' = maListed \cup {u} /\ maAllowances' = maAllowances
  BY DEF MaMint
<1>3. PICK f : f = maTokens
  OBVIOUS
<1> IsFiniteSet(Holders) /\ f \in [Holders -> Nat]
  BY <1>1, <1>3, MaTokenAssumptions
<1>4. /\ Credit(f, u, amount) \in [Holders -> Nat]
      /\ Total(Credit(f, u, amount), Holders) = Total(f, Holders) + amount
  BY TotalCredit
<1> QED
  BY <1>1, <1>2, <1>3, <1>4 DEF MaInv, SupplyIsHeld

LEMMA BurnKeeps ==
  ASSUME MaInv, NEW u \in Holders, NEW amount \in Nat, MaBurn(u, amount)
  PROVE  MaInv'
<1>1. /\ maTokens \in [Holders -> Nat] /\ maSupply \in Nat /\ maListed \subseteq Holders
      /\ maSupply = Total(maTokens, Holders)
  BY DEF MaInv, SupplyIsHeld
<1>2. /\ maSupply' = maSupply - amount /\ maTokens' = Debit(maTokens, u, amount)
      /\ amount <= maTokens[u] /\ maListed' = maListed /\ maAllowances' = maAllowances
  BY DEF MaBurn
<1>3. PICK f : f = maTokens
  OBVIOUS
<1>4. /\ Debit(f, u, amount) \in [Holders -> Nat] /\ amount <= Total(f, Holders)
      /\ Total(Debit(f, u, amount), Holders) = Total(f, Holders) - amount
  BY <1>1, <1>2, <1>3, MaTokenAssumptions, TotalDebit, SMTT(30)
<1> QED
  BY <1>1, <1>2, <1>3, <1>4 DEF MaInv, SupplyIsHeld

-----------------------------------------------------------------------------
(* A page of accounts. *)

\* The accounts of a page hold maTokens, and none is on it twice.
LEMMA PageOfHolders ==
  ASSUME NEW page, page = AllAccounts(PageLimit)
  PROVE  /\ page \in Seq(Holders)
         /\ \A i, j \in 1 .. Len(page) : page[i] = page[j] => i = j
<1>1. PICK order, entries, listed :
        /\ order = AddressOrder
        /\ entries = {i \in DOMAIN AddressOrder : AddressOrder[i] \in maListed}
        /\ listed = Retained(order, entries)
  OBVIOUS
<1>2. order \in Seq(Holders) /\ \A i, j \in 1 .. Len(order) : order[i] = order[j] => i = j
  <2>1. /\ order \in Seq(Holders)
        /\ \A i, j \in DOMAIN order : order[i] = order[j] => i = j
    BY <1>1, MaTokenAssumptions
  <2> QED
    BY <2>1, LenProperties
<1>3. /\ listed \in Seq(Holders)
      /\ \E from : IsPicked(listed, order, entries, Len(order), from)
  BY <1>1, <1>2, RetainedIsPicked
<1>4. PICK from : IsPicked(listed, order, entries, Len(order), from)
  BY <1>3
<1>5. PICK len, last, n :
        /\ len = Len(listed) /\ last = Len(order)
        /\ n = IF len < PageLimit THEN len ELSE PageLimit
  OBVIOUS
<1>6. /\ len \in Nat /\ last \in Nat /\ n \in Nat /\ n <= len
      /\ \A i \in 1 .. len : listed[i] \in Holders
  BY <1>2, <1>3, <1>5, LenProperties, ElementOfSeq, ClosureAssumptions
<1>7. page = SubSeq(listed, 1, n)
  BY <1>1, <1>5 DEF AllAccounts
<1>8. \A i \in 1 .. n : i \in 1 .. len
  BY <1>6
<1>9. /\ page \in Seq(Holders) /\ Len(page) = n
      /\ \A i \in 1 .. n : page[i] = listed[i]
  <2>1. 1 \in Int /\ n \in Int /\ \A i \in 1 .. n : listed[i] \in Holders
    BY <1>6, <1>8
  <2>2. /\ SubSeq(listed, 1, n) \in Seq(Holders)
        /\ Len(SubSeq(listed, 1, n)) = IF 1 <= n THEN n - 1 + 1 ELSE 0
        /\ \A i \in 1 .. n - 1 + 1 : SubSeq(listed, 1, n)[i] = listed[1 + i - 1]
    BY <2>1, SubSeqProperties
  <2> QED
    BY <1>6, <1>7, <2>2
<1>10. ASSUME NEW i \in 1 .. len, NEW j \in 1 .. len, listed[i] = listed[j]
       PROVE  i = j
  <2>1. /\ from \in [1 .. len -> 1 .. last]
        /\ \A k \in 1 .. len : listed[k] = order[from[k]]
        /\ \A h, k \in 1 .. len : h <= k => from[k] - from[h] >= k - h
    BY <1>4, <1>5 DEF IsPicked
  <2>2. from[i] = from[j] /\ from[i] \in Nat
    <3>1. from[i] \in 1 .. last /\ from[j] \in 1 .. last
      BY <2>1
    <3>2. order[from[i]] = order[from[j]]
      BY <1>10, <2>1
    <3> QED
      BY <1>2, <1>5, <1>6, <3>1, <3>2
  <2>3. (i <= j => 0 >= j - i) /\ (j <= i => 0 >= i - j)
    BY <2>1, <2>2
  <2> QED
    BY <1>6, <2>3
<1> QED
  BY <1>6, <1>8, <1>9, <1>10

\* The function by which Remaining is defined, up to an account of the page.
IsRemaining(left, page, last) ==
  left = [i \in 0 .. last |->
            IF i = 0 THEN [amount |-> held, supply |-> maSupply]
            ELSE LessShare(left[i - 1], maTokens[page[i]])]

LEMMA RemainingAt ==
  ASSUME NEW left, NEW page, NEW last \in Nat, IsRemaining(left, page, last), NEW i \in 0 .. last
  PROVE  /\ i = 0 => left[i] = [amount |-> held, supply |-> maSupply]
         /\ i # 0 => left[i] = LessShare(left[i - 1], maTokens[page[i]])
<1> DEFINE g == [j \in 0 .. last |->
                  IF j = 0 THEN [amount |-> held, supply |-> maSupply]
                  ELSE LessShare(left[j - 1], maTokens[page[j]])]
<1>1. g[i] = IF i = 0 THEN [amount |-> held, supply |-> maSupply]
             ELSE LessShare(left[i - 1], maTokens[page[i]])
  OBVIOUS
<1>2. left = g
  BY DEF IsRemaining
<1>3. left[i] = g[i]
  BY <1>2, Zenon
<1> HIDE DEF g
<1> QED
  BY <1>1, <1>3

\* There is one up to every account: the first without one would have it.
LEMMA RemainingExists ==
  ASSUME NEW page, NEW last \in Nat
  PROVE  \E left : IsRemaining(left, page, last)
<1> DEFINE Without == {n \in Nat : ~ \E left : IsRemaining(left, page, n)}
<1>1. SUFFICES ASSUME Without # {}
               PROVE  FALSE
  OBVIOUS
<1>2. PICK n \in Without : \A m \in Without : n <= m
  BY <1>1, LeastOfSome
<1>3. n \in Nat /\ ~ \E left : IsRemaining(left, page, n)
  BY <1>2
<1>4. CASE n = 0
  <2> DEFINE left == [i \in 0 .. n |-> [amount |-> held, supply |-> maSupply]]
  <2>1. IsRemaining(left, page, n)
    BY <1>4 DEF IsRemaining
  <2> QED
    BY <1>3, <2>1
<1>5. CASE n # 0
  <2>1. n - 1 \in Nat /\ n - 1 \notin Without
    BY <1>2, <1>3, <1>5
  <2>2. PICK g : IsRemaining(g, page, n - 1)
    BY <2>1
  <2>3. PICK end : end = LessShare(g[n - 1], maTokens[page[n]])
    OBVIOUS
  <2> DEFINE left == [i \in 0 .. n |-> IF i = n THEN end ELSE g[i]]
  <2>4. left[n] = end /\ \A i \in 0 .. n - 1 : left[i] = g[i]
    BY <1>3
  <2>5. left = [i \in 0 .. n |-> left[i]]
    OBVIOUS
  <2> HIDE DEF left
  <2>6. ASSUME NEW i \in 0 .. n
        PROVE  left[i] = IF i = 0 THEN [amount |-> held, supply |-> maSupply]
                         ELSE LessShare(left[i - 1], maTokens[page[i]])
    <3>1. CASE i = n
      <4>1. i # 0 /\ n - 1 \in 0 .. n - 1 /\ left[n - 1] = g[n - 1]
        BY <1>3, <1>5, <2>4, <3>1
      <4> QED
        BY <2>3, <2>4, <3>1, <4>1
    <3>2. CASE i # n
      <4>1. i \in 0 .. n - 1 /\ left[i] = g[i]
        BY <1>3, <2>4, <3>2
      <4>2. i # 0 => i - 1 \in 0 .. n - 1 /\ left[i - 1] = g[i - 1]
        BY <1>3, <2>4, <4>1
      <4>3. /\ i = 0 => g[i] = [amount |-> held, supply |-> maSupply]
            /\ i # 0 => g[i] = LessShare(g[i - 1], maTokens[page[i]])
        BY <2>1, <2>2, <4>1, RemainingAt
      <4> QED
        BY <4>1, <4>2, <4>3
    <3> QED
      BY <3>1, <3>2
  <2>7. IsRemaining(left, page, n)
    BY <2>5, <2>6, Zenon DEF IsRemaining
  <2> QED
    BY <1>3, <2>7
<1> QED
  BY <1>4, <1>5

LEMMA RemainingIs ==
  ASSUME NEW page, Len(page) \in Nat
  PROVE  IsRemaining(Remaining(page), page, Len(page))
<1>1. \E left : IsRemaining(left, page, Len(page))
  BY RemainingExists
<1>2. PICK chosen : chosen = CHOOSE left : IsRemaining(left, page, Len(page))
  OBVIOUS
<1>3. IsRemaining(chosen, page, Len(page))
  BY <1>1, <1>2
<1>4. Remaining(page) = chosen
  BY <1>2 DEF Remaining, IsRemaining
<1> QED
  BY <1>3, <1>4

-----------------------------------------------------------------------------
(* The shares. *)

\* An account with b of S maTokens gets, of an amount A that is worth no less per
\* maToken than H is per one of M, at least what it would get of H, rounded down;
\* what it leaves is worth no less either; and the last account leaves nothing.
LEMMA ShareIsFair ==
  ASSUME NEW A \in Nat, NEW S \in Nat \ {0}, NEW H \in Nat, NEW M \in Nat \ {0},
         NEW b \in Nat, b <= S, H * S <= A * M, NEW q, q = (A * b) \div S
  PROVE  /\ q \in Nat /\ q <= A
         /\ (H * b) \div M <= q
         /\ H * (S - b) <= (A - q) * M
         /\ S - b = 0 => q = A
<1>1. A * b \in Nat /\ H * b \in Nat /\ A * S \in Nat /\ A * M \in Nat /\ H * S \in Nat
  BY ProductType
<1>2. q \in Nat /\ q * S <= A * b
  BY <1>1, DivFloor
<1>3. A * b <= A * S
  BY ProductMono
<1>4. q <= A
  BY <1>1, <1>2, <1>3, DivUpper
<1>5. (H * b) \div M <= q
  <2>1. PICK w : w = (H * b) \div M
    OBVIOUS
  <2>2. w \in Nat /\ w * M <= H * b
    BY <1>1, <2>1, DivFloor
  <2>3. (w * M) * S <= (H * b) * S
    BY <1>1, <2>2, ProductMono, ProductType
  <2>4. (H * S) * b <= (A * M) * b
    BY <1>1, ProductMono
  <2>5. /\ (w * M) * S = (w * S) * M
        /\ (H * b) * S = (H * S) * b
        /\ (A * M) * b = (A * b) * M
    BY <2>2
  <2>6. (w * S) * M \in Nat /\ (A * b) * M \in Nat /\ (H * S) * b \in Nat /\ w * S \in Nat
    BY <1>1, <2>2, ProductType
  <2>7. (w * S) * M <= (A * b) * M
    BY <2>3, <2>4, <2>5, <2>6
  <2>8. w * S <= A * b
    BY <1>1, <2>6, <2>7, CancelFactor
  <2>9. (w * S) \div S <= (A * b) \div S
    BY <1>1, <2>6, <2>8, DivMono
  <2>10. (w * S) \div S = w
    BY <2>2, DivExact
  <2> QED
    BY <2>1, <2>9, <2>10
<1>6. H * (S - b) <= (A - q) * M
  <2>1. PICK rest, kept : rest = S - b /\ kept = A - q
    OBVIOUS
  <2>2. rest \in Nat /\ kept \in Nat
    BY <1>2, <1>4, <2>1
  <2>3. (H * S) * rest <= (A * M) * rest
    BY <1>1, <2>2, ProductMono
  <2>4. A * rest = A * S - A * b /\ kept * S = A * S - q * S
    BY <1>2, <2>1
  <2>5. A * rest <= kept * S
    BY <1>1, <1>2, <2>4, ProductType
  <2>6. (A * rest) * M <= (kept * S) * M
    BY <2>2, <2>5, ProductMono, ProductType
  <2>7. /\ (H * S) * rest = (H * rest) * S
        /\ (A * M) * rest = (A * rest) * M
        /\ (kept * S) * M = (kept * M) * S
    BY <2>2
  <2>8. /\ H * rest \in Nat /\ kept * M \in Nat
        /\ (H * rest) * S \in Nat /\ (kept * M) * S \in Nat /\ (A * rest) * M \in Nat
    BY <2>2, ProductType
  <2>9. (H * rest) * S <= (kept * M) * S
    BY <2>3, <2>6, <2>7, <2>8
  <2>10. H * rest <= kept * M
    BY <2>8, <2>9, CancelFactor
  <2> QED
    BY <2>1, <2>10
<1>7. S - b = 0 => q = A
  <2>1. SUFFICES ASSUME S - b = 0
                 PROVE  q = A
    OBVIOUS
  <2>2. b = S
    BY <2>1
  <2> QED
    BY <2>2, DivExact
<1> QED
  BY <1>2, <1>4, <1>5, <1>6, <1>7

\* A page that can be refunded: of holders, none of them twice.
IsPage(page) ==
  /\ page \in Seq(Holders) /\ Len(page) \in Nat
  /\ \A i, j \in 1 .. Len(page) : page[i] = page[j] => i = j
  /\ \A i \in 1 .. Len(page) : page[i] \in Holders /\ maTokens[page[i]] > 0

FirstOf(page, i) == {page[j] : j \in 1 .. i}

\* What is left after i accounts is worth no less per maToken than what is held.
LeftIsFair(page, i) ==
  LET left == Remaining(page)[i]
  IN  /\ left.amount \in Nat /\ left.supply \in Nat
      /\ left.supply = Total(maTokens, Holders \ FirstOf(page, i))
      /\ held * left.supply <= left.amount * maSupply
      /\ i # 0 /\ left.supply = 0 => left.amount = 0

\* The next account of a page leaves a fair rest, and gets its share.
LEMMA NextIsFair ==
  ASSUME MaInv, held \in Nat, NEW page, IsPage(page),
         NEW i \in 1 .. Len(page), LeftIsFair(page, i - 1)
  PROVE  /\ LeftIsFair(page, i)
         /\ Remaining(page)[i - 1].amount - Remaining(page)[i].amount \in Nat
         /\ (held * maTokens[page[i]]) \div maSupply
              <= Remaining(page)[i - 1].amount - Remaining(page)[i].amount
<1>1. PICK left, last, u, ledger :
        /\ left = Remaining(page) /\ last = Len(page) /\ u = page[i] /\ ledger = maTokens
  OBVIOUS
<1>2. /\ last \in Nat /\ i \in 1 .. last /\ i \in 0 .. last /\ i # 0
      /\ u \in Holders /\ ledger[u] > 0 /\ ledger \in [Holders -> Nat]
      /\ maSupply = Total(ledger, Holders) /\ IsFiniteSet(Holders)
  <2>1. last \in Nat /\ i \in 1 .. last /\ u \in Holders /\ ledger[u] > 0
    BY <1>1 DEF IsPage
  <2>2. i \in 0 .. last /\ i # 0
    BY <2>1
  <2> QED
    BY <1>1, <2>1, <2>2, MaTokenAssumptions DEF MaInv, SupplyIsHeld
<1>3. IsRemaining(left, page, last)
  BY <1>1, <1>2, RemainingIs
<1>4. left[i] = LessShare(left[i - 1], ledger[u])
  BY <1>1, <1>2, <1>3, RemainingAt
<1>5. PICK A, S, b, q : /\ A = left[i - 1].amount /\ S = left[i - 1].supply /\ b = ledger[u]
                        /\ q = (A * b) \div S
  OBVIOUS
<1>6. left[i].amount = A - q /\ left[i].supply = S - b
  BY <1>4, <1>5 DEF LessShare, Share
<1>7. PICK before, after : /\ before = Holders \ FirstOf(page, i - 1)
                           /\ after = Holders \ FirstOf(page, i)
  OBVIOUS
<1>8. u \in before /\ after = before \ {u}
  <2>1. FirstOf(page, i) = FirstOf(page, i - 1) \cup {u}
    <3>1. 1 .. i = (1 .. i - 1) \cup {i}
      BY <1>2
    <3> QED
      BY <1>1, <3>1 DEF FirstOf
  <2>2. u \notin FirstOf(page, i - 1)
    <3>1. \A j \in 1 .. i - 1 : j \in 1 .. last /\ j # i
      BY <1>2
    <3> QED
      BY <1>1, <1>2, <3>1 DEF FirstOf, IsPage
  <2> QED
    BY <1>2, <1>7, <2>1, <2>2
<1>9. IsFiniteSet(before) /\ IsFiniteSet(after) /\ \A v \in before : ledger[v] \in Nat
  <2>1. before \subseteq Holders /\ after \subseteq Holders
    BY <1>7
  <2> QED
    BY <1>2, <2>1, FS_Subset
<1>10. /\ Total(ledger, before) = Total(ledger, after) + b
       /\ Total(ledger, before) \in Nat /\ Total(ledger, after) \in Nat
  <2>1. Total(ledger, before) = Total(ledger, before \ {u}) + ledger[u]
    BY <1>8, <1>9, TotalSplit
  <2> QED
    BY <1>5, <1>8, <1>9, <2>1, TotalType
<1>11. A \in Nat /\ S = Total(ledger, before) /\ held * S <= A * maSupply
  BY <1>1, <1>5, <1>7 DEF LeftIsFair
<1>12. b \in Nat \ {0} /\ S \in Nat \ {0} /\ b <= S
  BY <1>2, <1>5, <1>10, <1>11, SMTT(30)
<1>13. maSupply \in Nat \ {0}
  <2>1. ledger[u] <= Total(ledger, Holders)
    BY <1>2, TotalBoundsEntry
  <2> QED
    BY <1>2, <1>12, <1>5, <2>1 DEF MaInv
<1>14. /\ q \in Nat /\ q <= A
       /\ (held * b) \div maSupply <= q
       /\ held * (S - b) <= (A - q) * maSupply
       /\ S - b = 0 => q = A
  <2>1. PICK H, M : H = held /\ M = maSupply
    OBVIOUS
  <2>2. H \in Nat
    BY <2>1
  <2>3. M \in Nat \ {0}
    BY <1>13, <2>1
  <2>4. H * S <= A * M
    BY <1>11, <2>1
  <2>5. A \in Nat
    BY <1>11
  <2>6. S \in Nat \ {0}
    BY <1>12
  <2>7. b \in Nat
    BY <1>12
  <2>8. b <= S
    BY <1>12
  <2>9. q = (A * b) \div S
    BY <1>5
  <2>10. /\ q \in Nat /\ q <= A
         /\ (H * b) \div M <= q
         /\ H * (S - b) <= (A - q) * M
         /\ S - b = 0 => q = A
    BY ONLY <2>2, <2>3, <2>4, <2>5, <2>6, <2>7, <2>8, <2>9, ShareIsFair, SMTT(30)
  <2> QED
    BY <2>1, <2>10
<1>15. LeftIsFair(page, i)
  <2>1. left[i].amount \in Nat /\ left[i].supply \in Nat /\ left[i].supply = Total(ledger, after)
    BY <1>6, <1>10, <1>11, <1>12, <1>14, SMTT(30)
  <2>2. held * left[i].supply <= left[i].amount * maSupply
    BY <1>6, <1>14
  <2>3. left[i].supply = 0 => left[i].amount = 0
    BY <1>6, <1>11, <1>14
  <2> QED
    BY <1>1, <1>7, <2>1, <2>2, <2>3 DEF LeftIsFair
<1>16. left[i - 1].amount - left[i].amount = q
  BY <1>5, <1>6, <1>11, <1>14
<1> QED
  BY <1>1, <1>5, <1>14, <1>15, <1>16

\* So does every one: the first that did not would have one before it.
LEMMA RestIsFair ==
  ASSUME MaInv, held \in Nat, NEW page, IsPage(page)
  PROVE  \A i \in 0 .. Len(page) : LeftIsFair(page, i)
<1> DEFINE Wrong == {i \in 0 .. Len(page) : ~ LeftIsFair(page, i)}
<1>0. Len(page) \in Nat
  BY DEF IsPage
<1>1. SUFFICES ASSUME Wrong # {}
               PROVE  FALSE
  OBVIOUS
<1>2. Wrong \subseteq Nat
  BY <1>0
<1>3. PICK i \in Wrong : \A j \in Wrong : i <= j
  <2> HIDE DEF Wrong
  <2> QED
    BY <1>1, <1>2, LeastOfSome
<1>4. i \in 0 .. Len(page) /\ i \in Nat /\ ~ LeftIsFair(page, i)
  BY <1>2, <1>3
<1>5. CASE i = 0
  <2>1. Remaining(page)[0] = [amount |-> held, supply |-> maSupply]
    BY <1>0, RemainingIs, RemainingAt
  <2>2. FirstOf(page, 0) = {}
    BY DEF FirstOf
  <2>3. maSupply \in Nat /\ maSupply = Total(maTokens, Holders) /\ Holders \ {} = Holders
    BY DEF MaInv, SupplyIsHeld
  <2>4. PICK left : left = Remaining(page)[0]
    OBVIOUS
  <2>5. left.amount = held /\ left.supply = maSupply
    BY <2>1, <2>4
  <2>6. /\ left.amount \in Nat /\ left.supply \in Nat
        /\ left.supply = Total(maTokens, Holders \ FirstOf(page, 0))
        /\ held * left.supply <= left.amount * maSupply
    <3>1. held * maSupply <= held * maSupply
      BY <2>3, ProductType
    <3> QED
      BY <2>2, <2>3, <2>5, <3>1
  <2>7. LeftIsFair(page, 0)
    BY <2>4, <2>6 DEF LeftIsFair
  <2> QED
    BY <1>4, <1>5, <2>7
<1>6. CASE i # 0
  <2>1. i \in 1 .. Len(page) /\ i - 1 \in 0 .. Len(page) /\ ~ (i <= i - 1)
    BY <1>0, <1>4, <1>6
  <2>2. i - 1 \notin Wrong
    <3> HIDE DEF Wrong
    <3> QED
      BY <1>3, <2>1
  <2>3. LeftIsFair(page, i - 1)
    BY <2>1, <2>2
  <2>4. LeftIsFair(page, i)
    BY <2>1, <2>3, NextIsFair
  <2> QED
    BY <1>4, <2>4
<1> QED
  BY <1>5, <1>6

-----------------------------------------------------------------------------
(* The refunds. *)

\* Who is on a page gets the difference it makes.
LEMMA RefundOfAccount ==
  ASSUME MaInv, held \in Nat, NEW page, IsPage(page), NEW i \in 1 .. Len(page)
  PROVE  /\ RefundOf(page, page[i]) = Remaining(page)[i - 1].amount - Remaining(page)[i].amount
         /\ RefundOf(page, page[i]) \in Nat
         /\ (held * maTokens[page[i]]) \div maSupply <= RefundOf(page, page[i])
<1>1. DOMAIN page = 1 .. Len(page) /\ Len(page) \in Nat
  BY LenProperties DEF IsPage
<1>2. PICK j : j = CHOOSE k \in DOMAIN page : page[k] = page[i]
  OBVIOUS
<1>3. j = i
  <2>1. j \in DOMAIN page /\ page[j] = page[i]
    BY <1>1, <1>2
  <2> QED
    BY <1>1, <2>1 DEF IsPage
<1>4. RefundOf(page, page[i]) = Remaining(page)[i - 1].amount - Remaining(page)[i].amount
  BY <1>2, <1>3 DEF RefundOf
<1>5. i - 1 \in 0 .. Len(page)
  BY <1>1
<1>6. LeftIsFair(page, i - 1)
  BY <1>5, RestIsFair
<1> QED
  BY <1>4, <1>6, NextIsFair

\* The refunds of a page take out what they leave out.
LEMMA RefundsAddUp ==
  ASSUME MaInv, held \in Nat, NEW page, IsPage(page)
  PROVE  LET refunds == [u \in Members(page) |-> RefundOf(page, u)]
         IN  /\ \A u \in Members(page) : RefundOf(page, u) \in Nat
             /\ IsFiniteSet(Members(page)) /\ Members(page) \subseteq Holders
             /\ Members(page) = FirstOf(page, Len(page))
             /\ Total(refunds, Members(page)) = held - Remaining(page)[Len(page)].amount
<1> DEFINE refunds == [u \in Members(page) |-> RefundOf(page, u)]
           Sum(i) == Total(refunds, FirstOf(page, i))
           Left(i) == Remaining(page)[i].amount
           Wrong == {i \in 0 .. Len(page) : Sum(i) # held - Left(i)}
<1>1. /\ Len(page) \in Nat /\ DOMAIN page = 1 .. Len(page)
      /\ \A i \in 1 .. Len(page) : page[i] \in Holders
  BY LenProperties DEF IsPage
<1>2. Members(page) = FirstOf(page, Len(page)) /\ Members(page) \subseteq Holders
  BY <1>1 DEF Members, FirstOf
<1>3. IsFiniteSet(Members(page))
  BY <1>2, MaTokenAssumptions, FS_Subset
<1>4. \A u \in Members(page) : RefundOf(page, u) \in Nat
  BY <1>2, RefundOfAccount DEF FirstOf
<1>5. \A i \in 0 .. Len(page) : Left(i) \in Nat
  BY RestIsFair DEF LeftIsFair
<1>6. Wrong = {}
  <2>1. SUFFICES ASSUME Wrong # {}
                 PROVE  FALSE
    OBVIOUS
  <2>2. Wrong \subseteq Nat
    BY <1>1
  <2>3. PICK i \in Wrong : \A j \in Wrong : i <= j
    <3> HIDE DEF Wrong
    <3> QED
      BY <2>1, <2>2, LeastOfSome
  <2>4. i \in 0 .. Len(page) /\ i \in Nat /\ Sum(i) # held - Left(i)
    BY <2>2, <2>3
  <2>5. CASE i = 0
    <3>1. Remaining(page)[0] = [amount |-> held, supply |-> maSupply]
      BY <1>1, RemainingIs, RemainingAt
    <3>2. FirstOf(page, 0) = {}
      BY DEF FirstOf
    <3>3. Sum(0) = 0
      BY <3>2, TotalZero
    <3> QED
      BY <2>4, <2>5, <3>1, <3>3
  <2>6. CASE i # 0
    <3>1. i \in 1 .. Len(page) /\ i - 1 \in 0 .. Len(page) /\ ~ (i <= i - 1)
      BY <1>1, <2>4, <2>6
    <3>2. i - 1 \notin Wrong
      <4> HIDE DEF Wrong
      <4> QED
        BY <2>3, <3>1
    <3>3. Sum(i - 1) = held - Left(i - 1)
      BY <3>1, <3>2
    <3>4. PICK f, T : f = refunds /\ T = FirstOf(page, i)
      OBVIOUS
    <3>5. /\ T \subseteq Members(page) /\ page[i] \in T /\ T \ {page[i]} = FirstOf(page, i - 1)
      <4>1. 1 .. i = (1 .. i - 1) \cup {i} /\ \A j \in 1 .. i - 1 : j \in 1 .. Len(page) /\ j # i
        BY <1>1, <3>1
      <4>2. \A j \in 1 .. i - 1 : page[j] # page[i]
        BY <3>1, <4>1 DEF IsPage
      <4> QED
        BY <1>1, <3>1, <3>4, <4>1, <4>2 DEF Members, FirstOf
    <3>6. IsFiniteSet(T) /\ \A u \in T : f[u] \in Nat
      BY <1>3, <1>4, <3>4, <3>5, FS_Subset
    <3>7. Total(f, T) = Total(f, T \ {page[i]}) + f[page[i]]
      BY <3>5, <3>6, TotalSplit
    <3>8. f[page[i]] = Left(i - 1) - Left(i)
      BY <3>1, <3>4, <3>5, RefundOfAccount
    <3>9. Sum(i) = Sum(i - 1) + (Left(i - 1) - Left(i))
      BY <3>4, <3>5, <3>7, <3>8
    <3>10. Left(i) \in Nat /\ Left(i - 1) \in Nat
      BY <1>5, <2>4, <3>1
    <3> HIDE DEF Sum, Left
    <3> QED
      BY <2>4, <3>3, <3>9, <3>10
  <2> QED
    BY <2>5, <2>6
<1>7. Len(page) \in 0 .. Len(page)
  BY <1>1
<1>8. Sum(Len(page)) = held - Left(Len(page))
  BY <1>6, <1>7
<1> QED
  BY <1>2, <1>3, <1>4, <1>8

\* Accounts that are emptied leave the others in the total.
LEMMA TotalOfOthers ==
  ASSUME NEW S, NEW T, NEW f, NEW g,
         \A x \in S \cap T : g[x] = 0, \A x \in S \ T : g[x] = f[x]
  PROVE  Total(g, S) = Total(f, S \ T)
<1>1. \A x \in S \cap T : UnitsOf(g, x) = {}
  BY DEF UnitsOf
<1>2. \A x \in S \ T : UnitsOf(g, x) = UnitsOf(f, x)
  BY DEF UnitsOf
<1>3. Units(g, S) = Units(f, S \ T)
  BY <1>1, <1>2 DEF Units
<1> QED
  BY <1>3 DEF Total

\* What a transfer of the asset costs: at least what is sent.
LEMMA CostOfAsset ==
  ASSUME NEW amount \in Nat
  PROVE  /\ AssetCost(amount) \in Nat /\ amount <= AssetCost(amount)
         /\ AssetCost(amount) - amount \in Nat
<1>1. Mul(amount, TaxRate) \in Nat /\ TaxCap \in Nat
  BY TaxAssumptions, MulType
<1>2. Charged(amount) \in Nat
  BY <1>1 DEF Charged, SmallerOf
<1> QED
  BY <1>2 DEF AssetCost, CostOf

\* Nothing is charged for nothing.
LEMMA NothingIsFree == AssetCost(0) = 0
<1>1. Mul(0, TaxRate) = 0
  <2>1. 0 \div One = 0 /\ 0 * TaxRate = 0
    BY OneAssumption, TaxAssumptions
  <2> QED
    BY <2>1 DEF Mul
<1>2. Charged(0) = 0
  BY <1>1, TaxAssumptions DEF Charged, SmallerOf
<1> QED
  BY <1>2 DEF AssetCost, CostOf

\* Taxes are amounts.
LEMMA TaxesType ==
  ASSUME wallets \in [Holders -> Nat], wallets' \in [Holders -> Nat]
  PROVE  TaxesPaid \in Nat
<1>1. PICK taxes : taxes = [u \in Holders |-> AssetCost(Received(u)) - Received(u)]
  OBVIOUS
<1>2. \A u \in Holders : Received(u) \in Nat
  BY DEF Received
<1>3. \A u \in Holders : taxes[u] \in Nat
  BY <1>1, <1>2, CostOfAsset
<1>4. Total(taxes, Holders) \in Nat
  BY <1>3, MaTokenAssumptions, TotalType
<1> QED
  BY <1>1, <1>4 DEF TaxesPaid

\* What a page costs is what it pays and the taxes on it.
LEMMA CostIsTaxed ==
  ASSUME wallets \in [Holders -> Nat], NEW page,
         Members(page) \subseteq Holders,
         \A u \in Members(page) : RefundOf(page, u) \in Nat,
         wallets' = [u \in Holders |-> IF u \in Members(page) THEN wallets[u] + RefundOf(page, u)
                                       ELSE wallets[u]]
  PROVE  CostOfPage(page)
           = Total([u \in Members(page) |-> RefundOf(page, u)], Members(page)) + TaxesPaid
<1>1. PICK members, refunds, costs, taxes, all :
        /\ members = Members(page)
        /\ refunds = [u \in members |-> RefundOf(page, u)]
        /\ costs = [u \in members |-> AssetCost(RefundOf(page, u))]
        /\ taxes = [u \in members |-> costs[u] - refunds[u]]
        /\ all = [u \in Holders |-> AssetCost(Received(u)) - Received(u)]
  OBVIOUS
<1>2. IsFiniteSet(members) /\ members \subseteq Holders
  BY <1>1, MaTokenAssumptions, FS_Subset
<1>3. \A u \in members : /\ refunds[u] \in Nat /\ taxes[u] \in Nat
                         /\ costs[u] = refunds[u] + taxes[u]
  <2>1. SUFFICES ASSUME NEW u \in members
                 PROVE  /\ refunds[u] \in Nat /\ taxes[u] \in Nat
                        /\ costs[u] = refunds[u] + taxes[u]
    OBVIOUS
  <2>2. refunds[u] = RefundOf(page, u) /\ costs[u] = AssetCost(RefundOf(page, u))
    BY <1>1, <2>1
  <2>3. RefundOf(page, u) \in Nat
    BY <1>1, <2>1
  <2>4. /\ AssetCost(RefundOf(page, u)) \in Nat
        /\ AssetCost(RefundOf(page, u)) - RefundOf(page, u) \in Nat
    BY <2>3, CostOfAsset
  <2>5. taxes[u] = costs[u] - refunds[u]
    BY <1>1, <2>1
  <2> QED
    BY <2>2, <2>3, <2>4, <2>5
<1>4. Total(costs, members) = Total(refunds, members) + Total(taxes, members)
  BY <1>2, <1>3, TotalPlus
<1>5. \A u \in members : all[u] = taxes[u]
  <2>1. SUFFICES ASSUME NEW u \in members
                 PROVE  all[u] = taxes[u]
    OBVIOUS
  <2>2. RefundOf(page, u) \in Nat /\ u \in Holders
    BY <1>1, <1>2, <2>1
  <2>3. Received(u) = RefundOf(page, u)
    <3>1. wallets'[u] = wallets[u] + RefundOf(page, u) /\ wallets[u] \in Nat
      BY <1>1, <2>1, <2>2
    <3> QED
      BY <2>2, <3>1 DEF Received
  <2> QED
    BY <1>1, <2>1, <2>2, <2>3
<1>6. \A u \in Holders \ members : all[u] = 0
  <2>1. SUFFICES ASSUME NEW u \in Holders \ members
                 PROVE  all[u] = 0
    OBVIOUS
  <2>2. Received(u) = 0
    BY <1>1 DEF Received
  <2> QED
    BY <1>1, <2>2, NothingIsFree
<1>7. Total(taxes, members) = Total(all, Holders)
  BY <1>2, <1>5, <1>6, TotalPadded
<1> QED
  BY <1>1, <1>4, <1>7 DEF CostOfPage, TaxesPaid

\* A page that is refunded is one, and what remains is what was computed.
LEMMA RefundedPage ==
  ASSUME MaInv, held \in Nat, wallets \in [Holders -> Nat], Refund
  PROVE  LET page == AllAccounts(PageLimit)
         IN  /\ IsPage(page)
             /\ LeftIsFair(page, Len(page))
             /\ maTokens' = [u \in Holders |-> IF u \in Members(page) THEN 0 ELSE maTokens[u]]
             /\ maSupply' = Remaining(page)[Len(page)].supply
             /\ CostOfPage(page) \in Nat /\ CostOfPage(page) <= held
             /\ held' = held - CostOfPage(page)
             /\ TaxesPaid \in Nat
             /\ held' + TaxesPaid = Remaining(page)[Len(page)].amount
             /\ wallets' = [u \in Holders |-> IF u \in Members(page)
                                              THEN wallets[u] + RefundOf(page, u)
                                              ELSE wallets[u]]
<1>1. PICK page : page = AllAccounts(PageLimit)
  OBVIOUS
<1>2. /\ CanRefund(page)
      /\ maTokens' = [u \in Holders |-> IF u \in Members(page) THEN 0 ELSE maTokens[u]]
      /\ maSupply' = Remaining(page)[Len(page)].supply
      /\ held' = held - CostOfPage(page)
      /\ wallets' = [u \in Holders |-> IF u \in Members(page) THEN wallets[u] + RefundOf(page, u)
                                       ELSE wallets[u]]
  BY <1>1 DEF Refund
<1>3. IsPage(page)
  <2>1. /\ page \in Seq(Holders)
        /\ \A i, j \in 1 .. Len(page) : page[i] = page[j] => i = j
    BY <1>1, PageOfHolders
  <2>2. /\ Len(page) \in Nat /\ DOMAIN page = 1 .. Len(page)
        /\ \A i \in 1 .. Len(page) : page[i] \in Holders
    BY <2>1, LenProperties, ElementOfSeq
  <2>3. \A i \in 1 .. Len(page) : maTokens[page[i]] > 0
    BY <1>2, <2>2 DEF CanRefund, Members
  <2> QED
    BY <2>1, <2>2, <2>3 DEF IsPage
<1>4. LeftIsFair(page, Len(page))
  <2>1. Len(page) \in 0 .. Len(page)
    BY <1>3 DEF IsPage
  <2> QED
    BY <1>3, <2>1, RestIsFair
<1>5. PICK refunds : refunds = [u \in Members(page) |-> RefundOf(page, u)]
  OBVIOUS
<1>6. /\ \A u \in Members(page) : RefundOf(page, u) \in Nat
      /\ IsFiniteSet(Members(page)) /\ Members(page) \subseteq Holders
      /\ Total(refunds, Members(page)) = held - Remaining(page)[Len(page)].amount
  BY <1>3, <1>5, RefundsAddUp
<1>7. CostOfPage(page) = Total(refunds, Members(page)) + TaxesPaid
  BY <1>2, <1>5, <1>6, CostIsTaxed
<1>8. TaxesPaid \in Nat
  <2>1. wallets' \in [Holders -> Nat]
    BY <1>2, <1>6
  <2> QED
    BY <2>1, TaxesType
<1>9. PICK rest, paid : rest = Remaining(page)[Len(page)].amount /\ paid = TaxesPaid
  OBVIOUS
<1>10. rest \in Nat /\ paid \in Nat
  BY <1>4, <1>8, <1>9 DEF LeftIsFair
<1>11. CostOfPage(page) = (held - rest) + paid
  BY <1>6, <1>7, <1>9
<1>12. CostOfPage(page) <= held
  BY <1>2 DEF CanRefund
<1>13. CostOfPage(page) \in Nat
  <2>1. Total(refunds, Members(page)) \in Nat
    <3>1. \A u \in Members(page) : refunds[u] \in Nat
      BY <1>5, <1>6
    <3> QED
      BY <1>6, <3>1, TotalType
  <2> QED
    BY <1>6, <1>9, <1>10, <1>11, <2>1, SMTT(30)
<1>14. held' + paid = rest
  BY <1>2, <1>10, <1>11
<1> QED
  BY <1>1, <1>2, <1>3, <1>4, <1>8, <1>9, <1>12, <1>13, <1>14

-----------------------------------------------------------------------------
(* The invariant of the closure. *)

ClosureInv == ClosureTypeOK /\ SupplyIsHeld

\* What a refund burns leaves the supply that is left.
LEMMA RefundKeeps ==
  ASSUME ClosureInv, Refund
  PROVE  ClosureInv'
<1>1. MaInv /\ held \in Nat /\ wallets \in [Holders -> Nat]
  BY DEF ClosureInv, ClosureTypeOK, MaInv, AllowanceType
<1>2. PICK page : page = AllAccounts(PageLimit)
  OBVIOUS
<1>3. /\ IsPage(page) /\ LeftIsFair(page, Len(page))
      /\ maTokens' = [u \in Holders |-> IF u \in Members(page) THEN 0 ELSE maTokens[u]]
      /\ maSupply' = Remaining(page)[Len(page)].supply
      /\ held' = held - CostOfPage(page) /\ CostOfPage(page) \in Nat /\ CostOfPage(page) <= held
      /\ wallets' = [u \in Holders |-> IF u \in Members(page) THEN wallets[u] + RefundOf(page, u)
                                       ELSE wallets[u]]
  BY <1>1, <1>2, RefundedPage
<1>4. /\ Members(page) = FirstOf(page, Len(page))
      /\ \A u \in Members(page) : RefundOf(page, u) \in Nat
  BY <1>1, <1>3, RefundsAddUp
<1>5. maTokens \in [Holders -> Nat]
  BY <1>1 DEF MaInv
<1>6. /\ maTokens' \in [Holders -> Nat] /\ held' \in Nat
      /\ wallets' \in [Holders -> Nat]
  BY <1>1, <1>3, <1>4, <1>5
<1>7. maSupply' \in Nat /\ maSupply' = Total(maTokens, Holders \ Members(page))
  BY <1>3, <1>4 DEF LeftIsFair
<1>8. Total(maTokens', Holders) = Total(maTokens, Holders \ Members(page))
  <2>1. PICK f, g : f = maTokens /\ g = maTokens'
    OBVIOUS
  <2>2. /\ \A u \in Holders \cap Members(page) : g[u] = 0
        /\ \A u \in Holders \ Members(page) : g[u] = f[u]
    BY <1>3, <2>1
  <2>3. Total(g, Holders) = Total(f, Holders \ Members(page))
    BY <2>2, TotalOfOthers
  <2> QED
    BY <2>1, <2>3
<1>9. UNCHANGED <<maListed, maAllowances, closed, indebted>>
  BY DEF Refund
<1> QED
  BY <1>6, <1>7, <1>8, <1>9 DEF ClosureInv, ClosureTypeOK, SupplyIsHeld

\* What is held and what is in the wallets stay amounts.
LEMMA WalletsType ==
  ASSUME wallets \in [Holders -> Nat], held \in Nat, NEW u \in Holders, NEW amount \in Nat
  PROVE  /\ held + amount \in Nat /\ Credit(wallets, u, amount) \in [Holders -> Nat]
         /\ amount <= wallets[u] => Debit(wallets, u, amount) \in [Holders -> Nat]
         /\ AssetCost(amount) <= held => held - AssetCost(amount) \in Nat
  BY CostOfAsset DEF Credit, Debit

LEMMA ClosureStep ==
  ASSUME ClosureInv, [ClosureNext]_closureVars
  PROVE  ClosureInv'
<1>1. /\ MaInv /\ held \in Nat /\ wallets \in [Holders -> Nat]
      /\ closed \in BOOLEAN /\ indebted \in BOOLEAN
  BY DEF ClosureInv, ClosureTypeOK, MaInv, AllowanceType
<1>2. SUFFICES /\ MaInv' /\ held' \in Nat /\ wallets' \in [Holders -> Nat]
               /\ closed' \in BOOLEAN /\ indebted' \in BOOLEAN
  BY DEF ClosureInv, ClosureTypeOK, MaInv, AllowanceType
<1>3. UNCHANGED maVars => MaInv'
  BY <1>1 DEF maVars, MaInv, SupplyIsHeld
<1>4. CASE UNCHANGED closureVars
  BY <1>1, <1>3, <1>4 DEF closureVars
<1>5. ASSUME NEW u \in Holders, NEW amount \in Sums, NEW shares \in Sums, Deposit(u, amount, shares)
      PROVE  /\ MaInv' /\ held' \in Nat /\ wallets' \in [Holders -> Nat]
             /\ closed' \in BOOLEAN /\ indebted' \in BOOLEAN
  BY <1>1, <1>5, ClosureAssumptions, MintKeeps, WalletsType DEF Deposit
<1>6. ASSUME NEW u \in Holders, NEW amount \in Sums, NEW shares \in Sums, Withdraw(u, amount, shares)
      PROVE  /\ MaInv' /\ held' \in Nat /\ wallets' \in [Holders -> Nat]
             /\ closed' \in BOOLEAN /\ indebted' \in BOOLEAN
  BY <1>1, <1>6, ClosureAssumptions, BurnKeeps, WalletsType DEF Withdraw
<1>7. ASSUME NEW u \in Holders, NEW amount \in Sums, Borrow(u, amount)
      PROVE  /\ MaInv' /\ held' \in Nat /\ wallets' \in [Holders -> Nat]
             /\ closed' \in BOOLEAN /\ indebted' \in BOOLEAN
  BY <1>1, <1>3, <1>7, ClosureAssumptions, WalletsType DEF Borrow
<1>8. ASSUME NEW u \in Holders, NEW amount \in Sums, Repay(u, amount)
      PROVE  /\ MaInv' /\ held' \in Nat /\ wallets' \in [Holders -> Nat]
             /\ closed' \in BOOLEAN /\ indebted' \in BOOLEAN
  BY <1>1, <1>3, <1>8, ClosureAssumptions, WalletsType DEF Repay
<1>9. ASSUME NEW u \in Holders, NEW amount \in Sums, NEW recipient \in Holders,
             Transfer(u, recipient, amount)
      PROVE  /\ MaInv' /\ held' \in Nat /\ wallets' \in [Holders -> Nat]
             /\ closed' \in BOOLEAN /\ indebted' \in BOOLEAN
  BY <1>1, <1>9, ClosureAssumptions, TransferKeeps DEF Transfer
<1>10. ASSUME NEW u \in Holders, NEW amount \in Sums, NEW contract \in Holders,
              NEW recipient \in Holders, Send(u, contract, recipient, amount)
       PROVE  /\ MaInv' /\ held' \in Nat /\ wallets' \in [Holders -> Nat]
              /\ closed' \in BOOLEAN /\ indebted' \in BOOLEAN
  BY <1>1, <1>10, ClosureAssumptions, SendKeeps DEF Send
<1>11. ASSUME NEW p \in MaApprovals, NEW amount \in Sums, NEW recipient \in Holders,
              TransferFrom(p, recipient, amount)
       PROVE  /\ MaInv' /\ held' \in Nat /\ wallets' \in [Holders -> Nat]
              /\ closed' \in BOOLEAN /\ indebted' \in BOOLEAN
  BY <1>1, <1>11, ClosureAssumptions, TransferFromKeeps DEF TransferFrom
<1>12. ASSUME NEW p \in MaApprovals, NEW amount \in Sums, Approve(p, amount)
       PROVE  /\ MaInv' /\ held' \in Nat /\ wallets' \in [Holders -> Nat]
              /\ closed' \in BOOLEAN /\ indebted' \in BOOLEAN
  BY <1>1, <1>12, ClosureAssumptions, ApproveKeeps DEF Approve
<1>13. CASE Migrate
  BY <1>1, <1>3, <1>13 DEF Migrate
<1>14. CASE Refund
  BY <1>14, RefundKeeps DEF ClosureInv, ClosureTypeOK, MaInv, AllowanceType
<1> QED
  BY <1>4, <1>5, <1>6, <1>7, <1>8, <1>9, <1>10, <1>11, <1>12, <1>13, <1>14
     DEF ClosureNext, RedBankStep, SpenderStep

LEMMA ClosureInitially == ClosureInit => ClosureInv
<1> SUFFICES ASSUME ClosureInit
             PROVE  ClosureInv
  OBVIOUS
<1>1. Total(maTokens, Holders) = 0
  <2>1. \A u \in Holders : maTokens[u] = 0
    BY DEF ClosureInit, MaInit
  <2> QED
    BY <2>1, TotalZero
<1> QED
  BY <1>1, ClosureAssumptions
     DEF ClosureInit, MaInit, ClosureInv, ClosureTypeOK, SupplyIsHeld, NoAllowance

\* The invariant of the closure: what is recorded has its type, and the supply of
\* the maTokens is what their holders have.
THEOREM ClosureCorrect == ClosureSpec => []ClosureInv
<1>1. ClosureInv /\ [ClosureNext]_closureVars => ClosureInv'
  BY ClosureStep
<1> QED
  BY <1>1, ClosureInitially, PTL DEF ClosureSpec

\* Deposits, withdrawals, transfers, spenders and refunds keep the supply what the
\* holders have, for any number of them.
THEOREM SupplyStaysHeld == ClosureSpec => []SupplyIsHeld
<1>1. ClosureInv => SupplyIsHeld
  BY DEF ClosureInv
<1> QED
  BY <1>1, ClosureCorrect, PTL

\* Once the red bank is closed only refunds change what there is.
LEMMA OnlyRefunds ==
  ASSUME [ClosureNext]_closureVars, closed
  PROVE  Refund \/ (maSupply' = maSupply /\ held' = held)
<1>1. CASE UNCHANGED closureVars
  BY <1>1 DEF closureVars, maVars
<1>2. CASE \E u \in Holders : RedBankStep(u)
  BY <1>2 DEF RedBankStep, Deposit, Withdraw, Borrow, Repay, Transfer, Send
<1>3. CASE \E p \in MaApprovals : SpenderStep(p)
  BY <1>3 DEF SpenderStep, Approve, TransferFrom, MaApprove
<1>4. CASE Migrate \/ Refund
  BY <1>4 DEF Migrate
<1> QED
  BY <1>1, <1>2, <1>3, <1>4 DEF ClosureNext

LEMMA FairStep ==
  ASSUME ClosureInv, [ClosureNext]_closureVars, closed, maSupply' < maSupply
  PROVE  /\ \A u \in Holders :
              maTokens'[u] < maTokens[u] =>
                wallets'[u] - wallets[u] >= (held * maTokens[u]) \div maSupply
         /\ maSupply' = 0 => held' = 0
<1>1. /\ MaInv /\ held \in Nat /\ wallets \in [Holders -> Nat]
      /\ maTokens \in [Holders -> Nat] /\ maSupply \in Nat
  BY DEF ClosureInv, ClosureTypeOK, MaInv, AllowanceType
<1>2. Refund
  BY <1>1, OnlyRefunds
<1>3. PICK page : page = AllAccounts(PageLimit)
  OBVIOUS
<1>4. /\ IsPage(page) /\ LeftIsFair(page, Len(page))
      /\ maTokens' = [u \in Holders |-> IF u \in Members(page) THEN 0 ELSE maTokens[u]]
      /\ maSupply' = Remaining(page)[Len(page)].supply
      /\ held' + TaxesPaid = Remaining(page)[Len(page)].amount /\ TaxesPaid \in Nat
      /\ held' \in Nat
      /\ wallets' = [u \in Holders |-> IF u \in Members(page) THEN wallets[u] + RefundOf(page, u)
                                       ELSE wallets[u]]
  <2>1. held' = held - CostOfPage(page) /\ CostOfPage(page) \in Nat /\ CostOfPage(page) <= held
    BY <1>1, <1>2, <1>3, RefundedPage
  <2>2. held' \in Nat
    BY <1>1, <2>1
  <2> QED
    BY <1>1, <1>2, <1>3, <2>2, RefundedPage
<1>5. Members(page) = FirstOf(page, Len(page))
  BY <1>1, <1>4, RefundsAddUp
<1>6. ASSUME NEW u \in Holders, maTokens'[u] < maTokens[u]
      PROVE  wallets'[u] - wallets[u] >= (held * maTokens[u]) \div maSupply
  <2>1. u \in Members(page)
    BY <1>1, <1>4, <1>6
  <2>2. PICK i \in 1 .. Len(page) : page[i] = u
    BY <1>5, <2>1 DEF FirstOf
  <2>3. RefundOf(page, u) \in Nat /\ (held * maTokens[u]) \div maSupply <= RefundOf(page, u)
    BY <1>1, <1>4, <2>2, RefundOfAccount
  <2>4. wallets'[u] - wallets[u] = RefundOf(page, u)
    BY <1>1, <1>4, <2>1, <2>3
  <2> QED
    BY <2>3, <2>4
<1>7. maSupply' = 0 => held' = 0
  <2>1. Len(page) # 0
    <3>1. SUFFICES ASSUME Len(page) = 0
                   PROVE  maSupply' = maSupply
      BY <1>1
    <3>2. Remaining(page)[0] = [amount |-> held, supply |-> maSupply]
      BY <3>1, RemainingIs, RemainingAt
    <3> QED
      BY <1>4, <3>1, <3>2
  <2>2. SUFFICES ASSUME maSupply' = 0
                 PROVE  held' = 0
    OBVIOUS
  <2>3. Remaining(page)[Len(page)].amount = 0
    BY <1>4, <2>1, <2>2 DEF LeftIsFair
  <2>4. PICK paid, rest : paid = TaxesPaid /\ rest = held'
    OBVIOUS
  <2>5. paid \in Nat /\ rest \in Nat /\ rest + paid = 0
    BY <1>4, <2>3, <2>4
  <2>6. rest = 0
    BY <2>5
  <2> QED
    BY <2>4, <2>6
<1> QED
  BY <1>6, <1>7

\* A refund gives everybody on the page at least its share of what is there,
\* rounded down, and the last one leaves nothing behind: for any number of holders,
\* any page, any maTokens and any tax.
THEOREM RefundsStayFair == ClosureSpec => RefundsAreFair
<1>1. ClosureInv /\ [ClosureNext]_closureVars =>
        [ closed /\ maSupply' < maSupply =>
            /\ \A u \in Holders :
                 maTokens'[u] < maTokens[u] =>
                   wallets'[u] - wallets[u] >= (held * maTokens[u]) \div maSupply
            /\ maSupply' = 0 => held' = 0 ]_closureVars
  BY FairStep
<1> QED
  BY <1>1, ClosureCorrect, PTL DEF ClosureSpec, RefundsAreFair

LEMMA WaitingStep ==
  ASSUME ClosureInv, [ClosureNext]_closureVars, closed, maSupply' > 0
  PROVE  held * maSupply' <= (held' + TaxesPaid) * maSupply
<1>1. MaInv /\ held \in Nat /\ wallets \in [Holders -> Nat] /\ maSupply \in Nat
  BY DEF ClosureInv, ClosureTypeOK, MaInv, AllowanceType
<1>2. CASE Refund
  <2>1. PICK page : page = AllAccounts(PageLimit)
    OBVIOUS
  <2>2. /\ LeftIsFair(page, Len(page))
        /\ maSupply' = Remaining(page)[Len(page)].supply
        /\ held' + TaxesPaid = Remaining(page)[Len(page)].amount
    BY <1>1, <1>2, <2>1, RefundedPage
  <2> QED
    BY <2>2 DEF LeftIsFair
<1>3. CASE maSupply' = maSupply /\ held' = held
  <2>1. TaxesPaid \in Nat
    <3>1. ClosureInv'
      BY ClosureStep
    <3>2. wallets' \in [Holders -> Nat]
      BY <3>1 DEF ClosureInv, ClosureTypeOK
    <3> QED
      BY <1>1, <3>2, TaxesType
  <2>2. PICK paid : paid = TaxesPaid
    OBVIOUS
  <2>3. held * maSupply <= (held + paid) * maSupply
    BY <1>1, <2>1, <2>2, ProductMono
  <2> QED
    BY <1>3, <2>2, <2>3
<1> QED
  BY <1>2, <1>3, OnlyRefunds

\* Who waits for a later page is no worse off for the pages before it, but for the
\* taxes on what these were paid: for any rate and cap.
THEOREM WaitingStaysSafe == ClosureSpec => WaitingIsSafe
<1>1. ClosureInv /\ [ClosureNext]_closureVars =>
        [ closed /\ maSupply' > 0 =>
            held * maSupply' <= (held' + TaxesPaid) * maSupply ]_closureVars
  BY WaitingStep
<1> QED
  BY <1>1, ClosureCorrect, PTL DEF ClosureSpec, WaitingIsSafe

-----------------------------------------------------------------------------
(* What is distributed. *)

\* What is left of a coin net of the tax, and the tax that is charged on it, are
\* no more than there was: of a tax below the cap because the deduction divides
\* by one plus the rate, of one above it because both stop at the cap.
LEMMA NetOfTax ==
  ASSUME NEW p \in Nat
  PROVE  /\ DeductTax(p) \in Nat /\ Charged(DeductTax(p)) \in Nat
         /\ DeductTax(p) + Charged(DeductTax(p)) <= p
<1>1. PICK W, X : W = One + TaxRate /\ X = Div(p, W)
  OBVIOUS
<1>2. One \in Nat \ {0} /\ TaxRate \in Nat /\ TaxCap \in Nat /\ W \in Nat \ {0}
  BY <1>1, OneAssumption, TaxAssumptions
<1>3. p * One \in Nat /\ X = (p * One) \div W
  BY <1>1, <1>2, ProductType DEF Div
<1>4. X \in Nat /\ X * W <= p * One
  BY <1>2, <1>3, DivFloor
<1>5. X * W = X * One + X * TaxRate
  BY <1>1, <1>2, <1>4
<1>6. X * One \in Nat /\ X * TaxRate \in Nat
  BY <1>2, <1>4, ProductType
<1>7. X <= p
  BY <1>2, <1>3, <1>4, <1>5, <1>6, CancelFactor
<1>8. Mul(X, TaxRate) <= p - X
  <2>1. X * TaxRate <= p * One - X * One
    BY <1>3, <1>4, <1>5, <1>6
  <2>2. (p - X) * One = p * One - X * One
    BY <1>2, <1>4
  <2>3. p - X \in Nat
    BY <1>4, <1>7
  <2> QED
    BY <1>2, <1>6, <2>1, <2>2, <2>3, DivUpper DEF Mul
<1>9. ComputeTax(p) = SmallerOf(p - X, TaxCap)
  BY <1>1 DEF ComputeTax
<1>10. CASE p - X <= TaxCap
  <2>1. DeductTax(p) = X
    BY <1>4, <1>9, <1>10 DEF DeductTax, SmallerOf
  <2>2. Mul(X, TaxRate) \in Nat
    BY <1>2, <1>4, MulType
  <2>3. Charged(X) \in Nat /\ Charged(X) <= Mul(X, TaxRate)
    BY <1>2, <2>2 DEF Charged, SmallerOf
  <2> QED
    BY <1>4, <1>8, <2>1, <2>2, <2>3
<1>11. CASE ~ (p - X <= TaxCap)
  <2>1. PICK d : d = p - TaxCap
    OBVIOUS
  <2>2. DeductTax(p) = d
    BY <1>9, <1>11, <2>1 DEF DeductTax, SmallerOf
  <2>3. d \in Nat
    BY <1>2, <1>4, <1>7, <1>11, <2>1
  <2>4. Mul(d, TaxRate) \in Nat
    BY <1>2, <2>3, MulType
  <2>5. Charged(d) \in Nat /\ Charged(d) <= TaxCap
    BY <1>2, <2>4 DEF Charged, SmallerOf
  <2> QED
    BY <1>2, <2>1, <2>2, <2>3, <2>5
<1> QED
  BY <1>10, <1>11

\* The shares of the two funds leave something, or nothing, for staking.
LEMMA SharesFit ==
  ASSUME NEW a \in Nat, NEW f \in Nat, NEW t \in Nat, f + t <= One
  PROVE  FeeShare(a, f) \in Nat /\ FeeShare(a, t) \in Nat /\ FeeShare(a, f) + FeeShare(a, t) <= a
<1>1. PICK x, y : x = (a * f) \div One /\ y = (a * t) \div One
  OBVIOUS
<1>2. One \in Nat \ {0} /\ a * f \in Nat /\ a * t \in Nat
  BY OneAssumption, ProductType
<1>3. x \in Nat /\ y \in Nat /\ x * One <= a * f /\ y * One <= a * t
  BY <1>1, <1>2, DivFloor
<1>4. (x + y) * One = x * One + y * One /\ a * (f + t) = a * f + a * t
  BY <1>2, <1>3
<1>5. a * (f + t) <= a * One
  BY <1>2, ProductMono
<1>6. (x + y) * One <= a * One
  <2>1. x * One \in Nat /\ y * One \in Nat /\ a * One \in Nat
    BY <1>2, <1>3, ProductType
  <2> QED
    BY <1>2, <1>3, <1>4, <1>5, <2>1
<1>7. x + y <= a
  BY <1>2, <1>3, <1>6, CancelFactor
<1> QED
  BY <1>1, <1>3, <1>7 DEF FeeShare, Mul

\* The configuration of the collector is one Config::validate accepts.
FeesAreValid ==
  /\ collectorConfig = [owner |-> collectorConfig.owner, fees |-> collectorConfig.fees]
  /\ collectorConfig.fees \in [safety_fund : Nat, treasury : Nat]
  /\ ValidConfig(collectorConfig.fees)

\* The parts of an amount are two shares and the rest, and add up to the amount.
LEMMA PartsAddUp ==
  ASSUME FeesAreValid, NEW amount \in Nat
  PROVE  /\ IsFiniteSet(Recipients)
         /\ \A c \in Recipients : Parts(amount)[c] \in Nat
         /\ Total(Parts(amount), Recipients) = amount
         /\ Parts(amount)["safety_fund"] = FeeShare(amount, collectorConfig.fees.safety_fund)
         /\ Parts(amount)["treasury"] = FeeShare(amount, collectorConfig.fees.treasury)
         /\ Parts(amount)["staking"] =
              amount - (Parts(amount)["safety_fund"] + Parts(amount)["treasury"])
<1>1. PICK parts, fund, treasury :
        /\ parts = Parts(amount)
        /\ fund = FeeShare(amount, collectorConfig.fees.safety_fund)
        /\ treasury = FeeShare(amount, collectorConfig.fees.treasury)
  OBVIOUS
<1>2. fund \in Nat /\ treasury \in Nat /\ fund + treasury <= amount
  BY <1>1, SharesFit DEF FeesAreValid, ValidConfig
<1>3. /\ parts["safety_fund"] = fund /\ parts["treasury"] = treasury
      /\ parts["staking"] = amount - (fund + treasury)
  BY <1>1 DEF Parts, Recipients
<1>4. \A c \in Recipients : parts[c] \in Nat
  BY <1>2, <1>3 DEF Recipients
<1>5. IsFiniteSet(Recipients)
  <2>1. IsFiniteSet({"safety_fund"}) /\ IsFiniteSet({"treasury"}) /\ IsFiniteSet({"staking"})
    BY FS_Singleton
  <2>2. IsFiniteSet({"safety_fund"} \cup {"treasury"})
    BY <2>1, FS_Union
  <2>3. IsFiniteSet(({"safety_fund"} \cup {"treasury"}) \cup {"staking"})
    BY <2>1, <2>2, FS_Union
  <2>4. Recipients = ({"safety_fund"} \cup {"treasury"}) \cup {"staking"}
    BY DEF Recipients
  <2> QED
    BY <2>3, <2>4
<1>6. Total(parts, Recipients) = amount
  <2>1. PICK rest, last : rest = Recipients \ {"safety_fund"} /\ last = rest \ {"treasury"}
    OBVIOUS
  <2>2. /\ IsFiniteSet(rest) /\ IsFiniteSet(last) /\ rest \subseteq Recipients
        /\ last = {"staking"} /\ last \subseteq Recipients /\ last \ {"staking"} = {}
    BY <1>5, <2>1, FS_RemoveElement DEF Recipients
  <2>3. Total(parts, Recipients) = Total(parts, rest) + fund
    BY <1>3, <1>4, <1>5, <2>1, TotalSplit DEF Recipients
  <2>4. Total(parts, rest) = Total(parts, last) + treasury
    <3>1. "treasury" \in rest
      BY <2>1 DEF Recipients
    <3> QED
      BY <1>3, <1>4, <2>1, <2>2, <3>1, TotalSplit
  <2>5. Total(parts, last) = Total(parts, {}) + (amount - (fund + treasury))
    <3>1. "staking" \in last
      BY <2>2
    <3> QED
      BY <1>3, <1>4, <2>2, <3>1, TotalSplit
  <2>6. Total(parts, {}) = 0
    BY TotalZero
  <2> QED
    BY <1>2, <2>3, <2>4, <2>5, <2>6
<1> QED
  BY <1>1, <1>3, <1>4, <1>5, <1>6

\* A part costs no more than itself, the tax on its coin included.
LEMMA CostWithin ==
  ASSUME NEW asset, NEW part \in Nat
  PROVE  /\ Sent(asset, part) \in Nat
         /\ Cost(asset, Sent(asset, part)) \in Nat /\ Cost(asset, Sent(asset, part)) <= part
         /\ asset \notin Natives => /\ Sent(asset, part) = part
                                    /\ Cost(asset, Sent(asset, part)) = part
<1>1. CASE asset \in Natives
  <2>1. /\ Sent(asset, part) = DeductTax(part)
        /\ Cost(asset, Sent(asset, part)) = DeductTax(part) + Charged(DeductTax(part))
    BY <1>1 DEF Cost, CostOf, Sent, IsNative
  <2> QED
    BY <1>1, <2>1, NetOfTax
<1>2. CASE asset \notin Natives
  BY <1>2 DEF Cost, CostOf, Sent, IsNative
<1> QED
  BY <1>1, <1>2

\* The parts of an amount, net of the taxes, with the taxes, cost no more than
\* the amount; and all of it where there is no tax.
LEMMA DistributionWithin ==
  ASSUME FeesAreValid, NEW asset, NEW amount \in Nat
  PROVE  /\ DistributionCost(asset, amount) \in Nat
         /\ DistributionCost(asset, amount) <= amount
         /\ asset \notin Natives => DistributionCost(asset, amount) = amount
<1>1. PICK parts, costs :
        /\ parts = Parts(amount)
        /\ costs = [c \in Recipients |-> Cost(asset, Sent(asset, Parts(amount)[c]))]
  OBVIOUS
<1>2. /\ IsFiniteSet(Recipients) /\ \A c \in Recipients : parts[c] \in Nat
      /\ Total(parts, Recipients) = amount
  BY <1>1, PartsAddUp
<1>3. \A c \in Recipients : /\ costs[c] \in Nat /\ costs[c] <= parts[c]
                            /\ asset \notin Natives => costs[c] = parts[c]
  BY <1>1, <1>2, CostWithin
<1>4. Total(costs, Recipients) \in Nat /\ Total(costs, Recipients) <= Total(parts, Recipients)
  BY <1>2, <1>3, TotalMonotone, TotalType
<1>5. asset \notin Natives => Total(costs, Recipients) = Total(parts, Recipients)
  BY <1>3, TotalAgree
<1> QED
  BY <1>1, <1>2, <1>4, <1>5 DEF DistributionCost

\* A new collector has valid shares, and so has one whose owner or whose shares
\* were changed.
LEMMA ConfigsAreValid ==
  /\ \A owner : collectorConfig' \in InitialConfigs(owner) => FeesAreValid'
  /\ FeesAreValid /\ UNCHANGED collectorConfig => FeesAreValid'
  /\ \A owner : FeesAreValid /\ collectorConfig' = [collectorConfig EXCEPT !.owner = owner]
                  => FeesAreValid'
  /\ \A fees \in FeeConfigs :
       FeesAreValid /\ ValidConfig(fees)
         /\ collectorConfig' = [collectorConfig EXCEPT !.fees = fees] => FeesAreValid'
<1>1. ASSUME NEW owner, collectorConfig' \in InitialConfigs(owner)
      PROVE  FeesAreValid'
  <2>1. PICK fees \in FeeConfigs : ValidConfig(fees)
                                   /\ collectorConfig' = [owner |-> owner, fees |-> fees]
    BY <1>1 DEF InitialConfigs
  <2>2. fees \in [safety_fund : Nat, treasury : Nat]
    BY CollectorAssumptions
  <2> QED
    BY <2>1, <2>2 DEF FeesAreValid, ValidConfig
<1>2. ASSUME FeesAreValid, UNCHANGED collectorConfig
      PROVE  FeesAreValid'
  BY <1>2 DEF FeesAreValid, ValidConfig
<1>3. ASSUME NEW owner, FeesAreValid, collectorConfig' = [collectorConfig EXCEPT !.owner = owner]
      PROVE  FeesAreValid'
  <2>1. /\ collectorConfig'.fees = collectorConfig.fees
        /\ collectorConfig' = [owner |-> owner, fees |-> collectorConfig.fees]
    BY <1>3 DEF FeesAreValid
  <2> QED
    BY <1>3, <2>1 DEF FeesAreValid, ValidConfig
<1>4. ASSUME NEW fees \in FeeConfigs, FeesAreValid, ValidConfig(fees),
             collectorConfig' = [collectorConfig EXCEPT !.fees = fees]
      PROVE  FeesAreValid'
  <2>1. /\ collectorConfig'.fees = fees
        /\ collectorConfig' = [owner |-> collectorConfig.owner, fees |-> fees]
    BY <1>4 DEF FeesAreValid
  <2>2. fees \in [safety_fund : Nat, treasury : Nat]
    BY CollectorAssumptions
  <2> QED
    BY <1>4, <2>1, <2>2 DEF FeesAreValid, ValidConfig
<1> QED
  BY <1>1, <1>2, <1>3, <1>4

LEMMA TransactionKeepsFees ==
  ASSUME FeesAreValid, NEW t, Transact(t)
  PROVE  FeesAreValid'
<1>1. ASSUME NEW c, Instantiate(c)
      PROVE  FeesAreValid'
  BY <1>1, ConfigsAreValid DEF Instantiate
<1>2. ASSUME NEW c, UpdateOwner(c)
      PROVE  FeesAreValid'
  BY <1>2, ConfigsAreValid DEF UpdateOwner
<1>3. ASSUME \/ SetMinter \/ SetAddresses \/ EnableAsset(t.of) \/ SetPrice(t.of)
             \/ InitAsset(t.of) \/ SetLimit(t.of)
      PROVE  FeesAreValid'
  BY <1>3, ConfigsAreValid
     DEF SetMinter, SetAddresses, EnableAsset, SetPrice, InitAsset, SetLimit, collectorVars
<1> QED
  BY <1>1, <1>2, <1>3 DEF Transact

LEMMA DeploymentKeepsFees ==
  ASSUME FeesAreValid, [Next]_vars
  PROVE  FeesAreValid'
<1>1. CASE UNCHANGED vars
  BY <1>1, ConfigsAreValid DEF vars, collectorVars
<1>2. CASE Perform
  BY <1>2, TransactionKeepsFees DEF Perform
<1>3. CASE Fail
  BY <1>3, TransactionKeepsFees, ConfigsAreValid DEF Fail, collectorVars
<1>4. CASE Rerun
  BY <1>4, ConfigsAreValid DEF Rerun
<1>5. CASE RevenueStep
  BY <1>5, ConfigsAreValid
     DEF RevenueStep, WithdrawFromRedBank, DistributeProtocolRewards, SwapAssetToUusd
<1>6. CASE CouncilStep
  <2>1. CASE UpdateCollectorConfig("council")
    BY <2>1, ConfigsAreValid DEF UpdateCollectorConfig
  <2>2. ASSUME NEW asset \in Assets, NEW amount,
               UpdateAssetConfig("council", asset) \/ CollectorExecute("council", asset, amount)
        PROVE  FeesAreValid'
    BY <2>2, ConfigsAreValid DEF UpdateAssetConfig, CollectorExecute, Pay
  <2>3. CASE UNCHANGED collectorVars
    BY <2>3, ConfigsAreValid DEF collectorVars
  <2>4. ASSUME NEW sender, SafetyFundStep(sender) \/ TreasuryStep(sender)
        PROVE  FeesAreValid'
    BY <2>4, ConfigsAreValid
       DEF SafetyFundStep, SafetyFundExecute, TreasuryStep, TreasuryExecute, TreasuryConfig,
           NewOwner, Pay, collectorVars
  <2>5. ASSUME NEW owner, IncentivesConfig("council", owner)
        PROVE  FeesAreValid'
    BY <2>5, ConfigsAreValid DEF IncentivesConfig, NewOwner, collectorVars
  <2> QED
    BY <1>6, <2>1, <2>2, <2>3, <2>4, <2>5 DEF CouncilStep
<1> QED
  BY <1>1, <1>2, <1>3, <1>4, <1>5, <1>6 DEF Next

LEMMA FeesInitially == Init => FeesAreValid
<1> SUFFICES ASSUME Init
             PROVE  FeesAreValid
  OBVIOUS
<1>1. PICK fees \in FeeConfigs : ValidConfig(fees)
                                 /\ collectorConfig = [owner |-> NoAddress, fees |-> fees]
  BY DEF Init, InitialConfigs
<1>2. fees \in [safety_fund : Nat, treasury : Nat]
  BY CollectorAssumptions
<1> QED
  BY <1>1, <1>2 DEF FeesAreValid, ValidConfig

\* Whatever scripts, owners and proposals do, the collector can distribute all of
\* a coin it has: for any rate and cap of the tax, any shares and any amount.
THEOREM DistributionsFit == Spec => []DistributionFits
<1>1. FeesAreValid /\ [Next]_vars => FeesAreValid'
  BY DeploymentKeepsFees
<1>2. FeesAreValid => DistributionFits
  <2>1. \A amount \in 1 .. MaxFunds : amount \in Nat
    BY DeploymentAssumptions
  <2> QED
    BY <2>1, DistributionWithin DEF DistributionFits
<1> QED
  BY <1>1, <1>2, FeesInitially, PTL DEF Spec

-----------------------------------------------------------------------------
(* What the deployment script makes, and that it hands all of it over. *)

\* What the transactions are made of.
Kinds == {"deploy", "handover", "set_minter", "enable", "set_addresses", "set_asset",
          "init_asset", "set_limit"}
Targets == Contracts \cup {"address_provider"} \cup Assets \cup STRING
Steps == [tx : Kinds, of : Targets]

Opening == ContractsPart \o CollectorPart \o RedBankPart \o AddressesPart

\* A list with m elements of S.
IsList(s, m, S) == s \in Seq(S) /\ Len(s) = m

\* First the one list, then the other.
IsJoin(r, s, m, t, n) ==
  /\ \A i \in 1 .. m : r[i] = s[i]
  /\ \A i \in 1 .. n : r[m + i] = t[i]

LEMMA Joined ==
  ASSUME NEW S, NEW s, NEW m, IsList(s, m, S), NEW t, NEW n, IsList(t, n, S), NEW r, r = s \o t
  PROVE  IsList(r, m + n, S) /\ IsJoin(r, s, m, t, n)
<1>0. s \in Seq(S) /\ t \in Seq(S) /\ Len(s) = m /\ Len(t) = n
  BY DEF IsList
<1>1. m \in Nat /\ n \in Nat
  BY <1>0, LenProperties
<1>2. /\ s \o t \in Seq(S) /\ Len(s \o t) = Len(s) + Len(t)
      /\ \A i \in 1 .. Len(s) + Len(t) : (s \o t)[i] = IF i <= Len(s) THEN s[i] ELSE t[i - Len(s)]
  BY <1>0, ConcatProperties, Zenon
<1>3. /\ r \in Seq(S) /\ Len(r) = m + n
      /\ \A i \in 1 .. m + n : r[i] = IF i <= m THEN s[i] ELSE t[i - m]
  BY <1>0, <1>2, Zenon
<1>4. ASSUME NEW i \in 1 .. m
      PROVE  r[i] = s[i]
  BY ONLY <1>1, <1>3, <1>4
<1>5. ASSUME NEW i \in 1 .. n
      PROVE  r[m + i] = t[i]
  <2>1. PICK j : j = m + i
    OBVIOUS
  <2>2. j \in 1 .. m + n /\ ~ (j <= m) /\ j - m = i
    BY ONLY <1>1, <1>5, <2>1
  <2>3. r[j] = t[j - m]
    BY ONLY <1>3, <2>2
  <2> QED
    BY ONLY <2>1, <2>2, <2>3
<1> QED
  BY <1>3, <1>4, <1>5, Zenon DEF IsList, IsJoin

\* A list of one.
LEMMA Single ==
  ASSUME NEW S, NEW e \in S
  PROVE  <<e>> \in Seq(S) /\ Len(<<e>>) = 1 /\ <<e>>[1] = e
  OBVIOUS

\* The transactions that do not depend on the configuration of the script.
LEMMA OpeningLayout ==
  /\ IsList(Opening, 15, Steps)
  /\ Opening[1] = Deploy("address_provider") /\ Opening[2] = Deploy("council")
  /\ Opening[3].tx = "set_minter"
  /\ Opening[4] = Deploy("vesting") /\ Opening[5] = Deploy("staking")
  /\ Opening[6] = Deploy("safety_fund") /\ Opening[7] = Deploy("treasury")
  /\ Opening[8] = Deploy("incentives") /\ Opening[9] = Deploy("xmars_token")
  /\ Opening[10] = Deploy("protocol_rewards_collector")
  /\ Opening[11].tx = "enable" /\ Opening[12] = Handover("protocol_rewards_collector")
  /\ Opening[13] = Deploy("red_bank") /\ Opening[14] = Deploy("oracle")
  /\ Opening[15].tx = "set_addresses"
<1> DEFINE A == ContractsPart
           B == CollectorPart
           C == RedBankPart
           D == AddressesPart
<1>1. A \in Seq(Steps) /\ Len(A) = 9
  BY DEF ContractsPart, Steps, Deploy, Kinds, Targets, Contracts
<1>2. B \in Seq(Steps) /\ Len(B) = 3
  BY CollectorAssumptions DEF CollectorPart, Steps, Deploy, Handover, Kinds, Targets, Contracts
<1>3. C \in Seq(Steps) /\ Len(C) = 2
  BY DEF RedBankPart, Steps, Deploy, Kinds, Targets, Contracts
<1>4. D \in Seq(Steps) /\ Len(D) = 1
  <2>1. [tx |-> "set_addresses", of |-> "address_provider"] \in Steps
    BY DEF Steps, Kinds, Targets, Contracts
  <2> QED
    BY <2>1, Single, Zenon DEF AddressesPart
<1>5. /\ A[1] = Deploy("address_provider") /\ A[2] = Deploy("council")
      /\ A[3].tx = "set_minter"
      /\ A[4] = Deploy("vesting") /\ A[5] = Deploy("staking")
      /\ A[6] = Deploy("safety_fund") /\ A[7] = Deploy("treasury")
      /\ A[8] = Deploy("incentives") /\ A[9] = Deploy("xmars_token")
  BY DEF ContractsPart
<1>6. /\ B[1] = Deploy("protocol_rewards_collector")
      /\ B[2].tx = "enable" /\ B[3] = Handover("protocol_rewards_collector")
  BY DEF CollectorPart
<1>7. C[1] = Deploy("red_bank") /\ C[2] = Deploy("oracle") /\ D[1].tx = "set_addresses"
  BY DEF RedBankPart, AddressesPart
<1>8. PICK AB, ABC : /\ AB = A \o B /\ ABC = AB \o C /\ Opening = ABC \o D
  BY DEF Opening
<1> HIDE DEF A, B, C, D
<1>9. IsList(A, 9, Steps) /\ IsList(B, 3, Steps) /\ IsList(C, 2, Steps) /\ IsList(D, 1, Steps)
  BY <1>1, <1>2, <1>3, <1>4 DEF IsList
<1>10. IsList(AB, 12, Steps) /\ IsJoin(AB, A, 9, B, 3)
  <2>1. IsList(AB, 9 + 3, Steps) /\ IsJoin(AB, A, 9, B, 3)
    BY <1>8, <1>9, Joined, Zenon
  <2> QED
    BY <2>1
<1>11. IsList(ABC, 14, Steps) /\ IsJoin(ABC, AB, 12, C, 2)
  <2>1. IsList(ABC, 12 + 2, Steps) /\ IsJoin(ABC, AB, 12, C, 2)
    BY <1>8, <1>9, <1>10, Joined, Zenon
  <2> QED
    BY <2>1
<1>13. IsList(Opening, 15, Steps) /\ IsJoin(Opening, ABC, 14, D, 1)
  <2>1. IsList(Opening, 14 + 1, Steps) /\ IsJoin(Opening, ABC, 14, D, 1)
    BY <1>8, <1>9, <1>11, Joined, Zenon
  <2> QED
    BY <2>1
<1>12. /\ \A i \in 1 .. 9 : Opening[i] = A[i]
       /\ Opening[10] = B[1] /\ Opening[11] = B[2] /\ Opening[12] = B[3]
       /\ Opening[13] = C[1] /\ Opening[14] = C[2]
       /\ Opening[15] = D[1]
  BY ONLY <1>10, <1>11, <1>13 DEF IsJoin
<1> QED
  BY <1>5, <1>6, <1>7, <1>12, <1>13

\* One transaction for each element of a list.
LEMMA OnePerElement ==
  ASSUME NEW S, NEW list \in Seq(S), NEW kind \in Kinds, S \subseteq Targets
  PROVE  LET part == [i \in DOMAIN list |-> [tx |-> kind, of |-> list[i]]]
         IN  part \in Seq(Steps) /\ Len(part) = Len(list)
<1>1. Len(list) \in Nat /\ DOMAIN list = 1 .. Len(list) /\ \A i \in DOMAIN list : list[i] \in S
  BY LenProperties
<1>2. [i \in DOMAIN list |-> [tx |-> kind, of |-> list[i]]] \in [1 .. Len(list) -> Steps]
  BY <1>1 DEF Steps
<1> QED
  BY <1>1, <1>2

\* Where each transaction of the script is.
LEMMA ScriptLayout ==
  LET N == Len(InitialAssets)
      K == Len(Strategies)
  IN  /\ N \in Nat /\ K \in Nat
      /\ Len(Script) = 17 + 2 * N + K
      /\ \A i \in 1 .. 15 : Script[i] = Opening[i]
      /\ \A i \in 1 .. N : Script[15 + i] = [tx |-> "set_asset", of |-> InitialAssets[i]]
      /\ Script[16 + N] = Handover("oracle")
      /\ \A i \in 1 .. N : Script[16 + N + i] = [tx |-> "init_asset", of |-> InitialAssets[i]]
      /\ \A i \in 1 .. K : Script[16 + 2 * N + i].tx = "set_limit"
      /\ Script[17 + 2 * N + K] = Handover("red_bank")
<1> DEFINE N == Len(InitialAssets)
           K == Len(Strategies)
           P == [i \in DOMAIN InitialAssets |-> [tx |-> "set_asset", of |-> InitialAssets[i]]]
           O == << Handover("oracle") >>
           M == MarketsPart
           L == LimitsPart
           R == << Handover("red_bank") >>
<1>1. /\ N \in Nat /\ K \in Nat /\ DOMAIN InitialAssets = 1 .. N /\ DOMAIN Strategies = 1 .. K
  BY DeploymentAssumptions, LenProperties
<1>2. P \in Seq(Steps) /\ Len(P) = N /\ M \in Seq(Steps) /\ Len(M) = N
  <2>1. Assets \subseteq Targets /\ InitialAssets \in Seq(Assets)
    BY DeploymentAssumptions DEF Targets
  <2>2. "set_asset" \in Kinds /\ "init_asset" \in Kinds
    BY DEF Kinds
  <2> QED
    BY <2>1, <2>2, OnePerElement, Zenon DEF MarketsPart
<1>3. L \in Seq(Steps) /\ Len(L) = K
  <2>1. STRING \subseteq Targets /\ Strategies \in Seq(STRING) /\ "set_limit" \in Kinds
    BY DeploymentAssumptions DEF Targets, Kinds
  <2> QED
    BY <2>1, OnePerElement, Zenon DEF LimitsPart
<1>4. /\ O \in Seq(Steps) /\ Len(O) = 1 /\ O[1] = Handover("oracle")
      /\ R \in Seq(Steps) /\ Len(R) = 1 /\ R[1] = Handover("red_bank")
  <2>1. Handover("oracle") \in Steps /\ Handover("red_bank") \in Steps
    BY DEF Handover, Steps, Kinds, Targets, Contracts
  <2> QED
    BY <2>1, Single, Zenon
<1>5. /\ \A i \in 1 .. N : P[i] = [tx |-> "set_asset", of |-> InitialAssets[i]]
      /\ \A i \in 1 .. N : M[i] = [tx |-> "init_asset", of |-> InitialAssets[i]]
      /\ \A i \in 1 .. K : L[i].tx = "set_limit"
  BY <1>1 DEF MarketsPart, LimitsPart
<1>6. PICK PO, S1, S2, S3 : /\ PO = P \o O /\ S1 = Opening \o PO /\ S2 = S1 \o M
                              /\ S3 = S2 \o L /\ Script = S3 \o R
  BY DEF Script, Opening, OraclePart
<1> HIDE DEF N, K, P, O, M, L, R
<1>7. /\ IsList(P, N, Steps) /\ IsList(O, 1, Steps) /\ IsList(M, N, Steps)
      /\ IsList(L, K, Steps) /\ IsList(R, 1, Steps)
  BY <1>2, <1>3, <1>4 DEF IsList
<1>8. IsList(PO, N + 1, Steps) /\ IsJoin(PO, P, N, O, 1)
  BY <1>6, <1>7, Joined, Zenon
<1>9. IsList(S1, 16 + N, Steps) /\ IsJoin(S1, Opening, 15, PO, N + 1)
  <2>1. IsList(S1, 15 + (N + 1), Steps) /\ IsJoin(S1, Opening, 15, PO, N + 1)
    BY <1>6, <1>8, OpeningLayout, Joined, Zenon
  <2>2. 15 + (N + 1) = 16 + N
    BY <1>1
  <2> QED
    BY <2>1, <2>2, Zenon
<1>10. IsList(S2, 16 + 2 * N, Steps) /\ IsJoin(S2, S1, 16 + N, M, N)
  <2>1. IsList(S2, (16 + N) + N, Steps) /\ IsJoin(S2, S1, 16 + N, M, N)
    BY <1>6, <1>7, <1>9, Joined, Zenon
  <2>2. (16 + N) + N = 16 + 2 * N
    BY <1>1
  <2> QED
    BY <2>1, <2>2, Zenon
<1>11. IsList(S3, 16 + 2 * N + K, Steps) /\ IsJoin(S3, S2, 16 + 2 * N, L, K)
  BY <1>6, <1>7, <1>10, Joined, Zenon
<1>18. IsList(Script, (16 + 2 * N + K) + 1, Steps) /\ IsJoin(Script, S3, 16 + 2 * N + K, R, 1)
  BY <1>6, <1>7, <1>11, Joined, Zenon
<1>12. /\ Len(Script) = 17 + 2 * N + K
       /\ Script[17 + 2 * N + K] = R[1]
       /\ \A i \in 1 .. 16 + N : Script[i] = S1[i]
  <2>1. ASSUME NEW i \in 1 .. 16 + N
        PROVE  Script[i] = S1[i]
    <3>1. i \in 1 .. 16 + 2 * N /\ i \in 1 .. 16 + 2 * N + K
      BY <1>1
    <3> QED
      BY <1>10, <1>11, <1>18, <3>1, Zenon DEF IsJoin
  <2>2. (16 + 2 * N + K) + 1 = 17 + 2 * N + K
    BY <1>1
  <2> QED
    BY <1>18, <2>1, <2>2 DEF IsList, IsJoin
<1>13. \A i \in 1 .. 15 : Script[i] = Opening[i]
  <2>1. \A i \in 1 .. 15 : i \in 1 .. 16 + N
    BY <1>1
  <2> QED
    BY <1>9, <1>12, <2>1, Zenon DEF IsJoin
<1>14. \A i \in 1 .. N : Script[15 + i] = P[i]
  <2>1. \A i \in 1 .. N : 15 + i \in 1 .. 16 + N /\ i \in 1 .. N + 1
    BY <1>1
  <2> QED
    BY <1>8, <1>9, <1>12, <2>1, Zenon DEF IsJoin
<1>15. Script[16 + N] = O[1]
  <2>1. 16 + N = 15 + (N + 1) /\ N + 1 \in 1 .. N + 1 /\ 16 + N \in 1 .. 16 + N
    BY <1>1
  <2> QED
    BY <1>8, <1>9, <1>12, <2>1, SMTT(30) DEF IsJoin
<1>16. \A i \in 1 .. N : Script[16 + N + i] = M[i]
  <2> SUFFICES ASSUME NEW i \in 1 .. N
               PROVE  Script[16 + N + i] = M[i]
    OBVIOUS
  <2>1. 16 + N + i \in 1 .. 16 + 2 * N /\ 16 + N + i \in 1 .. 16 + 2 * N + K
    BY <1>1
  <2> QED
    BY <1>10, <1>11, <1>18, <2>1, Zenon DEF IsJoin
<1>17. \A i \in 1 .. K : Script[16 + 2 * N + i] = L[i]
  <2> SUFFICES ASSUME NEW i \in 1 .. K
               PROVE  Script[16 + 2 * N + i] = L[i]
    OBVIOUS
  <2>1. 16 + 2 * N + i \in 1 .. 16 + 2 * N + K
    BY <1>1
  <2> QED
    BY <1>11, <1>18, <2>1, Zenon DEF IsJoin
<1> QED
  BY <1>1, <1>4, <1>5, <1>12, <1>13, <1>14, <1>15, <1>16, <1>17, ZenonT(30) DEF N, K

-----------------------------------------------------------------------------
(* What the script has done. *)

\* The transaction that makes each contract.
DeployedAt ==
  [address_provider |-> 1, council |-> 2, vesting |-> 4, staking |-> 5, safety_fund |-> 6,
   treasury |-> 7, incentives |-> 8, xmars_token |-> 9, protocol_rewards_collector |-> 10,
   red_bank |-> 13, oracle |-> 14]

\* Those that answer to the council from the beginning.
CouncilOwned == {"council", "staking", "safety_fund", "treasury", "incentives"}

\* What the transactions before the n-th have left, while the script runs: the
\* contracts they made, and to whom each answers;
ContractsMade(n) ==
  /\ \A c \in DOMAIN DeployedAt : DeployedAt[c] < n => Exists(c)
  /\ \A c \in CouncilOwned : DeployedAt[c] < n => owners[c] = "council"
  /\ n > 13 => owners["red_bank"] = Deployer
  /\ n > 14 =>
       owners["oracle"] = IF n > 16 + Len(InitialAssets) THEN "council" ELSE Deployer
  /\ n > 1 => provider.owner = IF n > 15 THEN "council" ELSE Deployer
  /\ n > 10 => collectorConfig.owner = IF n > 12 THEN "council" ELSE Deployer

\* what they set;
SettingsMade(n) ==
  /\ n > 3 => "council" \in minterAdmins
  /\ n > 15 => Known(Contracts)
  /\ \A i \in DOMAIN InitialAssets :
       n > 15 + i /\ InitialAssets[i] \in Natives => InitialAssets[i] \in priced

\* and the markets they opened, of which there are as many as there were turns.
Opened(n) ==
  LET N == Len(InitialAssets)
  IN  IF n <= 17 + N THEN 0 ELSE IF n <= 17 + 2 * N THEN n - (17 + N) ELSE N
MarketsMade(n) ==
  /\ markets \in Seq(Assets) /\ Len(markets) = Opened(n)
  /\ \A i \in 1 .. Opened(n) : markets[i] = InitialAssets[i]

Made(n) == ContractsMade(n) /\ SettingsMade(n) /\ MarketsMade(n)

ScriptInv == status = "running" => \E n \in 1 .. Len(Script) : next = n /\ Made(n)


LEMMA DeploymentsDiffer ==
  /\ \A c \in DOMAIN DeployedAt : DeployedAt[c] \in 1 .. 14
  /\ \A c, d \in DOMAIN DeployedAt : DeployedAt[c] = DeployedAt[d] => c = d
  /\ CouncilOwned \subseteq DOMAIN DeployedAt
  /\ {"address_provider", "protocol_rewards_collector", "red_bank", "oracle"}
        \subseteq DOMAIN DeployedAt
  /\ DeployedAt["address_provider"] = 1 /\ DeployedAt["protocol_rewards_collector"] = 10
  /\ DeployedAt["red_bank"] = 13 /\ DeployedAt["oracle"] = 14
  BY DEF DeployedAt, CouncilOwned

\* A transaction is of one kind.
LEMMA TransactOf ==
  ASSUME NEW t, Transact(t)
  PROVE  /\ \A c : t = Deploy(c) => Instantiate(c)
         /\ \A c : t = Handover(c) => UpdateOwner(c)
         /\ t.tx = "set_minter" => SetMinter
         /\ t.tx = "enable" => EnableAsset(t.of)
         /\ t.tx = "set_addresses" => SetAddresses
         /\ t.tx = "set_asset" => SetPrice(t.of)
         /\ t.tx = "init_asset" => InitAsset(t.of)
         /\ t.tx = "set_limit" => SetLimit(t.of)
<1>1. \A c : t = Deploy(c) => t.tx = "deploy" /\ t.of = c
  BY DEF Deploy
<1>2. \A c : t = Handover(c) => t.tx = "handover" /\ t.of = c
  BY DEF Handover
<1> QED
  BY <1>1, <1>2, Zenon DEF Transact

\* What the n-th transaction of the script does.
Does(n) ==
  LET N == Len(InitialAssets)
      K == Len(Strategies)
  IN  \/ \E c \in DOMAIN DeployedAt : n = DeployedAt[c] /\ Instantiate(c)
      \/ n = 3 /\ SetMinter
      \/ n = 11 /\ \E asset : EnableAsset(asset)
      \/ n = 12 /\ UpdateOwner("protocol_rewards_collector")
      \/ n = 15 /\ SetAddresses
      \/ \E i \in 1 .. N : n = 15 + i /\ SetPrice(InitialAssets[i])
      \/ n = 16 + N /\ UpdateOwner("oracle")
      \/ \E i \in 1 .. N : n = 16 + N + i /\ InitAsset(InitialAssets[i])
      \/ \E i \in 1 .. K : n = 16 + 2 * N + i /\ \E s : SetLimit(s)
      \/ n = Len(Script) /\ UpdateOwner("red_bank")

LEMMA ScriptDoes ==
  ASSUME NEW n \in 1 .. Len(Script), Transact(Script[n])
  PROVE  Does(n)
<1> DEFINE N == Len(InitialAssets)
           K == Len(Strategies)
<1>1. /\ N \in Nat /\ K \in Nat /\ Len(Script) = 17 + 2 * N + K
      /\ \A i \in 1 .. 15 : Script[i] = Opening[i]
  BY ScriptLayout
<1>2. CASE n \in 1 .. 15
  <2>1. Transact(Opening[n])
    BY <1>1, <1>2
  <2>2. ASSUME NEW c \in DOMAIN DeployedAt, n = DeployedAt[c], Opening[n] = Deploy(c)
        PROVE  Does(n)
    <3>1. Instantiate(c)
      BY <2>1, <2>2, TransactOf
    <3> QED
      BY <2>2, <3>1 DEF Does
  <2>3. CASE n \in {1, 2, 4, 5, 6, 7, 8, 9, 10, 13, 14}
    <3>1. \E c \in DOMAIN DeployedAt : n = DeployedAt[c] /\ Opening[n] = Deploy(c)
      <4>1. DOMAIN DeployedAt = {"address_provider", "council", "vesting", "staking",
                                 "safety_fund", "treasury", "incentives", "xmars_token",
                                 "protocol_rewards_collector", "red_bank", "oracle"}
        BY DEF DeployedAt
      <4>2. /\ DeployedAt["address_provider"] = 1 /\ DeployedAt["council"] = 2
            /\ DeployedAt["vesting"] = 4 /\ DeployedAt["staking"] = 5
            /\ DeployedAt["safety_fund"] = 6 /\ DeployedAt["treasury"] = 7
            /\ DeployedAt["incentives"] = 8 /\ DeployedAt["xmars_token"] = 9
            /\ DeployedAt["protocol_rewards_collector"] = 10
            /\ DeployedAt["red_bank"] = 13 /\ DeployedAt["oracle"] = 14
        BY DEF DeployedAt
      <4> QED
        BY <2>3, <4>1, <4>2, OpeningLayout
    <3> QED
      BY <2>2, <3>1
  <2>4. CASE n = 3
    <3>1. SetMinter
      BY <2>1, <2>4, OpeningLayout, TransactOf
    <3> QED
      BY <2>4, <3>1 DEF Does
  <2>5. CASE n = 11
    <3>1. EnableAsset(Opening[11].of)
      BY <2>1, <2>5, OpeningLayout, TransactOf
    <3> QED
      BY <2>5, <3>1 DEF Does
  <2>6. CASE n = 12
    <3>1. UpdateOwner("protocol_rewards_collector")
      BY <2>1, <2>6, OpeningLayout, TransactOf
    <3> QED
      BY <2>6, <3>1 DEF Does
  <2>7. CASE n = 15
    <3>1. SetAddresses
      BY <2>1, <2>7, OpeningLayout, TransactOf
    <3> QED
      BY <2>7, <3>1 DEF Does
  <2> QED
    BY <1>2, <2>3, <2>4, <2>5, <2>6, <2>7
<1>3. ASSUME NEW i \in 1 .. N, n = 15 + i
      PROVE  Does(n)
  <2>1. Script[n] = [tx |-> "set_asset", of |-> InitialAssets[i]]
    BY <1>3, ScriptLayout
  <2>2. SetPrice(InitialAssets[i])
    BY <2>1, TransactOf
  <2> QED
    BY <1>3, <2>2 DEF Does
<1>4. CASE n = 16 + N
  <2>1. UpdateOwner("oracle")
    BY <1>4, ScriptLayout, TransactOf
  <2> QED
    BY <1>4, <2>1 DEF Does
<1>5. ASSUME NEW i \in 1 .. N, n = 16 + N + i
      PROVE  Does(n)
  <2>1. Script[n] = [tx |-> "init_asset", of |-> InitialAssets[i]]
    BY <1>5, ScriptLayout
  <2>2. InitAsset(InitialAssets[i])
    BY <2>1, TransactOf
  <2> QED
    BY <1>5, <2>2 DEF Does
<1>6. ASSUME NEW i \in 1 .. K, n = 16 + 2 * N + i
      PROVE  Does(n)
  <2>1. Script[n].tx = "set_limit"
    BY <1>6, ScriptLayout
  <2>2. SetLimit(Script[n].of)
    BY <2>1, TransactOf
  <2> QED
    BY <1>6, <2>2 DEF Does
<1>7. CASE n = Len(Script)
  <2>1. UpdateOwner("red_bank")
    BY <1>7, ScriptLayout, TransactOf
  <2> QED
    BY <1>7, <2>1 DEF Does
<1> HIDE DEF N, K
<1>8. \/ n \in 1 .. 15 \/ n = 16 + N \/ n = Len(Script)
      \/ \E i \in 1 .. N : n = 15 + i
      \/ \E i \in 1 .. N : n = 16 + N + i
      \/ \E i \in 1 .. K : n = 16 + 2 * N + i
  <2>1. n \in 16 .. 15 + N => n - 15 \in 1 .. N /\ n = 15 + (n - 15)
    BY <1>1
  <2>2. n \in 17 + N .. 16 + 2 * N => n - (16 + N) \in 1 .. N /\ n = 16 + N + (n - (16 + N))
    BY <1>1
  <2>3. n \in 17 + 2 * N .. 16 + 2 * N + K
          => n - (16 + 2 * N) \in 1 .. K /\ n = 16 + 2 * N + (n - (16 + 2 * N))
    BY <1>1
  <2>4. \/ n \in 1 .. 15 \/ n = 16 + N \/ n = Len(Script) \/ n \in 16 .. 15 + N
        \/ n \in 17 + N .. 16 + 2 * N \/ n \in 17 + 2 * N .. 16 + 2 * N + K
    BY <1>1
  <2> QED
    BY <2>1, <2>2, <2>3, <2>4
<1> QED
  BY <1>2, <1>3, <1>4, <1>5, <1>6, <1>7, <1>8

\* A new contract answers to whom it was told, the others to whom they did.
LEMMA DeployMakes ==
  ASSUME NEW n \in Nat, NEW m, m = n + 1, Made(n),
         NEW c \in DOMAIN DeployedAt, n = DeployedAt[c], Instantiate(c)
  PROVE  Made(m)'
<1> DEFINE N == Len(InitialAssets)
<1>1. /\ DOMAIN owners' = DOMAIN owners \cup {c} /\ owners'[c] = FirstOwner(c)
      /\ \A d \in DOMAIN owners \ {c} : owners'[d] = owners[d]
  BY DEF Instantiate
<1>2. n \in 1 .. 14 /\ m \in 2 .. 15 /\ N \in Nat
  <2>1. N \in Nat
    BY ScriptLayout
  <2>2. n \in 1 .. 14
    BY DeploymentsDiffer
  <2>3. m = n + 1
    OBVIOUS
  <2> QED
    BY ONLY <2>1, <2>2, <2>3
<1>3. \A d \in DOMAIN DeployedAt : DeployedAt[d] < m => d = c \/ DeployedAt[d] < n
  BY <1>2, DeploymentsDiffer
<1>4. \A d \in DOMAIN DeployedAt : DeployedAt[d] < n => d # c /\ d \in DOMAIN owners
  BY DeploymentsDiffer DEF Made, ContractsMade, Exists
<1>5. \A d \in DOMAIN DeployedAt : DeployedAt[d] < m => d \in DOMAIN owners'
  BY <1>1, <1>3, <1>4
<1>6. \A d \in CouncilOwned : DeployedAt[d] < m => owners'[d] = "council"
  <2> SUFFICES ASSUME NEW d \in CouncilOwned, DeployedAt[d] < m
               PROVE  owners'[d] = "council"
    OBVIOUS
  <2>1. CASE d = c
    BY <1>1, <2>1 DEF CouncilOwned, FirstOwner
  <2>2. CASE d # c
    <3>1. DeployedAt[d] < n /\ d \in DOMAIN owners \ {c}
      BY <1>3, <1>4, <2>2, DeploymentsDiffer
    <3> QED
      BY <1>1, <3>1 DEF Made, ContractsMade
  <2> QED
    BY <2>1, <2>2
<1>7. m > 13 => owners'["red_bank"] = Deployer
  <2>1. CASE n = 13
    BY <1>1, <2>1, DeploymentsDiffer, ZenonT(30) DEF FirstOwner
  <2>2. CASE n = 14
    <3>1. "red_bank" \in DOMAIN owners \ {c}
      BY <1>4, <2>2, DeploymentsDiffer
    <3> QED
      BY <1>1, <2>2, <3>1 DEF Made, ContractsMade
  <2> QED
    BY <1>2, <2>1, <2>2
<1>8. m > 14 => owners'["oracle"] = Deployer /\ ~ (m > 16 + N)
  BY <1>1, <1>2, DeploymentsDiffer DEF FirstOwner
<1>9. ~ (m > 15) /\ ~ (m > 12 /\ n <= 10) /\ provider'.owner = Deployer
  <2>1. CASE c = "address_provider"
    BY <1>2, <2>1, DeploymentsDiffer DEF Instantiate, Instantiated, FirstOwner
  <2>2. CASE c # "address_provider"
    <3>1. n > 1 /\ ~ (n > 15)
      BY <1>2, <2>2, DeploymentsDiffer
    <3> QED
      BY <1>2, <2>2, <3>1 DEF Instantiate, Made, ContractsMade
  <2> QED
    BY <2>1, <2>2
<1>10. m > 10 => collectorConfig'.owner = IF m > 12 THEN "council" ELSE Deployer
  <2>1. CASE c = "protocol_rewards_collector"
    <3>1. n = 10 /\ ~ (m > 12)
      BY <2>1, DeploymentsDiffer
    <3> QED
      BY <2>1, <3>1 DEF Instantiate, InitialConfigs, FirstOwner
  <2>2. CASE c # "protocol_rewards_collector"
    <3>1. n # 10 /\ n # 11 /\ n # 12
      <4> n # 11 /\ n # 12
        BY DEF DeployedAt
      <4> QED
        BY <2>2, DeploymentsDiffer
    <3>2. collectorConfig' = collectorConfig
      BY <2>2 DEF Instantiate
    <3>3. m > 10 => n > 12 /\ m > 12
      BY <1>2, <3>1
    <3> QED
      BY <1>2, <3>2, <3>3 DEF Made, ContractsMade
  <2> QED
    BY <2>1, <2>2
<1>11. ContractsMade(m)'
  BY <1>2, <1>5, <1>6, <1>7, <1>8, <1>9, <1>10 DEF ContractsMade, Exists
<1>12. SettingsMade(m)'
  <2>1. n # 3
    BY DEF DeployedAt
  <2>2. m > 3 => n > 3
    BY <1>2, <2>1
  <2>3. /\ minterAdmins' = minterAdmins /\ ~ (m > 15)
        /\ \A i \in DOMAIN InitialAssets : ~ (m > 15 + i)
    <3>1. \A i \in DOMAIN InitialAssets : i \in Nat
      BY DeploymentAssumptions, LenProperties
    <3> QED
      BY <1>2, <3>1, SMTT(30) DEF Instantiate
  <2> QED
    BY <2>2, <2>3 DEF Made, SettingsMade
<1>13. MarketsMade(m)'
  <2>1. markets' = markets /\ Opened(m) = 0 /\ Opened(n) = 0
    BY <1>2 DEF Instantiate, Opened
  <2> QED
    BY <2>1 DEF Made, MarketsMade
<1> QED
  BY <1>11, <1>12, <1>13 DEF Made

\* A transaction that leaves the contracts and their owners alone.
LEMMA ContractsStay ==
  ASSUME NEW n \in Nat, NEW m, m = n + 1, ContractsMade(n), n \notin {1, 10, 12, 13, 14, 15},
         n # 16 + Len(InitialAssets), \A c \in DOMAIN DeployedAt : n # DeployedAt[c],
         owners' = owners, provider'.owner = provider.owner,
         collectorConfig'.owner = collectorConfig.owner
  PROVE  ContractsMade(m)'
<1>1. /\ Len(InitialAssets) \in Nat
      /\ \A c \in DOMAIN DeployedAt : DeployedAt[c] \in Nat /\ DeployedAt[c] # n
  <2>1. Len(InitialAssets) \in Nat
    BY ScriptLayout
  <2>2. \A c \in DOMAIN DeployedAt : DeployedAt[c] \in 1 .. 14
    BY DeploymentsDiffer
  <2>3. \A c \in DOMAIN DeployedAt : DeployedAt[c] \in Nat
    BY <2>2
  <2> QED
    BY <2>1, <2>3
<1>2. \A c \in DOMAIN DeployedAt : DeployedAt[c] < m => DeployedAt[c] < n
  BY <1>1
<1>3. /\ m > 1 => n > 1
      /\ m > 13 => n > 13
      /\ m > 14 => n > 14
      /\ (m > 15) = (n > 15)
      /\ m > 10 => n > 10
      /\ (m > 12) = (n > 12)
      /\ (m > 16 + Len(InitialAssets)) = (n > 16 + Len(InitialAssets))
  BY <1>1
<1> QED
  BY <1>2, <1>3, DeploymentsDiffer DEF ContractsMade, Exists

LEMMA SettingsStay ==
  ASSUME NEW n \in Nat, NEW m, m = n + 1, SettingsMade(n), n # 3, n # 15,
         \A i \in DOMAIN InitialAssets : n # 15 + i,
         UNCHANGED <<minterAdmins, priced>>, provider'.address = provider.address
  PROVE  SettingsMade(m)'
<1>1. \A i \in DOMAIN InitialAssets : i \in Nat /\ (m > 15 + i => n > 15 + i)
  <2>1. \A i \in DOMAIN InitialAssets : i \in Nat
    BY DeploymentAssumptions, LenProperties
  <2> QED
    BY <2>1
<1>2. (m > 3 => n > 3) /\ (m > 15 => n > 15)
  OBVIOUS
<1> QED
  BY <1>1, <1>2 DEF SettingsMade, Known, QueryAddress

LEMMA MarketsStay ==
  ASSUME NEW n \in Nat, NEW m, m = n + 1, MarketsMade(n), markets' = markets,
         \A i \in DOMAIN InitialAssets : n # 16 + Len(InitialAssets) + i
  PROVE  MarketsMade(m)'
<1> DEFINE N == Len(InitialAssets)
<1>1. N \in Nat /\ DOMAIN InitialAssets = 1 .. N
  BY DeploymentAssumptions, LenProperties
<1>2. n \notin 17 + N .. 16 + 2 * N
  <2> SUFFICES ASSUME n \in 17 + N .. 16 + 2 * N
               PROVE  FALSE
    OBVIOUS
  <2>1. n - (16 + N) \in 1 .. N /\ n = 16 + N + (n - (16 + N))
    BY <1>1
  <2> QED
    BY <1>1, <2>1
<1>3. Opened(m) = Opened(n)
  BY <1>1, <1>2 DEF Opened
<1> QED
  BY <1>3 DEF MarketsMade

\* Every transaction of the script but the last adds what it is there for.
LEMMA TransactionMakes ==
  ASSUME FeesAreValid, NEW n \in 1 .. Len(Script), n # Len(Script), NEW m, m = n + 1,
         Made(n), Does(n)
  PROVE  Made(m)'
<1> DEFINE N == Len(InitialAssets)
           K == Len(Strategies)
<1>1. /\ n \in Nat /\ N \in Nat /\ K \in Nat /\ DOMAIN InitialAssets = 1 .. N
      /\ n >= 1 /\ n < 17 + 2 * N + K
  <2>1. N \in Nat /\ K \in Nat /\ Len(Script) = 17 + 2 * N + K
    BY ScriptLayout
  <2> QED
    BY <2>1, DeploymentAssumptions, LenProperties
<1>2. \A c \in DOMAIN DeployedAt : DeployedAt[c] \in 1 .. 14 \ {3, 11, 12}
  BY DEF DeployedAt
<1>3. ContractsMade(n) /\ SettingsMade(n) /\ MarketsMade(n)
  BY DEF Made
<1>4. ASSUME NEW c \in DOMAIN DeployedAt, n = DeployedAt[c], Instantiate(c)
      PROVE  Made(m)'
  BY <1>1, <1>4, DeployMakes
<1>5. CASE n = 3 /\ SetMinter
  <2>1. ContractsMade(m)'
    BY <1>1, <1>2, <1>3, <1>5, ContractsStay DEF SetMinter, collectorVars
  <2>2. SettingsMade(m)'
    BY <1>1, <1>5 DEF SetMinter, SettingsMade
  <2>3. MarketsMade(m)'
    BY <1>1, <1>3, <1>5, MarketsStay DEF SetMinter
  <2> QED
    BY <2>1, <2>2, <2>3 DEF Made
<1>6. CASE n = 11 /\ \E asset : EnableAsset(asset)
  <2>1. UNCHANGED <<chainVars, provider, collectorConfig>>
    BY <1>6 DEF EnableAsset
  <2>2. ContractsMade(m)'
    BY <1>1, <1>2, <1>3, <1>6, <2>1, ContractsStay DEF chainVars
  <2>3. SettingsMade(m)'
    BY <1>1, <1>3, <1>6, <2>1, SettingsStay DEF chainVars
  <2>4. MarketsMade(m)'
    BY <1>1, <1>3, <1>6, <2>1, MarketsStay DEF chainVars
  <2> QED
    BY <2>2, <2>3, <2>4 DEF Made
<1>7. CASE n = 12 /\ UpdateOwner("protocol_rewards_collector")
  <2>1. /\ UNCHANGED <<owners, minterAdmins, priced, markets, provider>>
        /\ collectorConfig'.owner = "council"
    BY <1>7 DEF UpdateOwner, FeesAreValid
  <2>2. ContractsMade(m)'
    <3>1. \A c \in DOMAIN DeployedAt : DeployedAt[c] < m => DeployedAt[c] < n
      BY <1>1, <1>2, <1>7, SMTT(30)
    <3> QED
      BY <1>1, <1>3, <1>7, <2>1, <3>1, DeploymentsDiffer DEF ContractsMade, Exists
  <2>3. SettingsMade(m)'
    BY <1>1, <1>3, <1>7, <2>1, SettingsStay
  <2>4. MarketsMade(m)'
    BY <1>1, <1>3, <1>7, <2>1, MarketsStay
  <2> QED
    BY <2>2, <2>3, <2>4 DEF Made
<1>8. CASE n = 15 /\ SetAddresses
  <2>1. /\ UNCHANGED <<owners, minterAdmins, priced, markets, collectorConfig>>
        /\ provider'.owner = "council"
        /\ \A c \in Contracts : provider'.address[c] = ScriptAddresses[c]
    BY <1>8 DEF SetAddresses, UpdateAddresses, Updated, ScriptAddresses, chainVars, collectorVars
  <2>2. ContractsMade(m)'
    <3>1. \A c \in DOMAIN DeployedAt : DeployedAt[c] < m => DeployedAt[c] < n
      BY <1>1, <1>2, <1>8, SMTT(30)
    <3> QED
      BY <1>1, <1>3, <1>8, <2>1, <3>1, DeploymentsDiffer DEF ContractsMade, Exists
  <2>3. Known(Contracts)'
    BY <2>1, DeploymentAssumptions DEF Known, QueryAddress, ScriptAddresses
  <2>4. SettingsMade(m)'
    BY <1>1, <1>3, <1>8, <2>1, <2>3 DEF SettingsMade
  <2>5. MarketsMade(m)'
    BY <1>1, <1>3, <1>8, <2>1, MarketsStay
  <2> QED
    BY <2>2, <2>4, <2>5 DEF Made
<1>9. ASSUME NEW i \in 1 .. N, n = 15 + i, SetPrice(InitialAssets[i])
      PROVE  Made(m)'
  <2>1. /\ UNCHANGED <<owners, minterAdmins, markets, provider, collectorConfig>>
        /\ priced \subseteq priced'
        /\ InitialAssets[i] \in Natives => InitialAssets[i] \in priced'
    BY <1>9 DEF SetPrice, collectorVars
  <2>2. ContractsMade(m)'
    <3>1. /\ n \notin {1, 10, 12, 13, 14, 15} /\ n # 16 + Len(InitialAssets)
          /\ \A c \in DOMAIN DeployedAt : n # DeployedAt[c]
      <4>1. PICK last : last = Len(InitialAssets)
        OBVIOUS
      <4>2. last \in Nat /\ i \in 1 .. last /\ n = 15 + i
        BY <1>1, <1>9, <4>1
      <4>3. n \notin 1 .. 15 /\ n # 16 + last
        BY ONLY <4>2
      <4>4. \A c \in DOMAIN DeployedAt : DeployedAt[c] \in 1 .. 15
        BY <1>2
      <4> QED
        BY ONLY <4>1, <4>3, <4>4, SMTT(30)
    <3> QED
      BY <1>1, <1>3, <2>1, <3>1, ContractsStay
  <2>3. SettingsMade(m)'
    <3>1. /\ m > 3 /\ n > 3 /\ m > 15 /\ n > 15
          /\ \A j \in 1 .. N : m > 15 + j => n > 15 + j \/ j = i
      BY <1>1, <1>9
    <3> QED
      BY <1>1, <1>3, <2>1, <3>1 DEF SettingsMade, Known, QueryAddress
  <2>4. MarketsMade(m)'
    BY <1>1, <1>3, <1>9, <2>1, MarketsStay
  <2> QED
    BY <2>2, <2>3, <2>4 DEF Made
<1>10. CASE n = 16 + N /\ UpdateOwner("oracle")
  <2>1. /\ UNCHANGED <<minterAdmins, priced, markets, provider, collectorConfig>>
        /\ owners' = [owners EXCEPT !["oracle"] = "council"]
    BY <1>10 DEF UpdateOwner
  <2>2. ContractsMade(m)'
    <3>1. \A c \in DOMAIN DeployedAt : DeployedAt[c] < m => DeployedAt[c] < n
      BY <1>1, <1>2, <1>10, SMTT(30)
    <3>2. /\ m > 16 + N /\ n > 1 /\ n > 10 /\ n > 12 /\ n > 13 /\ n > 14 /\ n > 15 /\ m > 12 /\ m > 15
      BY <1>1, <1>10
    <3>3. /\ DOMAIN owners' = DOMAIN owners
          /\ \A c \in DOMAIN owners \ {"oracle"} : owners'[c] = owners[c]
          /\ "oracle" \in DOMAIN owners => owners'["oracle"] = "council"
      BY <2>1
    <3>4. "oracle" \in DOMAIN owners /\ "red_bank" \in DOMAIN owners
      BY <1>3, <3>2, DeploymentsDiffer DEF ContractsMade, Exists
    <3>5. \A c \in CouncilOwned : c # "oracle" /\ (DeployedAt[c] < n => c \in DOMAIN owners)
      BY <1>3, DeploymentsDiffer DEF ContractsMade, Exists, CouncilOwned
    <3> QED
      BY <1>3, <2>1, <3>1, <3>2, <3>3, <3>4, <3>5, DeploymentsDiffer DEF ContractsMade, Exists
  <2>3. SettingsMade(m)'
    <3>1. \A i \in DOMAIN InitialAssets : n # 15 + i
      BY <1>1, <1>10
    <3> QED
      BY <1>1, <1>3, <1>10, <2>1, <3>1, SettingsStay
  <2>4. MarketsMade(m)'
    BY <1>1, <1>3, <1>10, <2>1, MarketsStay
  <2> QED
    BY <2>2, <2>3, <2>4 DEF Made
<1>11. ASSUME NEW i \in 1 .. N, n = 16 + N + i, InitAsset(InitialAssets[i])
       PROVE  Made(m)'
  <2>1. /\ UNCHANGED <<owners, minterAdmins, priced, provider, collectorConfig>>
        /\ markets' = Append(markets, InitialAssets[i])
    BY <1>11 DEF InitAsset, collectorVars
  <2>2. ContractsMade(m)'
    <3>1. /\ n \notin {1, 10, 12, 13, 14, 15} /\ n # 16 + Len(InitialAssets)
          /\ \A c \in DOMAIN DeployedAt : n # DeployedAt[c]
      <4>1. PICK last : last = Len(InitialAssets)
        OBVIOUS
      <4>2. last \in Nat /\ i \in 1 .. last /\ n = 16 + last + i
        BY <1>1, <1>11, <4>1
      <4>3. n \notin 1 .. 15 /\ n # 16 + last
        BY ONLY <4>2
      <4>4. \A c \in DOMAIN DeployedAt : DeployedAt[c] \in 1 .. 15
        BY <1>2
      <4> QED
        BY ONLY <4>1, <4>3, <4>4, SMTT(30)
    <3> QED
      BY <1>1, <1>3, <2>1, <3>1, ContractsStay
  <2>3. SettingsMade(m)'
    BY <1>1, <1>3, <1>11, <2>1, SettingsStay
  <2>4. MarketsMade(m)'
    <3>1. Opened(n) = i - 1 /\ Opened(m) = i /\ i \in Nat
      <4>1. PICK last : last = N
        OBVIOUS
      <4>2. /\ last \in Nat /\ i \in 1 .. last /\ n = 16 + last + i /\ m = n + 1
        BY <1>1, <1>11, <4>1
      <4>3. /\ Opened(n) = IF n <= 17 + last THEN 0
                            ELSE IF n <= 17 + 2 * last THEN n - (17 + last) ELSE last
            /\ Opened(m) = IF m <= 17 + last THEN 0
                            ELSE IF m <= 17 + 2 * last THEN m - (17 + last) ELSE last
        BY <4>1 DEF Opened
      <4> QED
        BY ONLY <4>2, <4>3
    <3>2. /\ markets \in Seq(Assets) /\ Len(markets) = i - 1
          /\ \A j \in 1 .. i - 1 : markets[j] = InitialAssets[j]
      BY <1>3, <3>1 DEF MarketsMade
    <3>3. InitialAssets[i] \in Assets
      BY DeploymentAssumptions, ElementOfSeq
    <3>4. PICK after : after = Append(markets, InitialAssets[i])
      OBVIOUS
    <3>5. /\ after \in Seq(Assets) /\ Len(after) = (i - 1) + 1
          /\ \A j \in 1 .. i - 1 : after[j] = markets[j]
          /\ after[(i - 1) + 1] = InitialAssets[i]
      BY <3>2, <3>3, <3>4, AppendProperties
    <3>6. /\ Len(after) = i /\ \A j \in 1 .. i : after[j] = InitialAssets[j]
      BY <3>1, <3>2, <3>5
    <3> QED
      BY <2>1, <3>1, <3>4, <3>5, <3>6 DEF MarketsMade
  <2> QED
    BY <2>2, <2>3, <2>4 DEF Made
<1>12. ASSUME NEW i \in 1 .. K, n = 16 + 2 * N + i, NEW s, SetLimit(s)
       PROVE  Made(m)'
  <2>1. UNCHANGED <<owners, minterAdmins, priced, markets, provider, collectorConfig>>
    BY <1>12 DEF SetLimit, collectorVars
  <2>2. ContractsMade(m)'
    BY <1>1, <1>2, <1>3, <1>12, <2>1, ContractsStay, SMTT(30)
  <2>3. SettingsMade(m)'
    BY <1>1, <1>3, <1>12, <2>1, SettingsStay
  <2>4. MarketsMade(m)'
    BY <1>1, <1>3, <1>12, <2>1, MarketsStay
  <2> QED
    BY <2>2, <2>3, <2>4 DEF Made
<1> QED
  BY <1>4, <1>5, <1>6, <1>7, <1>8, <1>9, <1>10, <1>11, <1>12 DEF Does

\* Others leave what the script has made.
LEMMA StaysMade ==
  ASSUME NEW n, Made(n), UNCHANGED <<owners, minterAdmins, priced, markets>>,
         provider'.owner = provider.owner, collectorConfig'.owner = collectorConfig.owner,
         Known(Contracts) => Known(Contracts)'
  PROVE  Made(n)'
<1>1. ContractsMade(n)'
  BY DEF Made, ContractsMade, Exists
<1>2. SettingsMade(n)'
  BY DEF Made, SettingsMade
<1>3. MarketsMade(n)'
  BY DEF Made, MarketsMade
<1> QED
  BY <1>1, <1>2, <1>3 DEF Made

LEMMA RevenueLeaves ==
  ASSUME RevenueStep
  PROVE  UNCHANGED <<provider, collectorConfig>>
BY DEF RevenueStep, WithdrawFromRedBank, DistributeProtocolRewards, SwapAssetToUusd

\* While the script runs the council keeps the owners, and sets no address to
\* none.
LEMMA CouncilLeaves ==
  ASSUME FeesAreValid, CouncilStep, status # "done"
  PROVE  /\ UNCHANGED <<owners, minterAdmins, priced, markets>>
         /\ provider'.owner = provider.owner
         /\ collectorConfig'.owner = collectorConfig.owner
         /\ Known(Contracts) => Known(Contracts)'
<1> DEFINE Left == /\ UNCHANGED chainVars /\ provider'.owner = provider.owner
                   /\ collectorConfig'.owner = collectorConfig.owner
                   /\ Known(Contracts) => Known(Contracts)'
<1>1. ASSUME UNCHANGED chainVars, UNCHANGED <<provider, collectorConfig>>
      PROVE  Left
  BY <1>1 DEF Known, QueryAddress
<1>2. ASSUME UpdateCollectorConfig("council"), UNCHANGED chainVars
      PROVE  Left
  BY <1>2 DEF UpdateCollectorConfig, FeesAreValid, Known, QueryAddress
<1>3. ASSUME NEW asset, NEW amount, UNCHANGED chainVars,
             UpdateAssetConfig("council", asset) \/ CollectorExecute("council", asset, amount)
      PROVE  Left
  BY <1>1, <1>3 DEF UpdateAssetConfig, CollectorExecute, Pay
<1>4. ASSUME NEW params \in AddressParams, UpdateAddresses("council", "council", params),
             UNCHANGED collectorVars, UNCHANGED chainVars
      PROVE  Left
  <2>1. /\ provider'.owner = provider.owner
        /\ \A c \in Contracts : provider'.address[c] = IF c \in DOMAIN params THEN params[c]
                                                       ELSE provider.address[c]
    BY <1>4 DEF UpdateAddresses, Updated
  <2>2. Known(Contracts) => Known(Contracts)'
    BY <1>4, <2>1, DeploymentAssumptions DEF Known, QueryAddress
  <2> QED
    BY <1>4, <2>1, <2>2 DEF collectorVars
<1>5. ASSUME NEW sender, SafetyFundStep(sender) \/ TreasuryStep(sender)
      PROVE  Left
  <2>1. UNCHANGED chainVars /\ UNCHANGED <<provider, collectorConfig>>
    BY <1>5 DEF SafetyFundStep, SafetyFundExecute, TreasuryStep, TreasuryExecute,
                TreasuryConfig, NewOwner, Pay
  <2> QED
    BY <1>1, <2>1
<1>6. ASSUME NEW owner
      PROVE  ~ IncentivesConfig("council", owner)
  BY DEF IncentivesConfig, NewOwner
<1>7. Left
  BY <1>2, <1>3, <1>4, <1>5, <1>6 DEF CouncilStep
<1> QED
  BY <1>7 DEF chainVars

LEMMA ScriptStep ==
  ASSUME FeesAreValid, ScriptInv, [Next]_vars
  PROVE  ScriptInv'
<1>1. CASE UNCHANGED vars
  <2>1. /\ UNCHANGED <<owners, minterAdmins, priced, markets, provider, collectorConfig>>
        /\ status' = status /\ next' = next
    BY <1>1 DEF vars, scriptVars, chainVars, collectorVars
  <2>2. Known(Contracts) => Known(Contracts)'
    BY <2>1 DEF Known, QueryAddress
  <2>3. \A n : Made(n) => Made(n)'
    BY <2>1, <2>2, StaysMade
  <2> QED
    BY <2>1, <2>3 DEF ScriptInv
<1>2. CASE Perform
  <2> SUFFICES ASSUME status' = "running"
               PROVE  \E m \in 1 .. Len(Script) : next' = m /\ Made(m)'
    BY DEF ScriptInv
  <2>5. PICK n \in 1 .. Len(Script) : n = next /\ Made(n)
    BY <1>2 DEF Perform, ScriptInv
  <2>1. PICK m : m = n + 1
    OBVIOUS
  <2>2. n # Len(Script) /\ next' = m /\ Transact(Script[n])
    BY <1>2, <2>1, <2>5 DEF Perform
  <2>3. Made(m)'
    BY <2>1, <2>2, <2>5, ScriptDoes, TransactionMakes
  <2>4. m \in 1 .. Len(Script)
    <3>1. Len(Script) \in Nat
      BY ScriptLayout
    <3> QED
      BY <2>1, <2>2, <3>1
  <2> QED
    BY <2>2, <2>3, <2>4
<1>3. CASE Fail
  BY <1>3 DEF Fail, ScriptInv
<1>4. CASE Rerun
  <2> SUFFICES next' = 1 /\ 1 \in 1 .. Len(Script) /\ Made(1)'
    BY <1>4 DEF ScriptInv
  <2>1. next' = 1 /\ markets' = << >>
    BY <1>4 DEF Rerun
  <2>2. Len(Script) \in Nat /\ Len(InitialAssets) \in Nat /\ Len(Script) >= 1
    BY ScriptLayout
  <2>3. ContractsMade(1)'
    <3>1. \A c \in DOMAIN DeployedAt : ~ (DeployedAt[c] < 1)
      BY DEF DeployedAt
    <3> QED
      BY <3>1, DeploymentsDiffer DEF ContractsMade
  <2>4. SettingsMade(1)'
    <3>1. \A i \in DOMAIN InitialAssets : ~ (1 > 15 + i)
      BY DeploymentAssumptions, LenProperties
    <3> QED
      BY <3>1 DEF SettingsMade
  <2>5. MarketsMade(1)'
    <3>1. Opened(1) = 0
      BY <2>2 DEF Opened
    <3> QED
      BY <2>1, <3>1 DEF MarketsMade
  <2> QED
    BY <2>1, <2>2, <2>3, <2>4, <2>5 DEF Made
<1>5. CASE RevenueStep /\ UNCHANGED <<scriptVars, chainVars>>
  <2>1. /\ UNCHANGED <<owners, minterAdmins, priced, markets, provider, collectorConfig>>
        /\ status' = status /\ next' = next
    BY <1>5, RevenueLeaves DEF scriptVars, chainVars
  <2>2. Known(Contracts) => Known(Contracts)'
    BY <2>1 DEF Known, QueryAddress
  <2>3. \A n : Made(n) => Made(n)'
    BY <2>1, <2>2, StaysMade
  <2> QED
    BY <2>1, <2>3 DEF ScriptInv
<1>6. CASE CouncilStep /\ UNCHANGED scriptVars
  <2> SUFFICES ASSUME status = "running"
               PROVE  \E n \in 1 .. Len(Script) : next' = n /\ Made(n)'
    BY <1>6 DEF ScriptInv, scriptVars
  <2>2. PICK n \in 1 .. Len(Script) : Made(n) /\ next' = n
    BY <1>6 DEF ScriptInv, scriptVars
  <2>3. Made(n)'
    BY <1>6, <2>2, CouncilLeaves, StaysMade
  <2> QED
    BY <2>2, <2>3
<1> QED
  BY <1>1, <1>2, <1>3, <1>4, <1>5, <1>6 DEF Next

\* However often it failed, when the script is done the council owns every
\* contract and may mint MARS, every address can be looked up, every market is
\* open, and the coins among them have a price: for any list of markets.
THEOREM DoneIsHandedOver == Spec => HandedOver
<1> DEFINE Over ==
             /\ \A c \in Owned : OwnerOf(c)' = "council"
             /\ "council" \in minterAdmins'
             /\ Known(Contracts)'
             /\ markets' = InitialAssets
             /\ \A i \in DOMAIN markets' : markets'[i] \in Natives => markets'[i] \in priced'
<1>1. ASSUME FeesAreValid, ScriptInv, Next, status # "done", status' = "done"
      PROVE  Over
  <2>1. Perform
    BY <1>1 DEF Next, Fail, Rerun, scriptVars
  <2>2. PICK n \in 1 .. Len(Script) : n = next /\ Made(n)
    BY <1>1, <2>1 DEF Perform, ScriptInv
  <2>3. n = Len(Script) /\ Made(n) /\ Transact(Script[n]) /\ n \in 1 .. Len(Script)
    BY <1>1, <2>1, <2>2 DEF Perform
  <2>4. UpdateOwner("red_bank")
    BY <2>3, ScriptLayout, TransactOf
  <2>5. /\ UNCHANGED <<minterAdmins, priced, markets, provider, collectorConfig>>
        /\ owners' = [owners EXCEPT !["red_bank"] = "council"]
    BY <2>4 DEF UpdateOwner
  <2>6. /\ Len(InitialAssets) \in Nat /\ DOMAIN InitialAssets = 1 .. Len(InitialAssets)
        /\ InitialAssets \in Seq(Assets)
        /\ n > 15 /\ n > 16 + Len(InitialAssets)
        /\ \A i \in DOMAIN InitialAssets : n > 15 + i
        /\ Opened(n) = Len(InitialAssets)
    <3>1. PICK last, many : last = Len(InitialAssets) /\ many = Len(Strategies)
      OBVIOUS
    <3>2. last \in Nat /\ many \in Nat /\ n = 17 + 2 * last + many
      BY <2>3, <3>1, ScriptLayout
    <3>3. Opened(n) = IF n <= 17 + last THEN 0
                      ELSE IF n <= 17 + 2 * last THEN n - (17 + last) ELSE last
      BY <3>1 DEF Opened
    <3>4. Opened(n) = last /\ n > 15 /\ n > 16 + last /\ \A i \in 1 .. last : n > 15 + i
      BY ONLY <3>2, <3>3
    <3> QED
      BY <3>1, <3>2, <3>4, DeploymentAssumptions, LenProperties
  <2>7. "council" \in minterAdmins' /\ Known(Contracts)'
    BY <2>3, <2>5, <2>6 DEF Made, SettingsMade, Known, QueryAddress
  <2>8. markets' = InitialAssets
    <3>1. /\ markets \in Seq(Assets) /\ Len(markets) = Len(InitialAssets)
          /\ \A i \in 1 .. Len(InitialAssets) : markets[i] = InitialAssets[i]
      BY <2>3, <2>6 DEF Made, MarketsMade
    <3>2. markets = InitialAssets
      BY <2>6, <3>1, SeqEqual
    <3> QED
      BY <2>5, <3>2
  <2>9. \A i \in DOMAIN markets' : markets'[i] \in Natives => markets'[i] \in priced'
    BY <2>3, <2>5, <2>6, <2>8 DEF Made, SettingsMade
  <2>10. ASSUME NEW c \in Owned
         PROVE  OwnerOf(c)' = "council"
    <3>1. c \in DOMAIN DeployedAt /\ DeployedAt[c] < n
      <4>1. c \in DOMAIN DeployedAt
        BY DeploymentsDiffer DEF Owned, CouncilOwned
      <4>2. DeployedAt[c] \in 1 .. 14
        BY <4>1, DeploymentsDiffer
      <4> QED
        BY <2>3, <2>6, <4>1, <4>2
    <3>2. c \in DOMAIN owners /\ DOMAIN owners' = DOMAIN owners
      BY <2>3, <2>5, <3>1 DEF Made, ContractsMade, Exists
    <3>3. /\ c \in CouncilOwned => owners[c] = "council"
          /\ owners["oracle"] = "council"
          /\ provider.owner = "council" /\ collectorConfig.owner = "council"
      BY <2>3, <2>6, <3>1 DEF Made, ContractsMade
    <3>4. CASE c \in {"address_provider", "protocol_rewards_collector"}
      BY <2>5, <3>2, <3>3, <3>4 DEF OwnerOf, Exists
    <3>5. CASE c \notin {"address_provider", "protocol_rewards_collector"}
      <4>1. c \in CouncilOwned \/ c = "oracle" \/ c = "red_bank"
        BY <3>5 DEF Owned, CouncilOwned
      <4>2. owners'[c] = IF c = "red_bank" THEN "council" ELSE owners[c]
        BY <2>5, <3>2
      <4>3. owners'[c] = "council"
        BY <3>3, <4>1, <4>2
      <4> QED
        BY <3>2, <3>5, <4>3 DEF OwnerOf, Exists
    <3> QED
      BY <3>4, <3>5
  <2> QED
    BY <2>7, <2>8, <2>9, <2>10
<1>2. FeesAreValid /\ ScriptInv /\ [Next]_vars => FeesAreValid' /\ ScriptInv'
  BY DeploymentKeepsFees, ScriptStep
<1>3. Init => FeesAreValid /\ ScriptInv
  <2> SUFFICES ASSUME Init
               PROVE  ScriptInv
    BY FeesInitially
  <2>1. next = 1 /\ markets = << >>
    BY DEF Init
  <2>2. Len(Script) \in Nat /\ Len(InitialAssets) \in Nat /\ Len(Script) >= 1
    BY ScriptLayout
  <2>3. ContractsMade(1)
    <3>1. \A c \in DOMAIN DeployedAt : ~ (DeployedAt[c] < 1)
      BY DEF DeployedAt
    <3> QED
      BY <3>1, DeploymentsDiffer DEF ContractsMade
  <2>4. SettingsMade(1)
    <3>1. \A i \in DOMAIN InitialAssets : ~ (1 > 15 + i)
      BY DeploymentAssumptions, LenProperties
    <3> QED
      BY <3>1 DEF SettingsMade
  <2>5. MarketsMade(1)
    <3>1. Opened(1) = 0
      BY <2>2 DEF Opened
    <3> QED
      BY <2>1, <3>1 DEF MarketsMade
  <2> QED
    BY <2>1, <2>2, <2>3, <2>4, <2>5 DEF Made, ScriptInv
<1>4. FeesAreValid /\ ScriptInv /\ [Next]_vars => [status # "done" /\ status' = "done" => Over]_vars
  BY <1>1
<1> QED
  BY <1>2, <1>3, <1>4, PTL DEF Spec, HandedOver

-----------------------------------------------------------------------------
(* Who gets what is distributed. *)

\* The total of a ledger with one entry.
LEMMA TotalOfOne ==
  ASSUME NEW S, IsFiniteSet(S), NEW f, NEW y \in S, f[y] \in Nat, \A x \in S \ {y} : f[x] = 0
  PROVE  Total(f, S) = f[y]
<1>1. \A x \in S : f[x] \in Nat
  OBVIOUS
<1>2. Total(f, S \ {y}) = 0
  BY TotalZero
<1> QED
  BY <1>1, <1>2, TotalSplit

\* Two contracts are no three.
LEMMA PairIsNoTriple ==
  ASSUME NEW p, NEW q, NEW T, T \subseteq {p, q}
  PROVE  Cardinality(T) # 3
<1>1. IsFiniteSet({p}) /\ Cardinality({p}) = 1
  BY FS_Singleton
<1>2. {p} \cup {q} = {p, q}
  OBVIOUS
<1>3. /\ IsFiniteSet({p} \cup {q})
      /\ \/ Cardinality({p} \cup {q}) = Cardinality({p}) + 1
         \/ Cardinality({p} \cup {q}) = Cardinality({p})
  BY <1>1, FS_AddElement
<1>4. Cardinality(T) <= Cardinality({p, q}) /\ Cardinality(T) \in Nat
  BY <1>2, <1>3, FS_Subset, FS_CardinalityType
<1> QED
  BY <1>1, <1>2, <1>3, <1>4

\* Three that count as three differ, and are none of those taken away.
LEMMA ThreeDiffer ==
  ASSUME NEW x, NEW y, NEW z, NEW E, Cardinality({x, y, z} \ E) = 3
  PROVE  x # y /\ x # z /\ y # z /\ x \notin E /\ y \notin E /\ z \notin E
<1>1. x = y \/ x \in E => {x, y, z} \ E \subseteq {y, z}
  OBVIOUS
<1>2. x = z \/ z \in E => {x, y, z} \ E \subseteq {x, y}
  OBVIOUS
<1>3. y = z \/ y \in E => {x, y, z} \ E \subseteq {x, z}
  OBVIOUS
<1> QED
  BY <1>1, <1>2, <1>3, PairIsNoTriple

\* The addresses a recipient may have while it has one: its own, and what the
\* council may set.
SetAddressesOf(c) == {c} \cup {p[c] : p \in {q \in AddressParams : c \in DOMAIN q}}

\* Who may own a fund later on is not given the address of a recipient.
OwnersDoNotReceive ==
  \A o \in NextOwners : \A c \in Recipients : o \notin SetAddressesOf(c)

\* What the provider answers for a recipient: nothing yet, or one of the
\* addresses it may be set to.
AddressesInv == \A c \in Recipients : QueryAddress(c) \in SetAddressesOf(c) \cup {NoAddress}

\* And the funds are amounts.
FundsInv == funds \in [Assets -> [Parties -> Nat]] /\ AddressesInv

\* The recipients have different addresses, the collector's and the council's
\* not among them.
Apart == Cardinality({QueryAddress(c) : c \in Recipients} \ {Collector, "council"}) = 3

\* What three addresses outside of the two say of each.
LEMMA ApartMeans ==
  ASSUME Apart
  PROVE  /\ \A c, d \in Recipients : QueryAddress(c) = QueryAddress(d) => c = d
         /\ \A c \in Recipients : QueryAddress(c) # Collector /\ QueryAddress(c) # "council"
<1>1. PICK x, y, z : /\ x = QueryAddress("safety_fund") /\ y = QueryAddress("treasury")
                     /\ z = QueryAddress("staking")
  OBVIOUS
<1>2. {QueryAddress(c) : c \in Recipients} = {x, y, z}
  BY <1>1 DEF Recipients
<1>3. Cardinality({x, y, z} \ {Collector, "council"}) = 3
  BY <1>2 DEF Apart
<1>4. /\ x # y /\ x # z /\ y # z
      /\ x \notin {Collector, "council"} /\ y \notin {Collector, "council"}
      /\ z \notin {Collector, "council"}
  BY <1>3, ThreeDiffer
<1> QED
  BY <1>1, <1>4 DEF Recipients

\* A recipient that can be looked up has an account.
LEMMA KnownIsParty ==
  ASSUME FundsInv, NEW c \in Recipients, QueryAddress(c) # NoAddress
  PROVE  QueryAddress(c) \in Parties /\ QueryAddress(c) \in SetAddressesOf(c)
<1>1. QueryAddress(c) \in SetAddressesOf(c)
  BY DEF FundsInv, AddressesInv
<1>2. SetAddressesOf(c) \subseteq Parties
  BY DeploymentAssumptions DEF SetAddressesOf
<1> QED
  BY <1>1, <1>2

\* What one step gives to a recipient, and takes from the collector.
Gained(asset, c) == funds'[asset][QueryAddress(c)] - funds[asset][QueryAddress(c)]
Spent(asset) == funds[asset][Collector] - funds'[asset][Collector]

\* For RewardsAreShared: of an asset.
Shared(asset) ==
  Gained(asset, "staking") > 0 =>
    /\ Gained(asset, "safety_fund") * One <= Spent(asset) * collectorConfig.fees.safety_fund
    /\ Gained(asset, "treasury") * One <= Spent(asset) * collectorConfig.fees.treasury
    /\ Gained(asset, "staking") =
         Spent(asset) - (Gained(asset, "safety_fund") + Gained(asset, "treasury"))

\* A distribution pays each recipient its part, at three addresses.
LEMMA DistributionShares ==
  ASSUME FeesAreValid, FundsInv, NEW paid \in Assets \ Natives, NEW amount \in Nat,
         DistributeProtocolRewards(paid, amount), Known(Recipients), Apart
  PROVE  Shared(paid)
<1>1. PICK parts : parts = Parts(amount)
  OBVIOUS
<1>2. /\ IsFiniteSet(Recipients) /\ \A c \in Recipients : parts[c] \in Nat
      /\ parts["safety_fund"] = FeeShare(amount, collectorConfig.fees.safety_fund)
      /\ parts["treasury"] = FeeShare(amount, collectorConfig.fees.treasury)
      /\ parts["staking"] = amount - (parts["safety_fund"] + parts["treasury"])
  BY <1>1, PartsAddUp
<1>3. ASSUME NEW c \in Recipients
      PROVE  Gained(paid, c) = parts[c]
  <2>1. PICK u \in Parties : u = QueryAddress(c)
    BY KnownIsParty DEF Known
  <2>2. PICK gain : gain = [d \in Recipients |-> IF QueryAddress(d) # u THEN 0
                                                  ELSE Sent(paid, Parts(amount)[d])]
    OBVIOUS
  <2>3. u # Collector /\ \A d \in Recipients : QueryAddress(d) = u => d = c
    BY <2>1, ApartMeans
  <2>4. Sent(paid, parts[c]) = parts[c]
    BY <1>2, CostWithin
  <2>5. gain[c] = parts[c] /\ \A d \in Recipients \ {c} : gain[d] = 0
    BY <1>1, <2>1, <2>2, <2>3, <2>4
  <2>6. Total(gain, Recipients) = parts[c]
    BY <1>2, <2>5, TotalOfOne
  <2>7. funds'[paid][u] = funds[paid][u] + Total(gain, Recipients)
    BY <2>2, <2>3 DEF DistributeProtocolRewards, FundsInv
  <2>8. funds[paid][u] \in Nat
    BY DEF FundsInv
  <2>9. \A had, has \in Nat : has = had + parts[c] => has - had = parts[c]
    BY <1>2
  <2> QED
    BY <1>2, <2>1, <2>6, <2>7, <2>8, <2>9 DEF Gained
<1>4. Spent(paid) = amount
  <2>1. DistributionCost(paid, amount) = amount
    BY DistributionWithin
  <2>2. /\ funds[paid][Collector] \in Nat
        /\ funds'[paid][Collector] = funds[paid][Collector] - DistributionCost(paid, amount)
    BY CollectorAssumptions DEF DistributeProtocolRewards, FundsInv
  <2> QED
    BY <2>1, <2>2 DEF Spent
<1>5. ASSUME NEW share \in Nat
      PROVE  FeeShare(amount, share) * One <= amount * share
  BY <1>5, OneAssumption, ProductType, DivFloor DEF FeeShare, Mul
<1>6. /\ collectorConfig.fees.safety_fund \in Nat /\ collectorConfig.fees.treasury \in Nat
      /\ "safety_fund" \in Recipients /\ "treasury" \in Recipients /\ "staking" \in Recipients
  BY DEF FeesAreValid, Recipients
<1> QED
  BY <1>2, <1>3, <1>4, <1>5, <1>6 DEF Shared

\* Where nothing comes to the address of staking there is nothing to share.
LEMMA NothingToShare ==
  ASSUME NEW asset, NEW had \in Nat, NEW has \in Int, has <= had,
         had = funds[asset][QueryAddress("staking")],
         has = funds'[asset][QueryAddress("staking")]
  PROVE  Shared(asset)
BY DEF Shared, Gained

\* What a transfer costs is an amount.
LEMMA CostType ==
  ASSUME NEW asset, NEW amount \in Nat
  PROVE  Cost(asset, amount) \in Nat
<1>1. Mul(amount, TaxRate) \in Nat /\ TaxCap \in Nat
  BY TaxAssumptions, MulType
<1>2. Charged(amount) \in Nat
  BY <1>1 DEF Charged, SmallerOf
<1> QED
  BY <1>2 DEF Cost, CostOf

\* A payment gives to nobody but its recipient.
LEMMA PayGives ==
  ASSUME FundsInv, NEW contract \in Parties, NEW recipient \in Parties, NEW asset \in Assets,
         NEW amount \in Nat, Pay(contract, recipient, asset, amount)
  PROVE  /\ funds' \in [Assets -> [Parties -> Nat]]
         /\ \A a \in Assets : \A u \in Parties \ {recipient} : funds'[a][u] <= funds[a][u]
<1>1. PICK cost, row, after :
        /\ cost = Cost(asset, amount) /\ row = funds[asset]
        /\ after = [row EXCEPT ![contract] = @ - cost, ![recipient] = @ + amount]
  OBVIOUS
<1>2. /\ cost \in Nat /\ row \in [Parties -> Nat] /\ cost <= row[contract]
      /\ contract # recipient
  BY <1>1, CostType DEF Pay, Balance, FundsInv
<1>3. /\ after \in [Parties -> Nat]
      /\ \A u \in Parties \ {recipient} : after[u] <= row[u]
  BY <1>1, <1>2
<1>4. funds' = [funds EXCEPT ![asset] = after]
  BY <1>1 DEF Pay, FundsInv
<1> QED
  BY <1>1, <1>3, <1>4 DEF FundsInv

\* So does a withdrawal from the red bank, to the collector.
LEMMA WithdrawalGives ==
  ASSUME FundsInv, NEW asset \in Assets, NEW amount \in Nat, WithdrawFromRedBank(asset, amount)
  PROVE  /\ funds' \in [Assets -> [Parties -> Nat]]
         /\ \A a \in Assets : \A u \in Parties \ {Collector} : funds'[a][u] <= funds[a][u]
<1>1. PICK row, after : row = funds[asset] /\ after = [row EXCEPT ![Collector] = @ + amount]
  OBVIOUS
<1>2. row \in [Parties -> Nat] /\ Collector \in Parties
  BY <1>1, CollectorAssumptions DEF FundsInv
<1>3. after \in [Parties -> Nat] /\ \A u \in Parties \ {Collector} : after[u] <= row[u]
  BY <1>1, <1>2
<1>4. funds' = [funds EXCEPT ![asset] = after]
  BY <1>1 DEF WithdrawFromRedBank, FundsInv
<1> QED
  BY <1>1, <1>3, <1>4 DEF FundsInv

\* And an exchange.
LEMMA SwapGives ==
  ASSUME FundsInv, NEW asset \in Assets, NEW amount \in Nat, SwapAssetToUusd(asset, amount)
  PROVE  /\ funds' \in [Assets -> [Parties -> Nat]]
         /\ \A a \in Assets : \A u \in Parties \ {Collector} : funds'[a][u] <= funds[a][u]
<1>1. PICK bought \in Quantities :
        funds' = [funds EXCEPT ![asset][Collector] = @ - SwapCost(asset, amount),
                               ![Uusd][Collector] = @ + bought]
  BY DEF SwapAssetToUusd, ExecuteSwap
<1>2. PICK cost, sold, got :
        /\ cost = SwapCost(asset, amount)
        /\ sold = [funds[asset] EXCEPT ![Collector] = @ - cost]
        /\ got = [funds[Uusd] EXCEPT ![Collector] = @ + bought]
  OBVIOUS
<1>3. /\ cost \in Nat /\ bought \in Nat /\ Collector \in Parties /\ Uusd \in Assets
      /\ funds[asset] \in [Parties -> Nat] /\ funds[Uusd] \in [Parties -> Nat]
      /\ cost <= funds[asset][Collector] /\ asset # Uusd
  BY <1>2, CostType, CollectorAssumptions
     DEF SwapAssetToUusd, ExecuteSwap, SwapCost, Balance, FundsInv
<1>4. /\ sold \in [Parties -> Nat] /\ got \in [Parties -> Nat]
      /\ \A u \in Parties \ {Collector} : sold[u] <= funds[asset][u] /\ got[u] <= funds[Uusd][u]
  BY <1>2, <1>3
<1>5. funds' = [funds EXCEPT ![asset] = sold, ![Uusd] = got]
  BY <1>1, <1>2, <1>3 DEF FundsInv
<1> QED
  BY <1>3, <1>4, <1>5 DEF FundsInv

\* A distribution is of one asset, and leaves the ledgers naturals.
LEMMA DistributionGives ==
  ASSUME FeesAreValid, FundsInv, NEW asset \in Assets, NEW amount \in Nat,
         DistributeProtocolRewards(asset, amount)
  PROVE  /\ funds' \in [Assets -> [Parties -> Nat]]
         /\ \A a \in Assets \ {asset} : funds'[a] = funds[a]
<1>1. PICK cost, row : cost = DistributionCost(asset, amount) /\ row = funds[asset]
  OBVIOUS
<1> DEFINE Gain(u) == [c \in Recipients |-> IF QueryAddress(c) # u THEN 0
                                            ELSE Sent(asset, Parts(amount)[c])]
<1>2. PICK totals : totals = [u \in Parties |-> Total(Gain(u), Recipients)]
  OBVIOUS
<1>3. cost \in Nat /\ row \in [Parties -> Nat] /\ cost <= row[Collector]
  BY <1>1, DistributionWithin, CollectorAssumptions
     DEF DistributeProtocolRewards, Balance, FundsInv
<1>4. \A u \in Parties : totals[u] \in Nat
  <2> SUFFICES ASSUME NEW u \in Parties
               PROVE  Total(Gain(u), Recipients) \in Nat
    BY <1>2
  <2>1. IsFiniteSet(Recipients) /\ \A c \in Recipients : Parts(amount)[c] \in Nat
    BY PartsAddUp
  <2>2. \A c \in Recipients : Gain(u)[c] \in Nat
    BY <2>1, CostWithin
  <2> HIDE DEF Gain
  <2> QED
    BY <2>1, <2>2, TotalType
<1>5. PICK after : after = [u \in Parties |-> IF u = Collector THEN row[u] - cost
                                              ELSE row[u] + totals[u]]
  OBVIOUS
<1>6. after \in [Parties -> Nat]
  BY <1>3, <1>4, <1>5
<1>7. funds' = [funds EXCEPT ![asset] = after]
  BY <1>1, <1>2, <1>5 DEF DistributeProtocolRewards, FundsInv
<1> QED
  BY <1>6, <1>7 DEF FundsInv

\* Whoever sets the addresses, those of the recipients stay among them.
LEMMA AddressesAfter ==
  /\ \A owner : provider' = Instantiated(owner) => AddressesInv'
  /\ AddressesInv /\ UNCHANGED provider => AddressesInv'
  /\ \A sender, owner :
       UpdateAddresses(sender, owner, ScriptAddresses) => AddressesInv'
  /\ \A sender, owner : \A params \in AddressParams :
       AddressesInv /\ UpdateAddresses(sender, owner, params) => AddressesInv'
<1>0. Recipients \subseteq Contracts
  BY DEF Recipients, Contracts
<1>1. ASSUME NEW owner, provider' = Instantiated(owner)
      PROVE  AddressesInv'
  BY <1>0, <1>1 DEF AddressesInv, QueryAddress, Instantiated
<1>2. ASSUME AddressesInv, UNCHANGED provider
      PROVE  AddressesInv'
  BY <1>2 DEF AddressesInv, QueryAddress
<1>3. ASSUME NEW sender, NEW owner, UpdateAddresses(sender, owner, ScriptAddresses)
      PROVE  AddressesInv'
  <2>1. \A c \in Recipients : c \in Contracts /\ c # "protocol_admin"
    BY DEF Recipients, Contracts
  <2>2. \A c \in Recipients : provider'.address[c] = c
    BY <1>3, <2>1 DEF UpdateAddresses, Updated, ScriptAddresses
  <2> QED
    BY <2>2 DEF AddressesInv, QueryAddress, SetAddressesOf
<1>4. ASSUME NEW sender, NEW owner, NEW params \in AddressParams, AddressesInv,
             UpdateAddresses(sender, owner, params)
      PROVE  AddressesInv'
  <2>1. \A c \in Recipients : provider'.address[c] = IF c \in DOMAIN params THEN params[c]
                                                     ELSE provider.address[c]
    BY <1>0, <1>4 DEF UpdateAddresses, Updated
  <2>2. \A c \in Recipients : c \in DOMAIN params => params[c] \in SetAddressesOf(c)
    BY DEF SetAddressesOf
  <2> QED
    BY <1>4, <2>1, <2>2 DEF AddressesInv, QueryAddress
<1> QED
  BY <1>1, <1>2, <1>3, <1>4

\* No transaction of the script moves revenue.
LEMMA TransactionLeavesFunds ==
  ASSUME AddressesInv, NEW t, Transact(t)
  PROVE  AddressesInv' /\ UNCHANGED funds
<1>1. ASSUME NEW c, Instantiate(c)
      PROVE  AddressesInv' /\ UNCHANGED funds
  BY <1>1, AddressesAfter DEF Instantiate
<1>2. CASE SetAddresses
  BY <1>2, AddressesAfter DEF SetAddresses, collectorVars
<1>3. ASSUME NEW c, UpdateOwner(c)
      PROVE  AddressesInv' /\ UNCHANGED funds
  BY <1>3, AddressesAfter DEF UpdateOwner
<1>4. ASSUME \/ SetMinter \/ EnableAsset(t.of) \/ SetPrice(t.of) \/ InitAsset(t.of)
             \/ SetLimit(t.of)
      PROVE  AddressesInv' /\ UNCHANGED funds
  BY <1>4, AddressesAfter
     DEF SetMinter, EnableAsset, SetPrice, InitAsset, SetLimit, collectorVars
<1> QED
  BY <1>1, <1>2, <1>3, <1>4 DEF Transact

\* Who gets nothing has nothing to share.
LEMMA NotToStaking ==
  ASSUME FundsInv, Known(Recipients), funds' \in [Assets -> [Parties -> Nat]],
         NEW recipient, recipient # QueryAddress("staking"),
         \A a \in Assets : \A u \in Parties \ {recipient} : funds'[a][u] <= funds[a][u]
  PROVE  \A asset \in Assets : Shared(asset)
<1>1. PICK u \in Parties : u = QueryAddress("staking")
  BY KnownIsParty DEF Known, Recipients
<1>2. \A asset \in Assets : /\ funds[asset][u] \in Nat /\ funds'[asset][u] \in Int
                            /\ funds'[asset][u] <= funds[asset][u]
  BY <1>1 DEF FundsInv
<1> QED
  BY <1>1, <1>2, NothingToShare

\* What a step keeps of the funds, and how it shares an asset without tax.
SharedStep ==
  /\ funds' \in [Assets -> [Parties -> Nat]]
  /\ Known(Recipients) /\ Apart => \A asset \in Assets \ Natives : Shared(asset)

\* Where no balance moves nothing is shared.
LEMMA FundsUntouched ==
  ASSUME FundsInv, UNCHANGED funds
  PROVE  SharedStep
<1>1. funds' \in [Assets -> [Parties -> Nat]]
  BY DEF FundsInv
<1>2. \A a \in Assets : \A u \in Parties \ {Collector} : funds'[a][u] <= funds[a][u]
  BY DEF FundsInv
<1>3. ASSUME Known(Recipients), Apart
      PROVE  \A asset \in Assets : Shared(asset)
  <2>1. Collector # QueryAddress("staking")
    BY <1>3, ApartMeans DEF Recipients
  <2> QED
    BY <1>1, <1>2, <1>3, <2>1, NotToStaking
<1> QED
  BY <1>1, <1>3 DEF SharedStep

\* What anybody may have the collector do.
LEMMA RevenueShares ==
  ASSUME FeesAreValid, FundsInv, RevenueStep
  PROVE  SharedStep
<1>1. PICK asset \in Assets :
        \/ \E amount \in Quantities : WithdrawFromRedBank(asset, amount)
        \/ \E amount \in Requested(asset) :
             DistributeProtocolRewards(asset, amount) \/ SwapAssetToUusd(asset, amount)
  BY DEF RevenueStep
<1>2. Requested(asset) \subseteq Nat /\ Quantities \subseteq Nat
  <2>1. funds[asset][Collector] \in Nat
    BY CollectorAssumptions DEF FundsInv
  <2> QED
    BY <2>1, CollectorAssumptions DEF Requested, Balance
<1>3. ASSUME NEW amount \in Nat,
             WithdrawFromRedBank(asset, amount) \/ SwapAssetToUusd(asset, amount)
      PROVE  SharedStep
  <2>1. /\ funds' \in [Assets -> [Parties -> Nat]]
        /\ \A a \in Assets : \A u \in Parties \ {Collector} : funds'[a][u] <= funds[a][u]
    BY <1>3, WithdrawalGives, SwapGives
  <2>2. ASSUME Known(Recipients), Apart
        PROVE  \A a \in Assets : Shared(a)
    <3>1. Collector # QueryAddress("staking")
      BY <2>2, ApartMeans DEF Recipients
    <3> QED
      BY <2>1, <2>2, <3>1, NotToStaking
  <2> QED
    BY <2>1, <2>2 DEF SharedStep
<1>4. ASSUME NEW amount \in Nat, DistributeProtocolRewards(asset, amount)
      PROVE  SharedStep
  <2>1. /\ funds' \in [Assets -> [Parties -> Nat]]
        /\ \A a \in Assets \ {asset} : funds'[a] = funds[a]
    BY <1>4, DistributionGives
  <2>2. ASSUME Known(Recipients), Apart, NEW a \in Assets \ Natives
        PROVE  Shared(a)
    <3>1. CASE a = asset
      BY <1>4, <2>2, <3>1, DistributionShares
    <3>2. CASE a # asset
      <4>1. PICK u \in Parties : u = QueryAddress("staking")
        BY <2>2, KnownIsParty DEF Known, Recipients
      <4>2. funds[a][u] \in Nat /\ funds'[a][u] = funds[a][u]
        BY <2>1, <2>2, <3>2 DEF FundsInv
      <4> QED
        BY <4>1, <4>2, NothingToShare
    <3> QED
      BY <3>1, <3>2
  <2> QED
    BY <2>1, <2>2 DEF SharedStep
<1> QED
  BY <1>1, <1>2, <1>3, <1>4

\* The owners have the funds and the collector pay themselves.
LEMMA OwnersShare ==
  ASSUME OwnersDoNotReceive, FundsInv, CouncilStep
  PROVE  SharedStep
<1>1. /\ Collector \in Parties /\ "safety_fund" \in Parties /\ "treasury" \in Parties
      /\ "council" \in Parties /\ NextOwners \subseteq Parties /\ Quantities \subseteq Nat
  BY CollectorAssumptions, DeploymentAssumptions DEF Recipients
<1>2. ASSUME NEW contract \in Parties, NEW recipient \in {"council"} \cup NextOwners,
             NEW asset \in Assets, NEW amount \in Quantities,
             Pay(contract, recipient, asset, amount)
      PROVE  SharedStep
  <2>1. recipient \in Parties /\ amount \in Nat
    BY <1>1
  <2>2. /\ funds' \in [Assets -> [Parties -> Nat]]
        /\ \A a \in Assets : \A u \in Parties \ {recipient} : funds'[a][u] <= funds[a][u]
    BY <1>2, <2>1, PayGives
  <2>3. ASSUME Known(Recipients), Apart
        PROVE  \A a \in Assets : Shared(a)
    <3>1. QueryAddress("staking") # "council"
      BY <2>3, ApartMeans DEF Recipients
    <3>2. QueryAddress("staking") \in SetAddressesOf("staking")
      BY <2>3, KnownIsParty DEF Known, Recipients
    <3>3. \A o \in NextOwners : o \notin SetAddressesOf("staking")
      BY DEF OwnersDoNotReceive, Recipients
    <3>4. recipient # QueryAddress("staking")
      BY <3>1, <3>2, <3>3
    <3> QED
      BY <2>2, <2>3, <3>4, NotToStaking
  <2> QED
    BY <2>2, <2>3 DEF SharedStep
<1>3. ASSUME UNCHANGED funds
      PROVE  SharedStep
  BY <1>3, FundsUntouched
<1>4. ASSUME NEW asset \in Assets,
             \/ UpdateCollectorConfig("council") \/ UpdateAssetConfig("council", asset)
             \/ UNCHANGED collectorVars
      PROVE  SharedStep
  BY <1>3, <1>4 DEF UpdateCollectorConfig, UpdateAssetConfig, collectorVars
<1>5. ASSUME NEW asset \in Assets, NEW amount \in Quantities,
             CollectorExecute("council", asset, amount)
      PROVE  SharedStep
  BY <1>1, <1>2, <1>5 DEF CollectorExecute
<1>6. ASSUME NEW sender \in {"council"} \cup NextOwners, SafetyFundStep(sender)
      PROVE  SharedStep
  BY <1>1, <1>2, <1>3, <1>6 DEF SafetyFundStep, SafetyFundExecute, NewOwner, collectorVars
<1>7. ASSUME NEW sender \in {"council"} \cup NextOwners, TreasuryStep(sender)
      PROVE  SharedStep
  BY <1>1, <1>2, <1>3, <1>7
     DEF TreasuryStep, TreasuryExecute, TreasuryConfig, NewOwner, collectorVars
<1>8. ASSUME NEW owner, IncentivesConfig("council", owner)
      PROVE  SharedStep
  BY <1>3, <1>8 DEF IncentivesConfig, NewOwner, collectorVars
<1>9. Uusd \in Assets
  BY CollectorAssumptions
<1> QED
  BY <1>4, <1>5, <1>6, <1>7, <1>8, <1>9 DEF CouncilStep

\* A new collector has nothing yet.
LEMMA NoFundsShared ==
  ASSUME FundsInv, funds' = NoFunds
  PROVE  SharedStep
<1>1. funds' \in [Assets -> [Parties -> Nat]] /\ \A a \in Assets : \A u \in Parties : funds'[a][u] = 0
  BY DEF NoFunds
<1>2. \A a \in Assets : \A u \in Parties : funds'[a][u] <= funds[a][u]
  BY <1>1 DEF FundsInv
<1>3. ASSUME Known(Recipients), Apart
      PROVE  \A a \in Assets : Shared(a)
  <2>1. Collector # QueryAddress("staking")
    BY <1>3, ApartMeans DEF Recipients
  <2> QED
    BY <1>1, <1>2, <1>3, <2>1, NotToStaking
<1> QED
  BY <1>1, <1>3 DEF SharedStep

\* The invariant with which every step shares what it distributes.
LEMMA EveryStepShares ==
  ASSUME OwnersDoNotReceive, FeesAreValid, FundsInv, [Next]_vars
  PROVE  SharedStep /\ FundsInv'
<1>1. AddressesInv
  BY DEF FundsInv
<1>2. ASSUME SharedStep, AddressesInv'
      PROVE  SharedStep /\ FundsInv'
  BY <1>2 DEF SharedStep, FundsInv
<1>3. CASE UNCHANGED vars
  BY <1>1, <1>2, <1>3, FundsUntouched, AddressesAfter DEF vars, collectorVars
<1>4. CASE Perform
  BY <1>1, <1>2, <1>4, FundsUntouched, TransactionLeavesFunds DEF Perform
<1>5. CASE Fail
  <2>1. CASE Transact(Script[next])
    BY <1>1, <1>2, <2>1, FundsUntouched, TransactionLeavesFunds
  <2>2. CASE UNCHANGED <<chainVars, provider, collectorVars>>
    BY <1>1, <1>2, <2>2, FundsUntouched, AddressesAfter DEF collectorVars
  <2> QED
    BY <1>5, <2>1, <2>2 DEF Fail
<1>6. CASE Rerun
  BY <1>1, <1>2, <1>6, NoFundsShared, AddressesAfter DEF Rerun
<1>7. CASE RevenueStep
  <2>1. UNCHANGED provider
    BY <1>7, RevenueLeaves
  <2> QED
    BY <1>1, <1>2, <1>7, <2>1, RevenueShares, AddressesAfter
<1>8. CASE CouncilStep
  <2>1. ASSUME NEW params \in AddressParams, UpdateAddresses("council", "council", params)
        PROVE  AddressesInv'
    BY <1>1, <2>1, AddressesAfter
  <2>2. ASSUME UNCHANGED provider
        PROVE  AddressesInv'
    BY <1>1, <2>2, AddressesAfter
  <2>3. AddressesInv'
    BY <1>8, <2>1, <2>2
       DEF CouncilStep, UpdateCollectorConfig, UpdateAssetConfig, CollectorExecute,
           SafetyFundStep, SafetyFundExecute, TreasuryStep, TreasuryExecute, TreasuryConfig,
           IncentivesConfig, NewOwner, Pay
  <2> QED
    BY <1>2, <1>8, <2>3, OwnersShare
<1> QED
  BY <1>3, <1>4, <1>5, <1>6, <1>7, <1>8 DEF Next

\* Of an asset without tax the safety fund and the treasury get no more than
\* their shares of what is distributed, and staking gets the rest: for any shares
\* and amounts, whatever the council does with the addresses, the shares and the
\* funds, as long as no later owner of a fund is paid at a recipient's address.
THEOREM RewardsGoToTheirShares ==
  ASSUME OwnersDoNotReceive
  PROVE  Spec => RewardsAreShared
<1> DEFINE Fair == Known(Recipients) /\ Apart => \A asset \in Assets \ Natives : Shared(asset)
<1>1. Init => FeesAreValid /\ FundsInv
  <2> SUFFICES ASSUME Init
               PROVE  FundsInv
    BY FeesInitially
  <2>1. \A c \in Recipients : c \in Contracts
    BY DEF Recipients, Contracts
  <2> QED
    BY <2>1 DEF Init, NoFunds, FundsInv, AddressesInv, QueryAddress, Instantiated
<1>2. FeesAreValid /\ FundsInv /\ [Next]_vars => FeesAreValid' /\ FundsInv'
  BY DeploymentKeepsFees, EveryStepShares
<1>3. FeesAreValid /\ FundsInv /\ [Next]_vars => [Fair]_vars
  BY EveryStepShares DEF SharedStep
<1>4. Spec => [][Fair]_vars
  BY <1>1, <1>2, <1>3, PTL DEF Spec
<1>5. Fair => \A asset \in Assets \ Natives :
         LET gained(c) == funds'[asset][QueryAddress(c)] - funds[asset][QueryAddress(c)]
             spent == funds[asset][Collector] - funds'[asset][Collector]
             fees == collectorConfig.fees
         IN  Known(Recipients)
               /\ Cardinality({QueryAddress(c) : c \in Recipients} \ {Collector, "council"}) = 3
               /\ gained("staking") > 0 =>
                 /\ gained("safety_fund") * One <= spent * fees.safety_fund
                 /\ gained("treasury") * One <= spent * fees.treasury
                 /\ gained("staking") = spent - (gained("safety_fund") + gained("treasury"))
  BY DEF Shared, Gained, Spent, Apart
<1> QED
  BY <1>4, <1>5, PTL DEF RewardsAreShared

=============================================================================
