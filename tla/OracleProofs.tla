---------------------------- MODULE OracleProofs ----------------------------
(***************************************************************************)
(* What the oracle guarantees for any sources, pairs, windows and          *)
(* tolerances: the snapshots stay few, recording one takes nothing from an *)
(* average, and an average lies between the prices of its window.  And no  *)
(* price changes on its way to another contract, which reads the text it   *)
(* is printed as, nor when it is stored and loaded again.                  *)
(***************************************************************************)
EXTENDS Oracle, DecimalText, CommonProofs

-----------------------------------------------------------------------------
(* Decimals as texts. *)

\* Division with remainder.
LEMMA Divided ==
  ASSUME NEW a \in Nat, NEW b \in Nat \ {0}
  PROVE  /\ a \div b \in Nat /\ a % b \in 0 .. b - 1
         /\ a = ((a \div b) * b) + (a % b)
  BY SMT

LEMMA DividedEvenly ==
  ASSUME NEW a \in Nat, NEW b \in Nat \ {0}, a % b = 0
  PROVE  a \div b \in Nat /\ (a \div b) * b = a
  <1> DEFINE q == a \div b
             r == a % b
  <1>1. q \in Nat /\ r = 0 /\ a = (q * b) + r
    BY Divided
  <1> HIDE DEF q, r
  <1>2. q * b \in Nat
    BY <1>1
  <1>3. q * b = a
    BY <1>1, <1>2
  <1> QED
    BY <1>1, <1>3 DEF q

\* A fraction has a number of digits, and is made of them.
LEMMA DigitsSuffice ==
  ASSUME DecimalTextAssumptions, NEW f \in Nat
  PROVE  /\ DigitsOf(f) \in 0 .. Places
         /\ f % Tens[Places - DigitsOf(f)] = 0
  <1> DEFINE T == {n \in 0 .. Places : f % Tens[Places - n] = 0}
  <1>1. Places \in T /\ T \subseteq Nat
    <2>1. f % 1 = 0
      BY SMT
    <2> QED
      BY <2>1 DEF DecimalTextAssumptions
  <1>2. PICK n \in T : \A m \in T : n <= m
    BY <1>1, LeastOfSome
  <1>3. \A fewer \in 0 .. n - 1 : f % Tens[Places - fewer] # 0
    <2>1. \A fewer \in 0 .. n - 1 : fewer \in 0 .. Places /\ fewer \notin T
      BY <1>1, <1>2 DEF DecimalTextAssumptions
    <2> QED
      BY <2>1
  <1> QED
    BY <1>2, <1>3 DEF DigitsOf

LEMMA FractionFromDigits ==
  ASSUME DecimalTextAssumptions, NEW f \in 1 .. One - 1
  PROVE  /\ DigitsOf(f) \in 1 .. Places
         /\ (f \div Tens[Places - DigitsOf(f)]) * Tens[Places - DigitsOf(f)] = f
  <1> DEFINE t == Tens[Places - DigitsOf(f)]
  <1>1. f \in Nat /\ One \in Nat \ {0} /\ Places \in Nat
    BY OneAssumption DEF DecimalTextAssumptions
  <1>2. DigitsOf(f) \in 0 .. Places /\ f % t = 0
    BY <1>1, DigitsSuffice
  <1>3. t \in Nat \ {0}
    BY <1>1, <1>2 DEF DecimalTextAssumptions
  <1>4. (f \div t) * t = f
    <2> HIDE DEF t
    <2> QED
      BY <1>1, <1>2, <1>3, DividedEvenly
  <1>5. DigitsOf(f) # 0
    <2>1. f % One = f
      BY <1>1
    <2>2. DigitsOf(f) = 0 => t = One
      BY <1>1 DEF DecimalTextAssumptions
    <2> QED
      BY <1>2, <2>1, <2>2
  <1> QED
    BY <1>1, <1>2, <1>4, <1>5

\* Whatever Decimal is written, in a message, in a record or for the Decimal of
\* cosmwasm_std, the same is read: no trailing zero that is cut off and no zero
\* in front of the digits gets lost, and nothing is rounded.
THEOREM DecimalsSurvive ==
  ASSUME DecimalTextAssumptions, NEW d \in 0 .. MaxAtomics
  PROVE  Transmitted(d) = d
  <1> DEFINE f == d % One
             w == d \div One
  <1>1. One \in Nat \ {0} /\ Places \in Nat /\ MaxAtomics \in Nat /\ d \in Nat
    BY OneAssumption DEF DecimalTextAssumptions
  <1>2. w \in Nat /\ f \in 0 .. One - 1 /\ d = (w * One) + f
    BY <1>1, Divided
  <1>3. CASE f = 0
    <2>1. Format(d) = [whole |-> w, parts |-> << >>]
      BY <1>3 DEF Format
    <2>2. w * One = d
      BY <1>1, <1>2, <1>3
    <2> QED
      BY <1>1, <2>1, <2>2 DEF Transmitted, Parse
  <1>4. CASE f # 0
    <2> DEFINE n == DigitsOf(f)
               number == f \div Tens[Places - n]
    <2>1. f \in 1 .. One - 1
      BY <1>1, <1>2, <1>4
    <2>2. n \in 1 .. Places /\ number * Tens[Places - n] = f
      BY <2>1, FractionFromDigits
    <2>3. Format(d) = [whole |-> w, parts |-> << [number |-> number, digits |-> n] >>]
      BY <1>4 DEF Format
    <2> HIDE DEF f, w, n, number
    <2>4. (w * One) + (number * Tens[Places - n]) = d
      BY <1>2, <2>2
    <2>5. Parse(Format(d)) = d
      <3> DEFINE text == [whole |-> w, parts |-> << [number |-> number, digits |-> n] >>]
      <3>1. /\ Len(text.parts) = 1 /\ text.parts # << >> /\ text.whole = w
            /\ text.parts[1].number = number /\ text.parts[1].digits = n
        OBVIOUS
      <3> HIDE DEF text
      <3>2. Parse(text) = IF n \in 1 .. Places /\ d <= MaxAtomics THEN d ELSE NotADecimal
        BY <2>4, <3>1 DEF Parse
      <3> QED
        BY <2>2, <2>3, <3>2 DEF text
    <2> QED
      BY <2>5 DEF Transmitted
  <1> QED
    BY <1>3, <1>4

-----------------------------------------------------------------------------
(* Types, and how far the snapshots of an asset lie apart. *)

SnapshotBy(time) == [timestamp : 0 .. time, price_cumulative : 0 .. Wrap - 1]
TwapsOf(asset) == {s \in Offered[asset] \cup {Configured[asset]} : IsTwap(s)}

\* What is no more than the tolerance of every source an asset may have, and
\* what is no less than the age up to which any of them keeps a snapshot.
Bounds(asset, least, span) ==
  \A s \in TwapsOf(asset) : s.tolerance >= least /\ s.window_size + s.tolerance <= span

Spread(taken, least, span) ==
  \A j, k \in 1 .. Len(taken) :
    j <= k => /\ least * (k - j) <= taken[k].timestamp - taken[j].timestamp
              /\ taken[k].timestamp - taken[j].timestamp <= span

SnapshotsAreSpread ==
  \A a \in Assets : \A least, span \in Nat :
    Bounds(a, least, span) => Spread(snapshots[a], least, span)

\* The inductive invariant.
OracleInv ==
  /\ TypeOK
  /\ DOMAIN sources = Assets
  /\ spot \in [Pairs -> Nat \ {0}]
  /\ SnapshotsAreSpread

\* What the invariant says of times.
LEMMA Times ==
  ASSUME OracleInv
  PROVE  now \in Nat /\ snapshots \in [Assets -> Seq(SnapshotBy(now))]
<1>1. now \in Nat
  BY OracleAssumptions DEF OracleInv, TypeOK
<1> QED
  BY <1>1 DEF OracleInv, TypeOK, SnapshotBy

\* A source of averages is one that the asset may have.
LEMMA TwapTypes ==
  ASSUME OracleInv, NEW a \in Assets, IsTwap(sources[a])
  PROVE  /\ sources[a] \in TwapsOf(a)
         /\ sources[a].tolerance \in Nat /\ sources[a].window_size \in Nat
         /\ CumulativePrice(sources[a].pair) \in 0 .. Wrap - 1
<1>1. sources[a] \in TwapsOf(a)
  BY DEF OracleInv, TypeOK, TwapsOf
<1>2. /\ sources[a].kind = "astroport_twap"
      /\ sources[a] \in Offered[a] \cup ({Configured[a]} \ {NoSource})
  BY <1>1 DEF TwapsOf, IsTwap
<1>3. /\ sources[a].tolerance \in Nat /\ sources[a].window_size \in Nat
      /\ sources[a].pair \in Pairs
  BY <1>2, OracleAssumptions
<1>4. CumulativePrice(sources[a].pair) \in 0 .. Wrap - 1
  BY <1>3 DEF OracleInv, TypeOK, CumulativePrice, NotUst
<1> QED
  BY <1>1, <1>3, <1>4

\* A snapshot that is taken comes after those that are still of use.
LEMMA RecordedShape ==
  ASSUME OracleInv, NEW a \in Assets, IsTwap(sources[a]),
         ~ Recorded(a, snapshots[a]) = snapshots[a]
  PROVE  \E kept, snapshot, from :
           /\ kept \in Seq(SnapshotBy(now)) /\ snapshot \in SnapshotBy(now)
           /\ Due(a, snapshots[a])
           /\ snapshot.timestamp = now
           /\ snapshot.price_cumulative = CumulativePrice(sources[a].pair)
           /\ IsPicked(kept, snapshots[a],
                       {i \in DOMAIN snapshots[a] : StillOfUse(a, snapshots[a][i])},
                       Len(snapshots[a]), from)
           /\ Recorded(a, snapshots[a]) = Append(kept, snapshot)
<1>1. PICK taken, places : /\ taken = snapshots[a]
                           /\ places = {i \in DOMAIN taken : StillOfUse(a, taken[i])}
  OBVIOUS
<1>2. taken \in Seq(SnapshotBy(now)) /\ now \in Nat
  BY <1>1, Times
<1>3. PICK kept : kept = Retained(taken, places)
  OBVIOUS
<1>4. kept \in Seq(SnapshotBy(now)) /\ \E from : IsPicked(kept, taken, places, Len(taken), from)
  BY <1>2, <1>3, RetainedIsPicked
<1>5. PICK snapshot : snapshot = [timestamp |-> now,
                                  price_cumulative |-> CumulativePrice(sources[a].pair)]
  OBVIOUS
<1>6. /\ snapshot \in SnapshotBy(now) /\ snapshot.timestamp = now
      /\ snapshot.price_cumulative = CumulativePrice(sources[a].pair)
  BY <1>2, <1>5, TwapTypes DEF SnapshotBy
<1>7. Due(a, taken) /\ Recorded(a, taken) = Append(kept, snapshot)
  BY <1>1, <1>3, <1>5 DEF Recorded
<1> QED
  BY <1>1, <1>4, <1>6, <1>7

\* A bound on the differences is one on multiples.
LEMMA Apart ==
  ASSUME NEW least \in Nat, NEW m \in Nat, NEW n \in Nat, m <= n
  PROVE  least * m <= least * n /\ least * m \in Nat /\ least * (m + 1) = least * m + least
  BY SMT

\* The snapshots stay apart when one is taken.
LEMMA RecordedSpread ==
  ASSUME OracleInv, NEW a \in Assets, IsTwap(sources[a]),
         NEW least \in Nat, NEW span \in Nat, Bounds(a, least, span)
  PROVE  Spread(Recorded(a, snapshots[a]), least, span)
<1>1. Spread(snapshots[a], least, span)
  BY DEF OracleInv, SnapshotsAreSpread
<1>2. SUFFICES ASSUME ~ Recorded(a, snapshots[a]) = snapshots[a]
               PROVE  Spread(Recorded(a, snapshots[a]), least, span)
  BY <1>1
<1>3. PICK taken, after : taken = snapshots[a] /\ after = Recorded(a, snapshots[a])
  OBVIOUS
<1>4. PICK kept, snapshot, from :
        /\ kept \in Seq(SnapshotBy(now)) /\ snapshot \in SnapshotBy(now)
        /\ Due(a, taken)
        /\ snapshot.timestamp = now
        /\ IsPicked(kept, taken, {i \in DOMAIN taken : StillOfUse(a, taken[i])}, Len(taken), from)
        /\ after = Append(kept, snapshot)
  BY <1>2, <1>3, RecordedShape
<1>5. taken \in Seq(SnapshotBy(now)) /\ now \in Nat
  BY <1>3, Times
<1>6. PICK len, last : len = Len(kept) /\ last = Len(taken)
  OBVIOUS
<1>7. len \in Nat /\ last \in Nat
  BY <1>4, <1>5, <1>6, LenProperties
<1>8. /\ Len(after) = len + 1 /\ after[len + 1].timestamp = now
      /\ \A k \in 1 .. len : after[k] = kept[k]
  BY <1>4, <1>6, AppendProperties
<1>9. \A k \in 1 .. last : taken[k].timestamp \in 0 .. now
  <2>1. \A k \in 1 .. last : taken[k] \in SnapshotBy(now)
    BY <1>5, <1>6, ElementOfSeq
  <2> QED
    BY <2>1 DEF SnapshotBy
<1>10. /\ \A k \in 1 .. len : /\ from[k] \in 1 .. last
                              /\ kept[k] = taken[from[k]] /\ StillOfUse(a, kept[k])
       /\ \A j, k \in 1 .. len : j <= k => from[k] - from[j] >= k - j
  BY <1>4, <1>6 DEF IsPicked
<1>11. PICK tolerance, window : /\ tolerance = sources[a].tolerance
                                /\ window = sources[a].window_size
  OBVIOUS
<1>12. /\ tolerance \in Nat /\ window \in Nat /\ tolerance >= least /\ window + tolerance <= span
       /\ \A k \in 1 .. len : now - kept[k].timestamp <= window + tolerance
       /\ last # 0 => now - taken[last].timestamp >= tolerance
  <2>1. sources[a] \in TwapsOf(a) /\ tolerance \in Nat /\ window \in Nat
    BY <1>11, TwapTypes
  <2>2. last # 0 => taken # << >>
    BY <1>6, EmptySeq
  <2> QED
    BY <1>4, <1>6, <1>10, <1>11, <2>1, <2>2 DEF Bounds, StillOfUse, Due, Last
<1>13. ASSUME NEW j \in 1 .. len + 1, NEW k \in 1 .. len + 1, j <= k
       PROVE  /\ least * (k - j) <= after[k].timestamp - after[j].timestamp
              /\ after[k].timestamp - after[j].timestamp <= span
  <2>1. CASE j = len + 1 /\ k = len + 1
    <3>1. least * 0 = 0
      OBVIOUS
    <3> QED
      BY <1>5, <1>7, <1>8, <2>1, <3>1
  <2>2. CASE k \in 1 .. len
    <3>1. j \in 1 .. len
      BY <1>7, <1>13, <2>2
    <3>2. PICK p, q : p = from[j] /\ q = from[k]
      OBVIOUS
    <3>3. /\ p \in 1 .. last /\ q \in 1 .. last /\ q - p >= k - j
          /\ after[j] = taken[p] /\ after[k] = taken[q]
      BY <1>8, <1>10, <1>13, <2>2, <3>1, <3>2
    <3>4. /\ least * (q - p) <= taken[q].timestamp - taken[p].timestamp
          /\ taken[q].timestamp - taken[p].timestamp <= span
      BY <1>1, <1>3, <1>6, <1>7, <1>13, <3>1, <2>2, <3>3 DEF Spread
    <3>5. least * (k - j) <= least * (q - p) /\ least * (k - j) \in Nat
      <4>1. k - j \in Nat /\ q - p \in Nat /\ k - j <= q - p
        BY <1>7, <1>13, <2>2, <3>1, <3>3
      <4> QED
        BY <4>1, Apart
    <3>6. taken[q].timestamp \in Nat /\ taken[p].timestamp \in Nat /\ least * (q - p) \in Int
      BY <1>5, <1>7, <1>9, <3>3
    <3>7. PICK t, u, x, y : /\ t = taken[q].timestamp /\ u = taken[p].timestamp
                            /\ x = least * (k - j) /\ y = least * (q - p)
      OBVIOUS
    <3>8. x <= t - u /\ t - u <= span
      BY <3>4, <3>5, <3>6, <3>7
    <3> QED
      BY <3>3, <3>7, <3>8
  <2>3. CASE k = len + 1 /\ j \in 1 .. len
    <3>1. PICK p, q : p = from[j] /\ q = from[len]
      OBVIOUS
    <3>2. len \in 1 .. len /\ j <= len
      BY <1>7, <2>3
    <3>3. /\ p \in 1 .. last /\ q \in 1 .. last /\ q - p >= len - j
          /\ after[j] = taken[p] /\ kept[j] = taken[p]
      BY <1>8, <1>10, <2>3, <3>1, <3>2
    <3>4. last \in 1 .. last /\ p <= last /\ last # 0 /\ last - p >= len - j
      BY <1>7, <3>2, <3>3
    <3>5. least * (last - p) <= taken[last].timestamp - taken[p].timestamp
      BY <1>1, <1>3, <1>6, <3>3, <3>4 DEF Spread
    <3>6. /\ least * (len - j) <= least * (last - p)
          /\ least * ((len - j) + 1) = least * (len - j) + least
          /\ least * (len - j) \in Nat /\ (len - j) + 1 = k - j
      <4>1. len - j \in Nat /\ last - p \in Nat /\ len - j <= last - p
        BY <1>7, <2>3, <3>2, <3>3, <3>4
      <4> QED
        BY <1>7, <2>3, <4>1, Apart
    <3>7. taken[last].timestamp \in Nat /\ taken[p].timestamp \in Nat
      BY <1>5, <1>9, <3>3, <3>4, SMTT(30)
    <3>8. least * (last - p) \in Int
      BY <1>7, <3>3
    <3>9. now - taken[last].timestamp >= tolerance /\ now - taken[p].timestamp <= window + tolerance
      BY <1>12, <2>3, <3>3, <3>4
    <3>10. after[k].timestamp = now /\ after[j].timestamp = taken[p].timestamp
      BY <1>8, <2>3, <3>3
    <3>11. least * (k - j) = least * (len - j) + least
      BY <3>6
    <3>12. PICK t, u, x, y : /\ t = taken[last].timestamp /\ u = taken[p].timestamp
                             /\ x = least * (len - j) /\ y = least * (last - p)
      OBVIOUS
    <3>13. /\ t \in Nat /\ u \in Nat /\ x \in Nat /\ y \in Int /\ x <= y /\ y <= t - u
           /\ now - t >= tolerance /\ now - u <= window + tolerance
      BY <3>5, <3>6, <3>7, <3>8, <3>9, <3>12
    <3>14. x + least <= now - u /\ now - u <= span
      BY <1>5, <1>12, <3>13
    <3> QED
      BY <3>10, <3>11, <3>12, <3>14
  <2> QED
    BY <1>7, <2>1, <2>2, <2>3
<1> QED
  BY <1>3, <1>8, <1>13 DEF Spread

-----------------------------------------------------------------------------
(* The invariant is inductive. *)

LEMMA OracleInitially == Init => OracleInv
<1> SUFFICES ASSUME Init
             PROVE  OracleInv
  OBVIOUS
<1>1. TypeOK
  <2>1. now \in 0 .. MaxTime /\ owner \in Owners
    BY OracleAssumptions DEF Init
  <2>2. \A a \in Assets : sources[a] \in Offered[a] \cup {Configured[a]}
    BY DEF Init
  <2>3. snapshots \in [Assets -> Seq([timestamp : 0 .. now, price_cumulative : 0 .. Wrap - 1])]
    BY EmptySeq DEF Init
  <2>4. cumulative \in [Pairs -> [{1, 2} -> 0 .. Wrap - 1]]
    BY OracleAssumptions DEF Init
  <2> QED
    BY <2>1, <2>2, <2>3, <2>4 DEF TypeOK
<1>2. DOMAIN sources = Assets
  BY OracleAssumptions DEF Init
<1>3. spot \in [Pairs -> Nat \ {0}]
  BY OracleAssumptions DEF Init
<1>4. SnapshotsAreSpread
  <2>1. \A a \in Assets : snapshots[a] = << >>
    BY DEF Init
  <2>2. \A a \in Assets : \A least, span \in Nat : Spread(snapshots[a], least, span)
    BY <2>1 DEF Spread
  <2> QED
    BY <2>2 DEF SnapshotsAreSpread
<1> QED
  BY <1>1, <1>2, <1>3, <1>4 DEF OracleInv

\* Time adds to the cumulative prices what is left of the wrap.
LEMMA TickKeeps ==
  ASSUME OracleInv, Tick
  PROVE  OracleInv'
<1>1. now \in Nat /\ now' = now + 1 /\ now' \in 0 .. MaxTime
  BY OracleAssumptions, Times DEF Tick
<1>2. cumulative' \in [Pairs -> [{1, 2} -> 0 .. Wrap - 1]]
  <2>1. ASSUME NEW p \in Pairs, NEW i \in {1, 2}
        PROVE  (cumulative[p][i] + Mul(Precision, PairPrice(p, i))) % Wrap \in 0 .. Wrap - 1
    <3>1. spot[p] \in Nat \ {0} /\ cumulative[p][i] \in Nat
      BY OracleAssumptions DEF OracleInv, TypeOK
    <3>2. PairPrice(p, i) \in Nat
      BY <3>1, OneAssumption, DivType DEF PairPrice
    <3>3. Mul(Precision, PairPrice(p, i)) \in Nat
      BY <3>2, OracleAssumptions, MulType
    <3>4. PICK c : c = cumulative[p][i] + Mul(Precision, PairPrice(p, i))
      OBVIOUS
    <3>5. c \in Nat /\ Wrap \in Nat \ {0}
      BY <3>1, <3>3, <3>4, OracleAssumptions
    <3>6. c % Wrap \in 0 .. Wrap - 1
      BY <3>5, Divided
    <3> QED
      BY <3>4, <3>6
  <2>2. cumulative' = [p \in Pairs |-> [i \in {1, 2} |->
                         (cumulative[p][i] + Mul(Precision, PairPrice(p, i))) % Wrap]]
    BY DEF Tick
  <2> QED
    BY <2>1, <2>2
<1>3. spot' \in [Pairs -> Nat \ {0}]
  BY OracleAssumptions DEF Tick
<1>4. /\ owner' = owner /\ sources' = sources /\ snapshots' = snapshots
  BY DEF Tick, oracleVars
<1>5. snapshots \in [Assets -> Seq(SnapshotBy(now'))]
  <2>1. SnapshotBy(now) \subseteq SnapshotBy(now')
    BY <1>1 DEF SnapshotBy
  <2>2. \A a \in Assets : snapshots[a] \in Seq(SnapshotBy(now'))
    BY <2>1, Times, SeqMonotonic
  <2> QED
    BY <2>2, Times
<1>6. TypeOK'
  BY <1>1, <1>2, <1>4, <1>5 DEF OracleInv, TypeOK, SnapshotBy
<1> QED
  BY <1>3, <1>4, <1>6 DEF OracleInv, SnapshotsAreSpread

\* Another owner, or another source of an asset.
LEMMA OwnerKeeps ==
  ASSUME OracleInv, NEW u \in Owners, OwnerStep(u)
  PROVE  OracleInv'
<1>1. CASE UpdateConfig(u)
  BY <1>1 DEF OracleInv, TypeOK, SnapshotsAreSpread, UpdateConfig, marketVars
<1>2. ASSUME NEW a \in Assets, NEW s \in Offered[a], SetAsset(u, a, s)
      PROVE  OracleInv'
  <2>1. /\ sources' = [sources EXCEPT ![a] = s]
        /\ UNCHANGED <<now, owner, snapshots, spot, cumulative>>
    BY <1>2 DEF SetAsset, marketVars
  <2>2. /\ DOMAIN sources' = Assets
        /\ \A b \in Assets : sources'[b] \in Offered[b] \cup {Configured[b]}
    BY <2>1 DEF OracleInv, TypeOK
  <2> QED
    BY <2>1, <2>2 DEF OracleInv, TypeOK, SnapshotsAreSpread
<1> QED
  BY <1>1, <1>2 DEF OwnerStep

\* A snapshot of each of some assets.
LEMMA RecordKeeps ==
  ASSUME OracleInv, NEW assets \in SUBSET Assets, RecordTwapSnapshots(assets)
  PROVE  OracleInv'
<1>1. /\ snapshots' = [a \in Assets |-> IF a \in assets THEN Recorded(a, snapshots[a])
                                        ELSE snapshots[a]]
      /\ UNCHANGED <<now, owner, sources, spot, cumulative>>
      /\ \A a \in assets : IsTwap(sources[a])
  BY DEF RecordTwapSnapshots, marketVars
<1>2. ASSUME NEW a \in assets
      PROVE  Recorded(a, snapshots[a]) \in Seq(SnapshotBy(now))
  <2>1. a \in Assets /\ IsTwap(sources[a]) /\ snapshots[a] \in Seq(SnapshotBy(now))
    BY <1>1, Times
  <2>2. CASE Recorded(a, snapshots[a]) = snapshots[a]
    BY <2>1, <2>2
  <2>3. CASE ~ Recorded(a, snapshots[a]) = snapshots[a]
    <3>1. PICK kept \in Seq(SnapshotBy(now)), snapshot \in SnapshotBy(now) :
            Recorded(a, snapshots[a]) = Append(kept, snapshot)
      BY <2>1, <2>3, RecordedShape
    <3> QED
      BY <3>1, AppendProperties
  <2> QED
    BY <2>2, <2>3
<1>3. snapshots' \in [Assets -> Seq(SnapshotBy(now))]
  BY <1>1, <1>2, Times
<1>4. ASSUME NEW a \in Assets, NEW least \in Nat, NEW span \in Nat, Bounds(a, least, span)
      PROVE  Spread(snapshots'[a], least, span)
  <2>1. CASE a \in assets
    BY <1>1, <1>4, <2>1, RecordedSpread
  <2>2. CASE a \notin assets
    BY <1>1, <1>4, <2>2 DEF OracleInv, SnapshotsAreSpread
  <2> QED
    BY <2>1, <2>2
<1>5. TypeOK'
  BY <1>1, <1>3 DEF OracleInv, TypeOK, SnapshotBy
<1> QED
  BY <1>1, <1>4, <1>5 DEF OracleInv, SnapshotsAreSpread

LEMMA OracleStep == OracleInv /\ [Next]_vars => OracleInv'
<1> SUFFICES ASSUME OracleInv, [Next]_vars
             PROVE  OracleInv'
  OBVIOUS
<1>1. CASE UNCHANGED vars
  BY <1>1 DEF vars, oracleVars, marketVars, OracleInv, TypeOK, SnapshotsAreSpread
<1>2. CASE Next
  BY <1>2, TickKeeps, OwnerKeeps, RecordKeeps DEF Next
<1> QED
  BY <1>1, <1>2

\* The invariant of the oracle: what is stored has its type, and the snapshots of
\* an asset lie at least as far apart as the least tolerance it was given, and no
\* further than the longest window.
THEOREM OracleCorrect == Spec => []OracleInv
<1> QED
  BY OracleInitially, OracleStep, PTL DEF Spec

\* However often anybody asks, there are never more snapshots of an asset than the
\* windows hold at the distance of the tolerances.
THEOREM SnapshotsStayFew == Spec => []SnapshotsAreBounded
<1>1. OracleInv => SnapshotsAreBounded
  <2> SUFFICES ASSUME OracleInv, NEW a \in Assets,
                      NEW least \in {s.tolerance : s \in TwapsOf(a)},
                      NEW span \in {s.window_size + s.tolerance : s \in TwapsOf(a)},
                      Bounds(a, least, span)
               PROVE  least * (Len(snapshots[a]) - 1) <= span
    BY DEF SnapshotsAreBounded, TwapsOf, Bounds
  <2>1. \A s \in TwapsOf(a) : s.tolerance \in Nat /\ s.window_size \in Nat
    BY OracleAssumptions DEF TwapsOf, IsTwap
  <2>2. least \in Nat /\ span \in Nat
    BY <2>1
  <2>3. Spread(snapshots[a], least, span)
    BY <2>2 DEF OracleInv, SnapshotsAreSpread
  <2>4. PICK taken, len : taken = snapshots[a] /\ len = Len(taken)
    OBVIOUS
  <2>5. taken \in Seq(SnapshotBy(now)) /\ len \in Nat /\ now \in Nat
    BY <2>4, Times, LenProperties
  <2>6. CASE len = 0
    BY <2>2, <2>4, <2>6
  <2>7. CASE len # 0
    <3>1. 1 \in 1 .. len /\ len \in 1 .. len /\ 1 <= len
      BY <2>5, <2>7
    <3>2. /\ least * (len - 1) <= taken[len].timestamp - taken[1].timestamp
          /\ taken[len].timestamp - taken[1].timestamp <= span
      BY <2>3, <2>4, <3>1 DEF Spread
    <3>3. taken[len] \in SnapshotBy(now) /\ taken[1] \in SnapshotBy(now)
      BY <2>4, <2>5, <3>1, ElementOfSeq
    <3>4. taken[len].timestamp \in Int /\ taken[1].timestamp \in Int
      BY <2>5, <3>3 DEF SnapshotBy
    <3>5. least * (len - 1) \in Int
      BY <2>2, <2>5
    <3> QED
      BY <2>2, <2>4, <3>2, <3>4, <3>5
  <2> QED
    BY <2>6, <2>7
<1> QED
  BY <1>1, OracleCorrect, PTL

-----------------------------------------------------------------------------
(* Averages. *)

\* A snapshot an average can be taken from at some time is still of use before.
LEMMA EligibleIsOfUse ==
  ASSUME NEW a \in Assets, NEW snapshot, NEW time \in Nat, now \in Nat, now <= time,
         snapshot.timestamp \in Nat, sources[a].window_size \in Nat, sources[a].tolerance \in Nat,
         Eligible(sources[a], snapshot, time)
  PROVE  StillOfUse(a, snapshot)
  BY DEF Eligible, PeriodDiff, diff, StillOfUse

\* The oldest of some snapshots has the least of their places.
LEMMA OldestIsFirst ==
  ASSUME NEW taken, NEW places, places \subseteq Nat, places # {}
  PROVE  /\ Min(places) \in places /\ \A i \in places : Min(places) <= i
         /\ Oldest(taken, places) = taken[Min(places)]
  BY LeastOfSome DEF Min, Oldest

\* What is dropped when a snapshot is taken is dropped from the front, and nothing
\* an average needs.
LEMMA RecordedKeepsOldest ==
  ASSUME OracleInv, NEW a \in Assets, IsTwap(sources[a]),
         ~ Recorded(a, snapshots[a]) = snapshots[a],
         NEW time \in Nat, now <= time,
         Selectable(sources[a], snapshots[a], time) # {}
  PROVE  LET after == Recorded(a, snapshots[a])
         IN  /\ Selectable(sources[a], after, time) # {}
             /\ Oldest(after, Selectable(sources[a], after, time))
                  = Oldest(snapshots[a], Selectable(sources[a], snapshots[a], time))
<1>1. PICK taken, after, source : /\ taken = snapshots[a] /\ after = Recorded(a, snapshots[a])
                                  /\ source = sources[a]
  OBVIOUS
<1>2. PICK kept, snapshot, from :
        /\ kept \in Seq(SnapshotBy(now)) /\ snapshot \in SnapshotBy(now)
        /\ IsPicked(kept, taken, {i \in DOMAIN taken : StillOfUse(a, taken[i])}, Len(taken), from)
        /\ after = Append(kept, snapshot)
  BY <1>1, RecordedShape
<1>3. taken \in Seq(SnapshotBy(now)) /\ now \in Nat
  BY <1>1, Times
<1>4. PICK len, last : len = Len(kept) /\ last = Len(taken)
  OBVIOUS
<1>5. len \in Nat /\ last \in Nat /\ DOMAIN taken = 1 .. last
  BY <1>2, <1>3, <1>4, LenProperties
<1>6. /\ DOMAIN after = 1 .. len + 1
      /\ \A k \in 1 .. len : after[k] = kept[k]
  <2>1. after \in Seq(SnapshotBy(now)) /\ Len(after) = len + 1
    BY <1>2, <1>4, AppendProperties
  <2> QED
    BY <1>2, <1>4, <2>1, AppendProperties, LenProperties
<1>7. \A k \in 1 .. last : taken[k].timestamp \in Nat
  <2>1. \A k \in 1 .. last : taken[k] \in SnapshotBy(now)
    BY <1>3, <1>4, ElementOfSeq
  <2> QED
    BY <1>3, <2>1 DEF SnapshotBy
<1>8. /\ \A k \in 1 .. len : from[k] \in 1 .. last /\ kept[k] = taken[from[k]]
      /\ \A j, k \in 1 .. len : j <= k => from[k] - from[j] >= k - j
      /\ \A i \in 1 .. last : StillOfUse(a, taken[i]) => \E k \in 1 .. len : from[k] = i
  BY <1>2, <1>4, <1>5 DEF IsPicked
<1>9. PICK before, later : /\ before = Selectable(source, taken, time)
                           /\ later = Selectable(source, after, time)
  OBVIOUS
<1>10. /\ before = {i \in 1 .. last : Eligible(source, taken[i], time)}
       /\ later = {i \in 1 .. len + 1 : Eligible(source, after[i], time)}
  BY <1>5, <1>6, <1>9 DEF Selectable
<1>11. before \subseteq Nat /\ later \subseteq Nat /\ before # {}
  BY <1>1, <1>5, <1>9, <1>10
<1>12. PICK first : first = Min(before)
  OBVIOUS
<1>13. /\ first \in before /\ Oldest(taken, before) = taken[first]
       /\ \A i \in before : first <= i
  BY <1>11, <1>12, OldestIsFirst
<1>14. first \in 1 .. last /\ Eligible(source, taken[first], time)
  BY <1>10, <1>13
<1>15. StillOfUse(a, taken[first])
  <2>1. source.window_size \in Nat /\ source.tolerance \in Nat
    BY <1>1, TwapTypes
  <2> QED
    BY <1>1, <1>3, <1>7, <1>14, <2>1, EligibleIsOfUse
<1>16. PICK k \in 1 .. len : from[k] = first
  BY <1>8, <1>14, <1>15
<1>17. k \in later /\ after[k] = taken[first]
  BY <1>5, <1>6, <1>8, <1>10, <1>14, <1>16
<1>18. PICK least : least = Min(later)
  OBVIOUS
<1>19. /\ least \in later /\ Oldest(after, later) = after[least]
       /\ \A i \in later : least <= i
  BY <1>11, <1>17, <1>18, OldestIsFirst
<1>20. least <= k /\ least \in 1 .. len
  BY <1>5, <1>10, <1>17, <1>19
<1>21. from[least] \in before
  BY <1>6, <1>8, <1>10, <1>19, <1>20
<1>22. first <= from[least] /\ from[k] - from[least] >= k - least
  BY <1>8, <1>13, <1>20, <1>21
<1>23. least = k
  BY <1>5, <1>8, <1>14, <1>16, <1>20, <1>22
<1> QED
  BY <1>1, <1>9, <1>13, <1>17, <1>19, <1>23

\* A snapshot that is taken, and what is dropped for it, changes no average that
\* could be taken without it, then or later.
THEOREM AveragesAreKept == Spec => RecordingKeepsAverages
<1> DEFINE Kept(a) ==
      snapshots'[a] # snapshots[a] =>
        \A time \in now .. MaxTime + 1 :
          LET before == Selectable(sources[a], snapshots[a], time)
              after == Selectable(sources[a], snapshots'[a], time)
          IN  before # {} =>
                after # {} /\ Oldest(snapshots'[a], after) = Oldest(snapshots[a], before)
<1>1. OracleInv /\ [Next]_vars => [\A a \in Assets : Kept(a)]_vars
  <2> SUFFICES ASSUME OracleInv, Next, NEW a \in Assets, snapshots'[a] # snapshots[a]
               PROVE  Kept(a)
    OBVIOUS
  <2>1. PICK assets \in SUBSET Assets : RecordTwapSnapshots(assets)
    BY DEF Next, Tick, OwnerStep, UpdateConfig, SetAsset, oracleVars
  <2>2. IsTwap(sources[a]) /\ snapshots'[a] = Recorded(a, snapshots[a])
    BY <2>1 DEF RecordTwapSnapshots
  <2>3. ASSUME NEW time \in now .. MaxTime + 1
        PROVE  time \in Nat /\ now <= time
    BY Times, OracleAssumptions
  <2> QED
    BY <2>2, <2>3, RecordedKeepsOldest
<1>2. Spec => [][\A a \in Assets : Kept(a)]_vars
  BY <1>1, OracleCorrect, PTL DEF Spec
<1> QED
  BY <1>2 DEF RecordingKeepsAverages

-----------------------------------------------------------------------------
(* More of totals. *)

\* Totals over sets that have nothing in common add up.
LEMMA TotalOfParts ==
  ASSUME NEW S, IsFiniteSet(S), NEW T, IsFiniteSet(T), S \cap T = {},
         NEW f, \A x \in S \cup T : f[x] \in Nat
  PROVE  Total(f, S \cup T) = Total(f, S) + Total(f, T)
<1>1. PICK A, B, C : A = Units(f, S) /\ B = Units(f, T) /\ C = Units(f, S \cup T)
  OBVIOUS
<1>2. IsFiniteSet(A) /\ IsFiniteSet(B)
  BY <1>1, UnitsFinite
<1>3. C = A \cup B /\ A \cap B = {}
  BY <1>1 DEF Units, UnitsOf
<1>4. Cardinality(A \cup B) = Cardinality(A) + Cardinality(B) - Cardinality(A \cap B)
  BY <1>2, FS_Union
<1>5. /\ Cardinality(A \cap B) = 0 /\ Cardinality(A) \in Nat /\ Cardinality(B) \in Nat
  BY <1>2, <1>3, FS_EmptySet, FS_CardinalityType
<1>6. Cardinality(C) = Cardinality(A) + Cardinality(B)
  BY ONLY <1>3, <1>4, <1>5
<1> QED
  BY <1>1, <1>6 DEF Total

\* A total lies between the multiples of the bounds of its entries.
LEMMA TotalBetween ==
  ASSUME NEW S, IsFiniteSet(S), NEW f, NEW low \in Nat, NEW high \in Nat,
         \A x \in S : f[x] \in Nat /\ low <= f[x] /\ f[x] <= high
  PROVE  /\ Total(f, S) \in Nat /\ Cardinality(S) \in Nat
         /\ Cardinality(S) * low <= Total(f, S) /\ Total(f, S) <= Cardinality(S) * high
<1>1. PICK ones, zeros : ones = [x \in S |-> 1] /\ zeros = [x \in S |-> 0]
  OBVIOUS
<1>2. /\ Total(ones, S) = Cardinality(S) /\ Cardinality(S) \in Nat
      /\ Total(zeros, S) = 0 /\ Total(f, S) \in Nat
  BY <1>1, TotalOfOnes, TotalZero, TotalType
<1>3. Total(f, S) * 1 <= Total(ones, S) * high + Total(zeros, S) * 0
  <2>1. \A x \in S : /\ ones[x] \in Nat /\ f[x] \in Nat /\ zeros[x] \in Nat
                     /\ f[x] * 1 <= ones[x] * high + zeros[x] * 0
    BY <1>1
  <2> QED
    BY <2>1, TotalWeighted
<1>4. Total(f, S) * (-1) <= Total(ones, S) * (-low) + Total(zeros, S) * 0
  <2>1. \A x \in S : /\ ones[x] \in Nat /\ f[x] \in Nat /\ zeros[x] \in Nat
                     /\ f[x] * (-1) <= ones[x] * (-low) + zeros[x] * 0
    BY <1>1
  <2>2. -low \in Int /\ -1 \in Int /\ 0 \in Int
    OBVIOUS
  <2> QED
    BY <2>1, <2>2, TotalWeighted
<1>5. PICK n, t : n = Cardinality(S) /\ t = Total(f, S)
  OBVIOUS
<1>6. n \in Nat /\ t \in Nat /\ t * 1 <= n * high + 0 /\ t * (-1) <= n * (-low) + 0
  BY <1>2, <1>3, <1>4, <1>5
<1>7. n * (-low) = - (n * low) /\ n * low \in Nat /\ n * high \in Nat
  BY <1>6
<1>8. n * low <= t /\ t <= n * high
  BY <1>6, <1>7
<1> QED
  BY <1>5, <1>6, <1>8

-----------------------------------------------------------------------------
(* Cumulative prices. *)

\* What a pair has added to its cumulative price up to a second, given its prices
\* in each second.
Additions(prices, n) == [j \in 1 .. n |-> Mul(Precision, prices[j])]
Added(prices, n) == Total(Additions(prices, n), 1 .. n)

LEMMA AdditionTypes ==
  ASSUME NEW prices, NEW n \in Nat, \A j \in 1 .. n : prices[j] \in Nat
  PROVE  /\ IsFiniteSet(1 .. n) /\ \A j \in 1 .. n : Additions(prices, n)[j] \in Nat
         /\ Added(prices, n) \in Nat
<1>1. IsFiniteSet(1 .. n)
  BY FS_Interval
<1>2. \A j \in 1 .. n : Additions(prices, n)[j] \in Nat
  BY MulType, OracleAssumptions DEF Additions
<1> QED
  BY <1>1, <1>2, TotalType DEF Added

\* What was added up to a second does not depend on what came later.
LEMMA AddedSame ==
  ASSUME NEW prices, NEW more, NEW n \in Nat, \A j \in 1 .. n : prices[j] = more[j]
  PROVE  Added(prices, n) = Added(more, n)
<1>1. Additions(prices, n) = Additions(more, n)
  BY DEF Additions
<1> QED
  BY <1>1 DEF Added

\* What was added after a second lies between what its least and its greatest
\* price would have added in each of them.
LEMMA AddedBetween ==
  ASSUME NEW prices, NEW n \in Nat, NEW t \in 0 .. n, NEW low \in Nat, NEW high \in Nat,
         \A j \in 1 .. n : prices[j] \in Nat,
         \A j \in t + 1 .. n : low <= prices[j] /\ prices[j] <= high
  PROVE  \E more \in Nat :
           /\ Added(prices, n) = Added(prices, t) + more
           /\ (n - t) * Mul(Precision, low) <= more /\ more <= (n - t) * Mul(Precision, high)
<1>1. PICK f, S, T : f = Additions(prices, n) /\ S = 1 .. t /\ T = t + 1 .. n
  OBVIOUS
<1>2. S \cup T = 1 .. n /\ S \cap T = {}
  BY <1>1
<1>3. IsFiniteSet(S) /\ IsFiniteSet(T) /\ Cardinality(T) = n - t
  <2>1. t \in Nat /\ t + 1 \in Int /\ n \in Int /\ t <= n
    OBVIOUS
  <2>2. IsFiniteSet(T) /\ Cardinality(T) = IF t + 1 > n THEN 0 ELSE n - (t + 1) + 1
    BY <1>1, <2>1, FS_Interval
  <2>3. (IF t + 1 > n THEN 0 ELSE n - (t + 1) + 1) = n - t
    BY <2>1
  <2>4. IsFiniteSet(S)
    BY <1>1, <2>1, FS_Interval
  <2> QED
    BY <2>2, <2>3, <2>4
<1>4. \A x \in S \cup T : f[x] \in Nat
  BY <1>1, <1>2, AdditionTypes
<1>5. Total(f, 1 .. n) = Total(f, S) + Total(f, T)
  BY <1>2, <1>3, <1>4, TotalOfParts
<1>6. Total(f, S) = Added(prices, t)
  <2>1. \A x \in S : f[x] = Additions(prices, t)[x]
    BY <1>1, <1>2 DEF Additions
  <2> QED
    BY <1>1, <2>1, TotalAgree DEF Added
<1>7. PICK l, h : l = Mul(Precision, low) /\ h = Mul(Precision, high)
  OBVIOUS
<1>8. l \in Nat /\ h \in Nat
  BY <1>7, MulType, OracleAssumptions
<1>9. \A x \in T : f[x] \in Nat /\ l <= f[x] /\ f[x] <= h
  <2> SUFFICES ASSUME NEW x \in T
               PROVE  l <= f[x] /\ f[x] <= h
    BY <1>4
  <2>1. x \in 1 .. n /\ low <= prices[x] /\ prices[x] <= high /\ prices[x] \in Nat
    BY <1>1, <1>2
  <2>2. f[x] = Mul(Precision, prices[x])
    BY <1>1, <2>1 DEF Additions
  <2> QED
    BY <1>7, <2>1, <2>2, MulMono, OracleAssumptions
<1>10. /\ Total(f, T) \in Nat /\ (n - t) * l <= Total(f, T) /\ Total(f, T) <= (n - t) * h
  BY <1>3, <1>8, <1>9, TotalBetween
<1> QED
  BY <1>1, <1>5, <1>6, <1>7, <1>10 DEF Added

\* In another second the price of that second is added.
LEMMA AddedNext ==
  ASSUME NEW prices, NEW n \in Nat, \A j \in 1 .. n + 1 : prices[j] \in Nat
  PROVE  Added(prices, n + 1) = Added(prices, n) + Mul(Precision, prices[n + 1])
<1>1. PICK price, add : price = prices[n + 1] /\ add = Mul(Precision, price)
  OBVIOUS
<1>2. price \in Nat /\ add \in Nat /\ n + 1 \in Nat /\ n \in 0 .. n + 1 /\ (n + 1) - n = 1
  <2>1. n + 1 \in 1 .. n + 1
    OBVIOUS
  <2>2. price \in Nat
    BY <1>1, <2>1
  <2> QED
    <3>1. add \in Nat
      BY <1>1, <2>2, MulType, OracleAssumptions
    <3>2. n + 1 \in Nat /\ n \in 0 .. n + 1 /\ (n + 1) - n = 1
      OBVIOUS
    <3> QED
      BY <2>2, <3>1, <3>2
<1>3. \A j \in n + 1 .. n + 1 : price <= prices[j] /\ prices[j] <= price
  BY <1>1, <1>2
<1>4. PICK more \in Nat :
        /\ Added(prices, n + 1) = Added(prices, n) + more
        /\ ((n + 1) - n) * add <= more /\ more <= ((n + 1) - n) * add
  BY <1>1, <1>2, <1>3, AddedBetween
<1>5. more = add
  BY <1>2, <1>4
<1> QED
  BY <1>1, <1>4, <1>5

\* A difference below the wrap is what Delta finds, but for the unit of a wrap.
LEMMA DeltaIs ==
  ASSUME NEW before \in Nat, NEW more \in Nat, more < Wrap
  PROVE  /\ Delta((before + more) % Wrap, before % Wrap) \in Nat
         /\ Delta((before + more) % Wrap, before % Wrap) \in {more, more - 1}
<1>1. PICK W, x, y, p, q : /\ W = Wrap /\ x = before % W /\ y = (before + more) % W
                           /\ p = before \div W /\ q = (before + more) \div W
  OBVIOUS
<1>2. W \in Nat \ {0} /\ before + more \in Nat
  BY <1>1, OracleAssumptions
<1>3. /\ p \in Nat /\ x \in 0 .. W - 1 /\ before = p * W + x
      /\ q \in Nat /\ y \in 0 .. W - 1 /\ before + more = q * W + y
  BY <1>1, <1>2, Divided
<1>4. PICK e : e = q - p
  OBVIOUS
<1>5. e \in Int /\ e * W = x + more - y
  <2>1. e * W = q * W - p * W
    BY <1>2, <1>3, <1>4
  <2> QED
    BY <1>2, <1>3, <1>4, <2>1
<1>6. e = 0 \/ e = 1
  <2>1. e <= -1 => e * W <= - W
    BY <1>2, <1>5
  <2>2. e >= 2 => e * W >= 2 * W
    BY <1>2, <1>5
  <2> QED
    BY <1>1, <1>2, <1>3, <1>5, <2>1, <2>2
<1>7. Delta(y, x) \in Nat /\ Delta(y, x) \in {more, more - 1}
  <2>1. CASE e = 0
    <3>1. y = x + more
      <4>1. e * W = 0
        BY <1>2, <2>1
      <4> QED
        BY <1>3, <1>5, <4>1
    <3> QED
      BY <1>2, <1>3, <3>1 DEF Delta
  <2>2. CASE e = 1
    <3>1. x + more = y + W
      <4>1. e * W = W
        BY <1>2, <2>2
      <4> QED
        BY <1>2, <1>3, <1>5, <4>1
    <3>2. ~ (y >= x) /\ y + ((W - 1) - x) = more - 1 /\ more - 1 \in Nat
      <4>1. more < W /\ more \in Nat
        BY <1>1
      <4> QED
        BY ONLY <1>2, <1>3, <3>1, <4>1
    <3> QED
      BY <1>1, <3>2 DEF Delta
  <2> QED
    BY <1>6, <2>1, <2>2
<1> QED
  BY <1>1, <1>7

\* An average of what was added in some seconds.
LEMMA AverageBetween ==
  ASSUME NEW period \in Nat \ {0}, NEW more \in Nat, NEW delta \in Nat,
         delta \in {more, more - 1}, NEW low \in Nat, NEW high \in Nat,
         period * Mul(Precision, low) <= more, more <= period * Mul(Precision, high)
  PROVE  LET average == FromRatio(delta, Precision * period)
         IN  /\ average \in Nat /\ average <= high
             /\ FromRatio(Mul(Precision, low), Precision) - CeilDiv(One, Precision) <= average
<1>1. PICK P, l, h, T, c :
        /\ P = Precision /\ l = Mul(P, low) /\ h = Mul(P, high)
        /\ T = FromRatio(l, P) /\ c = CeilDiv(One, P)
  OBVIOUS
<1>2. P \in Nat \ {0} /\ One \in Nat \ {0} /\ l \in Nat /\ h \in Nat
  BY <1>1, OracleAssumptions, OneAssumption, MulType
<1>3. h * One <= P * high
  <2>1. P * high \in Nat /\ h = (P * high) \div One
    BY <1>1, <1>2, ProductType DEF Mul
  <2> QED
    BY <1>2, <2>1, DivFloor
<1>4. T \in Nat /\ T * P <= l * One
  <2>1. l * One \in Nat /\ T = (l * One) \div P
    BY <1>1, <1>2, ProductType DEF FromRatio
  <2> QED
    BY <1>2, <2>1, DivFloor
<1>5. c \in Nat /\ One <= c * P
  BY <1>1, <1>2, CeilDivCovers
<1>6. PICK d : d = P * period
  OBVIOUS
<1>7. d \in Nat \ {0} /\ delta * One \in Nat
  BY <1>2, <1>6, ProductType
<1>8. FromRatio(delta, d) = (delta * One) \div d
  BY DEF FromRatio
<1>9. delta * One <= high * d
  <2>1. delta <= period * h
    BY <1>1, <1>2
  <2>2. delta * One <= (period * h) * One
    BY <1>2, <2>1, ProductMono, ProductType
  <2>3. (period * h) * One = period * (h * One)
    BY <1>2
  <2>4. period * (h * One) <= period * (P * high)
    BY <1>2, <1>3, ProductMono, ProductType
  <2>5. period * (P * high) = high * d
    BY <1>2, <1>6
  <2> QED
    BY <1>2, <1>6, <1>7, <2>2, <2>3, <2>4, <2>5, ProductType
<1>10. ASSUME c <= T
       PROVE  (T - c) * d <= delta * One
  <2>1. period * l <= delta + 1
    BY <1>1, <1>2
  <2>2. (period * l) * One <= (delta + 1) * One
    BY <1>2, <2>1, ProductMono, ProductType
  <2>3. period * (T * P) <= period * (l * One)
    BY <1>2, <1>4, ProductMono, ProductType
  <2>4. One <= period * (c * P)
    <3>1. 1 * One <= period * (c * P)
      BY <1>2, <1>5, ProductMono, ProductType
    <3> QED
      BY <1>2, <3>1
  <2>5. (T - c) * d = period * (T * P) - period * (c * P)
    BY <1>2, <1>4, <1>5, <1>6
  <2>6. (period * l) * One = period * (l * One) /\ (delta + 1) * One = delta * One + One
    BY <1>2
  <2>7. PICK A, B, C, D : /\ A = period * (T * P) /\ B = period * (c * P) /\ C = period * (l * One)
                          /\ D = delta * One
    OBVIOUS
  <2>8. A \in Nat /\ B \in Nat /\ C \in Nat /\ D \in Nat
    BY <1>2, <1>4, <1>5, <1>7, <2>7, ProductType
  <2>9. C <= D + One /\ A <= C /\ One <= B
    BY <2>2, <2>3, <2>4, <2>6, <2>7
  <2>10. A - B <= D
    BY <1>2, <2>8, <2>9
  <2> QED
    BY <2>5, <2>7, <2>10
<1>11. PICK average : average = (delta * One) \div d
  OBVIOUS
<1>12. average \in Nat /\ average <= high
  BY <1>7, <1>9, <1>11, DivFloor, DivUpper
<1>13. T - c <= average
  <2>1. CASE c <= T
    <3>1. T - c \in Nat /\ ((T - c) * d) \div d = T - c /\ (T - c) * d \in Nat
      BY <1>4, <1>5, <1>7, <2>1, DivExact, ProductType
    <3> QED
      BY <1>7, <1>10, <1>11, <2>1, <3>1, DivMono
  <2>2. CASE ~ (c <= T)
    BY <1>4, <1>5, <1>12, <2>2
  <2> QED
    BY <2>1, <2>2
<1> QED
  BY <1>1, <1>6, <1>8, <1>11, <1>12, <1>13

-----------------------------------------------------------------------------
(* The snapshots are what the pairs have added. *)

\* The prices of the pairs are known for every second so far.
PricesAreKnown ==
  /\ past \in [Pairs -> Seq(Nat \ {0})]
  /\ \A p \in Pairs : /\ spot[p] \in Rates[p]
                      /\ Len(past[p]) = now /\ \A j \in 1 .. now : past[p][j] \in Rates[p]

\* A cumulative price is the rest of what was added so far.
CumulativeIsPast == \A p \in Pairs : CumulativePrice(p) = Added(past[p], now) % Wrap

\* A snapshot taken since the pair was set is the rest of what was added before.
SnapshotsArePast ==
  \A a \in Assets : \A p \in Pairs : \A k \in 1 .. Len(snapshots[a]) :
    PairOf(sources[a]) = p /\ snapshots[a][k].timestamp > pairSince[a] =>
      snapshots[a][k].price_cumulative = Added(past[p], snapshots[a][k].timestamp) % Wrap

\* An average is of a pair of the asset.
SourcesFit == \A a \in Assets : IsTwap(sources[a]) => PoolHas(sources[a].pair, a)

PastInv ==
  /\ PricesAreKnown /\ CumulativeIsPast /\ SnapshotsArePast /\ SourcesFit
  /\ DOMAIN pairSince = Assets

\* The pair of a source of averages.
LEMMA PairOfTwap ==
  ASSUME OracleInv, NEW a \in Assets, IsTwap(sources[a])
  PROVE  PairOf(sources[a]) = sources[a].pair /\ sources[a].pair \in Pairs
<1>1. PICK s : s = sources[a]
  OBVIOUS
<1>2. s \in Offered[a] \cup ({Configured[a]} \ {NoSource}) /\ s.kind = "astroport_twap"
  BY <1>1, TwapTypes DEF TwapsOf, IsTwap
<1>3. s.pair \in Pairs /\ DOMAIN s = {"kind"} \cup SourceFields["astroport_twap"]
  BY <1>2, OracleAssumptions DEF IsSource
<1>4. "pair" \in DOMAIN s
  BY <1>3 DEF SourceFields
<1> QED
  BY <1>1, <1>3, <1>4 DEF PairOf, IsTwap

\* Adding to the rest leaves the rest of the sum.
LEMMA RestAdds ==
  ASSUME NEW A \in Nat, NEW m \in Nat, NEW W \in Nat \ {0}
  PROVE  ((A % W) + m) % W = (A + m) % W
<1>1. PICK x, y, z, p, q, r :
        /\ x = A % W /\ y = (x + m) % W /\ z = (A + m) % W
        /\ p = A \div W /\ q = (x + m) \div W /\ r = (A + m) \div W
  OBVIOUS
<1>2. p \in Nat /\ x \in 0 .. W - 1 /\ A = p * W + x
  BY <1>1, Divided
<1>3. x + m \in Nat /\ A + m \in Nat
  BY <1>2
<1>4. /\ q \in Nat /\ y \in 0 .. W - 1 /\ x + m = q * W + y
      /\ r \in Nat /\ z \in 0 .. W - 1 /\ A + m = r * W + z
  BY <1>1, <1>3, Divided
<1>5. PICK e : e = (r - q) - p
  OBVIOUS
<1>6. e \in Int /\ e * W = y - z
  <2>1. e \in Int /\ e * W = (r * W - q * W) - p * W
    BY ONLY W \in Nat \ {0}, <1>2, <1>4, <1>5
  <2>2. r * W \in Nat /\ q * W \in Nat /\ p * W \in Nat
    BY ONLY W \in Nat \ {0}, <1>2, <1>4
  <2> QED
    BY ONLY A \in Nat, m \in Nat, W \in Nat \ {0}, <1>2, <1>4, <2>1, <2>2
<1>7. e = 0
  <2>1. e <= -1 => e * W <= - W
    BY ONLY W \in Nat \ {0}, <1>6
  <2>2. e >= 1 => e * W >= W
    BY ONLY W \in Nat \ {0}, <1>6
  <2> QED
    BY ONLY W \in Nat \ {0}, <1>4, <1>6, <2>1, <2>2
<1>8. y = z
  BY ONLY W \in Nat \ {0}, <1>4, <1>6, <1>7
<1> QED
  BY <1>1, <1>8

\* What is priced of a pair is the asset that is not uusd.
LEMMA PairPriceIsSpot ==
  ASSUME NEW p \in Pairs
  PROVE  PairPrice(p, NotUst(p)) = spot[p] /\ NotUst(p) \in {1, 2}
BY OracleAssumptions DEF PairPrice, NotUst

\* In a second every cumulative price grows by the price of that second.
LEMMA TickAdds ==
  ASSUME OracleInv, PastInv, Tick
  PROVE  PastInv'
<1>1. /\ now \in Nat /\ now' = now + 1
      /\ UNCHANGED <<sources, snapshots, pairSince>>
      /\ past' = [p \in Pairs |-> Append(past[p], spot[p])]
      /\ \A p \in Pairs : spot'[p] \in Rates[p]
  BY Times DEF Tick, oracleVars
<1>2. ASSUME NEW p \in Pairs
      PROVE  /\ past'[p] \in Seq(Nat \ {0}) /\ Len(past'[p]) = now + 1
             /\ \A j \in 1 .. now + 1 : past'[p][j] \in Rates[p] /\ past'[p][j] \in Nat
             /\ \A j \in 1 .. now : past'[p][j] = past[p][j]
             /\ past'[p][now + 1] = spot[p]
  <2>1. /\ past[p] \in Seq(Nat \ {0}) /\ Len(past[p]) = now /\ spot[p] \in Rates[p]
        /\ \A j \in 1 .. now : past[p][j] \in Rates[p]
    BY DEF PastInv, PricesAreKnown
  <2>2. Rates[p] \subseteq Nat \ {0}
    BY OracleAssumptions
  <2>3. PICK before, after, price : /\ before = past[p] /\ after = Append(before, price)
                                    /\ price = spot[p]
    OBVIOUS
  <2>4. price \in Nat \ {0} /\ before \in Seq(Nat \ {0})
    BY <2>1, <2>2, <2>3
  <2>5. /\ after \in Seq(Nat \ {0}) /\ Len(after) = now + 1
        /\ \A j \in 1 .. now : after[j] = before[j]
        /\ after[now + 1] = price
    BY <2>1, <2>3, <2>4, AppendProperties
  <2>6. past'[p] = after
    BY <1>1, <2>3
  <2>7. \A j \in 1 .. now + 1 : j \in 1 .. now \/ j = now + 1
    BY <1>1
  <2>8. \A j \in 1 .. now + 1 : after[j] \in Rates[p]
    BY <2>1, <2>3, <2>5, <2>7
  <2> QED
    BY <2>2, <2>3, <2>5, <2>6, <2>8
<1>3. PricesAreKnown'
  <2>1. past' \in [Pairs -> Seq(Nat \ {0})]
    BY <1>1, <1>2
  <2> QED
    BY <1>1, <1>2, <2>1 DEF PricesAreKnown
<1>4. ASSUME NEW p \in Pairs, NEW t \in 0 .. now
      PROVE  Added(past'[p], t) = Added(past[p], t)
  <2>1. \A j \in 1 .. t : past'[p][j] = past[p][j]
    BY <1>1, <1>2
  <2>2. PICK before, after : before = past[p] /\ after = past'[p]
    OBVIOUS
  <2>3. t \in Nat /\ \A j \in 1 .. t : after[j] = before[j]
    BY <2>1, <2>2
  <2>4. Added(after, t) = Added(before, t)
    BY <2>3, AddedSame
  <2> QED
    BY <2>2, <2>4
<1>5. CumulativeIsPast'
  <2> SUFFICES ASSUME NEW p \in Pairs
               PROVE  CumulativePrice(p)' = Added(past'[p], now') % Wrap
    BY DEF CumulativeIsPast
  <2>1. PICK c, m, A, after : /\ c = CumulativePrice(p) /\ m = Mul(Precision, spot[p])
                              /\ A = Added(past[p], now) /\ after = past'[p]
    OBVIOUS
  <2>2. CumulativePrice(p)' = (c + m) % Wrap
    BY <2>1, PairPriceIsSpot DEF Tick, CumulativePrice
  <2>3. c = A % Wrap
    BY <2>1 DEF PastInv, CumulativeIsPast
  <2>4. m \in Nat /\ A \in Nat /\ Wrap \in Nat \ {0}
    <3>1. spot[p] \in Nat /\ \A j \in 1 .. now : past[p][j] \in Nat
      BY OracleAssumptions DEF PastInv, PricesAreKnown
    <3> QED
      BY <1>1, <2>1, <3>1, MulType, AdditionTypes, OracleAssumptions
  <2>5. (c + m) % Wrap = (A + m) % Wrap
    BY <2>3, <2>4, RestAdds
  <2>6. Added(after, now + 1) = A + m
    <3>1. \A j \in 1 .. now + 1 : after[j] \in Nat
      BY <1>2, <2>1
    <3>2. Added(after, now + 1) = Added(after, now) + Mul(Precision, after[now + 1])
      BY <1>1, <3>1, AddedNext
    <3>3. now \in 0 .. now
      BY <1>1
    <3>4. Added(after, now) = A /\ Mul(Precision, after[now + 1]) = m
      BY <1>2, <1>4, <2>1, <3>3
    <3> QED
      BY <3>2, <3>4
  <2> QED
    BY <1>1, <2>1, <2>2, <2>5, <2>6
<1>6. SnapshotsArePast'
  <2> SUFFICES ASSUME NEW a \in Assets, NEW p \in Pairs, NEW k \in 1 .. Len(snapshots[a]),
                      PairOf(sources[a]) = p, snapshots[a][k].timestamp > pairSince[a]
               PROVE  snapshots[a][k].price_cumulative
                        = Added(past'[p], snapshots[a][k].timestamp) % Wrap
    BY <1>1 DEF SnapshotsArePast
  <2>1. snapshots[a][k] \in SnapshotBy(now)
    BY Times, ElementOfSeq
  <2>2. snapshots[a][k].timestamp \in 0 .. now
    BY <2>1 DEF SnapshotBy
  <2>3. snapshots[a][k].price_cumulative = Added(past[p], snapshots[a][k].timestamp) % Wrap
    BY DEF PastInv, SnapshotsArePast
  <2> QED
    BY <1>4, <2>2, <2>3
<1> QED
  BY <1>1, <1>3, <1>5, <1>6 DEF PastInv, SourcesFit

\* A source with another pair comes after every snapshot there is.
LEMMA OwnerLeavesPast ==
  ASSUME OracleInv, PastInv, NEW u \in Owners, OwnerStep(u)
  PROVE  PastInv'
<1>1. UNCHANGED <<now, snapshots, spot, cumulative, past>>
  BY DEF OwnerStep, UpdateConfig, SetAsset, marketVars
<1>2. PricesAreKnown' /\ CumulativeIsPast'
  BY <1>1 DEF PastInv, PricesAreKnown, CumulativeIsPast, CumulativePrice
<1>3. CASE UpdateConfig(u)
  BY <1>1, <1>2, <1>3 DEF UpdateConfig, PastInv, SnapshotsArePast, SourcesFit
<1>4. ASSUME NEW a \in Assets, NEW s \in Offered[a], SetAsset(u, a, s)
      PROVE  PastInv'
  <2>1. /\ DOMAIN sources = Assets /\ DOMAIN pairSince = Assets
        /\ sources' = [sources EXCEPT ![a] = s]
        /\ pairSince' = [pairSince EXCEPT ![a] =
                           IF PairOf(s) = PairOf(sources[a]) THEN pairSince[a] ELSE now]
        /\ s.kind = "astroport_twap" => PoolHas(s.pair, a)
    BY <1>4 DEF SetAsset, OracleInv, PastInv
  <2>2. /\ sources'[a] = s
        /\ pairSince'[a] = IF PairOf(s) = PairOf(sources[a]) THEN pairSince[a] ELSE now
        /\ \A b \in Assets \ {a} : sources'[b] = sources[b] /\ pairSince'[b] = pairSince[b]
        /\ DOMAIN pairSince' = Assets
    BY <2>1
  <2>3. SourcesFit'
    <3>1. IsTwap(s) => PoolHas(s.pair, a)
      BY <2>1 DEF IsTwap
    <3>2. \A b \in Assets : IsTwap(sources[b]) => PoolHas(sources[b].pair, b)
      BY DEF PastInv, SourcesFit
    <3>3. \A b \in Assets : b = a \/ b \in Assets \ {a}
      OBVIOUS
    <3> QED
      BY <2>2, <3>1, <3>2, <3>3 DEF SourcesFit
  <2>4. SnapshotsArePast'
    <3> SUFFICES ASSUME NEW b \in Assets, NEW p \in Pairs, NEW k \in 1 .. Len(snapshots[b]),
                        PairOf(sources'[b]) = p, snapshots[b][k].timestamp > pairSince'[b]
                 PROVE  snapshots[b][k].price_cumulative
                          = Added(past[p], snapshots[b][k].timestamp) % Wrap
      BY <1>1 DEF SnapshotsArePast
    <3>1. snapshots[b][k] \in SnapshotBy(now) /\ now \in Nat
      BY Times, ElementOfSeq
    <3>2. snapshots[b][k].timestamp \in 0 .. now
      BY <3>1 DEF SnapshotBy
    <3>3. ~ (snapshots[b][k].timestamp > now)
      BY <3>1, <3>2
    <3>4. PairOf(sources[b]) = p /\ pairSince'[b] = pairSince[b]
      <4>1. CASE b = a
        BY <2>2, <3>3, <4>1
      <4>2. CASE b # a
        BY <2>2, <4>2
      <4> QED
        BY <4>1, <4>2
    <3> QED
      BY <3>4 DEF PastInv, SnapshotsArePast
  <2> QED
    BY <1>2, <2>2, <2>3, <2>4 DEF PastInv
<1> QED
  BY <1>3, <1>4 DEF OwnerStep

\* A snapshot is taken of what was added so far, and the others stay as they are.
LEMMA RecordingIsPast ==
  ASSUME OracleInv, PastInv, NEW assets \in SUBSET Assets, RecordTwapSnapshots(assets)
  PROVE  PastInv'
<1>1. /\ snapshots' = [a \in Assets |-> IF a \in assets THEN Recorded(a, snapshots[a])
                                        ELSE snapshots[a]]
      /\ UNCHANGED <<now, sources, pairSince, spot, cumulative, past>>
      /\ \A a \in assets : IsTwap(sources[a])
  BY DEF RecordTwapSnapshots, marketVars
<1>2. PricesAreKnown' /\ CumulativeIsPast' /\ SourcesFit' /\ DOMAIN pairSince' = Assets
  BY <1>1 DEF PastInv, PricesAreKnown, CumulativeIsPast, CumulativePrice, SourcesFit
<1>3. SnapshotsArePast'
  <2> SUFFICES ASSUME NEW a \in Assets, NEW p \in Pairs, NEW k \in 1 .. Len(snapshots'[a]),
                      PairOf(sources[a]) = p, snapshots'[a][k].timestamp > pairSince[a]
               PROVE  snapshots'[a][k].price_cumulative
                        = Added(past[p], snapshots'[a][k].timestamp) % Wrap
    BY <1>1 DEF SnapshotsArePast
  <2>1. CASE snapshots'[a] = snapshots[a]
    BY <2>1 DEF PastInv, SnapshotsArePast
  <2>2. CASE ~ snapshots'[a] = snapshots[a]
    <3>1. a \in assets /\ IsTwap(sources[a]) /\ snapshots'[a] = Recorded(a, snapshots[a])
      BY <1>1, <2>2
    <3>2. PICK taken, after : taken = snapshots[a] /\ after = snapshots'[a]
      OBVIOUS
    <3>3. PICK kept, snapshot, from :
            /\ kept \in Seq(SnapshotBy(now)) /\ snapshot \in SnapshotBy(now)
            /\ snapshot.timestamp = now
            /\ snapshot.price_cumulative = CumulativePrice(sources[a].pair)
            /\ IsPicked(kept, taken, {i \in DOMAIN taken : StillOfUse(a, taken[i])},
                        Len(taken), from)
            /\ after = Append(kept, snapshot)
      BY <2>2, <3>1, <3>2, RecordedShape
    <3>4. PICK len : len = Len(kept)
      OBVIOUS
    <3>5. /\ len \in Nat /\ Len(after) = len + 1 /\ after[len + 1] = snapshot
          /\ \A i \in 1 .. len : after[i] = kept[i]
      BY <3>3, <3>4, AppendProperties, LenProperties
    <3>6. CASE k = len + 1
      <4>1. sources[a].pair = p
        BY <3>1, PairOfTwap
      <4>2. CumulativePrice(p) = Added(past[p], now) % Wrap
        BY DEF PastInv, CumulativeIsPast
      <4>3. snapshots'[a][k] = snapshot
        BY <3>2, <3>5, <3>6
      <4> QED
        BY <3>3, <4>1, <4>2, <4>3
    <3>7. CASE k # len + 1
      <4>1. k \in 1 .. len
        BY <3>2, <3>5, <3>7
      <4>2. PICK i \in 1 .. Len(taken) : kept[k] = taken[i]
        BY <3>3, <3>4, <4>1 DEF IsPicked
      <4>3. snapshots'[a][k] = snapshots[a][i]
        BY <3>2, <3>5, <4>1, <4>2
      <4> QED
        BY <3>2, <4>2, <4>3 DEF PastInv, SnapshotsArePast
    <3> QED
      BY <3>6, <3>7
  <2> QED
    BY <2>1, <2>2
<1> QED
  BY <1>2, <1>3 DEF PastInv

LEMMA PastInitially == Init => PastInv
<1> SUFFICES ASSUME Init
             PROVE  PastInv
  OBVIOUS
<1>1. now = 0 /\ \A p \in Pairs : past[p] = << >> /\ spot[p] \in Rates[p]
  BY DEF Init
<1>2. PricesAreKnown
  <2>1. past \in [Pairs -> Seq(Nat \ {0})] /\ \A p \in Pairs : Len(past[p]) = 0
    BY <1>1, EmptySeq DEF Init
  <2> QED
    BY <1>1, <2>1 DEF PricesAreKnown
<1>3. CumulativeIsPast
  <2> SUFFICES ASSUME NEW p \in Pairs
               PROVE  CumulativePrice(p) = Added(past[p], now) % Wrap
    BY DEF CumulativeIsPast
  <2>1. CumulativePrice(p) = 0
    BY PairPriceIsSpot DEF Init, CumulativePrice
  <2>2. Added(past[p], now) = 0
    <3>1. \A j \in 1 .. 0 : Additions(past[p], 0)[j] = 0
      OBVIOUS
    <3> QED
      BY <1>1, <3>1, TotalZero DEF Added
  <2>3. 0 % Wrap = 0
    <3>1. 0 % Wrap \in 0 .. Wrap - 1 /\ 0 \div Wrap \in Nat /\ 0 = (0 \div Wrap) * Wrap + (0 % Wrap)
      BY OracleAssumptions, Divided
    <3> QED
      BY <3>1, OracleAssumptions
  <2> QED
    BY <2>1, <2>2, <2>3
<1>4. SnapshotsArePast
  <2>1. \A a \in Assets : Len(snapshots[a]) = 0
    BY EmptySeq DEF Init
  <2> QED
    BY <2>1 DEF SnapshotsArePast
<1>5. SourcesFit
  <2> SUFFICES ASSUME NEW a \in Assets, IsTwap(sources[a])
               PROVE  PoolHas(sources[a].pair, a)
    BY DEF SourcesFit
  <2>1. PICK s : s = Configured[a]
    OBVIOUS
  <2>2. sources[a] = s /\ s # NoSource /\ s.kind = "astroport_twap"
    BY <2>1 DEF Init, IsTwap
  <2>3. s \in {Configured[a]} \ {NoSource}
    BY <2>1, <2>2
  <2>4. {Pools[s.pair].assets[i] : i \in {1, 2}} = {Ust, a}
    BY <2>2, <2>3, OracleAssumptions
  <2>5. {Pools[s.pair].assets[i] : i \in {1, 2}}
          = {Pools[s.pair].assets[1], Pools[s.pair].assets[2]}
    OBVIOUS
  <2> QED
    BY <2>2, <2>4, <2>5 DEF PoolHas
<1>6. DOMAIN pairSince = Assets
  BY DEF Init
<1> QED
  BY <1>2, <1>3, <1>4, <1>5, <1>6 DEF PastInv

LEMMA PastStep ==
  ASSUME OracleInv, PastInv, [Next]_vars
  PROVE  PastInv'
<1>1. CASE UNCHANGED vars
  BY <1>1 DEF vars, oracleVars, marketVars, PastInv, PricesAreKnown, CumulativeIsPast,
              CumulativePrice, SnapshotsArePast, SourcesFit
<1>2. CASE Next
  BY <1>2, TickAdds, OwnerLeavesPast, RecordingIsPast DEF Next
<1> QED
  BY <1>1, <1>2

-----------------------------------------------------------------------------
(* An average lies between the prices of its window. *)

\* What a pair adds within a window is less than the wrap: a cumulative price
\* does not overflow more than once in a period.
WindowsFit ==
  \A a \in Assets : \A s \in TwapsOf(a) : \A r \in Rates[s.pair] :
    (s.window_size + s.tolerance) * Mul(Precision, r) < Wrap

\* An average taken since the pair was set lies between two prices of its window.
LEMMA AverageWithin ==
  ASSUME OracleInv, PastInv, WindowsFit, NEW a \in Assets, IsTwap(sources[a]),
         TwapPrice(a) # NoPrice,
         Oldest(snapshots[a], Selectable(sources[a], snapshots[a], now)).timestamp > pairSince[a]
  PROVE  /\ TwapPrice(a) \in Nat
         /\ \E low, high \in SeenBy(sources[a]) :
              /\ low \in Nat /\ high \in Nat
              /\ Coarse(low) - CeilDiv(One, Precision) <= TwapPrice(a) /\ TwapPrice(a) <= high
<1>1. PICK source, taken, places, p, window, tolerance :
        /\ source = sources[a] /\ taken = snapshots[a] /\ places = Selectable(source, taken, now)
        /\ p = source.pair /\ window = source.window_size /\ tolerance = source.tolerance
  OBVIOUS
<1>2. /\ p \in Pairs /\ PairOf(source) = p /\ window \in Nat /\ tolerance \in Nat
      /\ source \in TwapsOf(a)
  BY <1>1, PairOfTwap, TwapTypes
<1>3. taken \in Seq(SnapshotBy(now)) /\ now \in Nat /\ DOMAIN taken = 1 .. Len(taken)
  BY <1>1, Times, LenProperties
<1>4. places # {} /\ places \subseteq 1 .. Len(taken)
  BY <1>1, <1>3 DEF TwapPrice, Selectable
<1>5. PICK k : k = Min(places)
  OBVIOUS
<1>6. /\ k \in places /\ Oldest(taken, places) = taken[k]
  <2>1. places \subseteq Nat
    BY <1>3, <1>4, LenProperties
  <2> QED
    BY <1>4, <1>5, <2>1, OldestIsFirst
<1>7. PICK previous, t : previous = taken[k] /\ t = previous.timestamp
  OBVIOUS
<1>8. /\ k \in 1 .. Len(taken) /\ previous \in SnapshotBy(now) /\ t \in 0 .. now
      /\ Eligible(source, previous, now) /\ t > pairSince[a]
  <2>1. k \in 1 .. Len(taken) /\ previous \in SnapshotBy(now)
    BY <1>3, <1>4, <1>6, <1>7, ElementOfSeq
  <2>2. t \in 0 .. now
    BY <1>7, <2>1 DEF SnapshotBy
  <2>3. Eligible(source, previous, now)
    BY <1>1, <1>6, <1>7 DEF Selectable
  <2> QED
    BY <1>1, <1>6, <1>7, <2>1, <2>2, <2>3
<1>9. PICK period : period = now - t
  OBVIOUS
<1>10. period \in Nat \ {0} /\ period <= window + tolerance
  <2>1. period # 0
    BY <1>1, <1>6, <1>7, <1>9 DEF TwapPrice
  <2>2. period \in Nat
    BY <1>3, <1>8, <1>9
  <2>3. diff(period, window) <= tolerance
    BY <1>1, <1>7, <1>8, <1>9 DEF Eligible, PeriodDiff
  <2> QED
    BY <1>2, <2>1, <2>2, <2>3 DEF diff
<1>11. PICK prices : prices = past[p]
  OBVIOUS
<1>12. \A j \in 1 .. now : prices[j] \in Rates[p] /\ prices[j] \in Nat
  BY <1>2, <1>11, OracleAssumptions DEF PastInv, PricesAreKnown
<1> DEFINE Seen == {prices[j] : j \in t + 1 .. now}
<1>13. /\ Seen \subseteq Nat /\ Seen # {} /\ Seen \subseteq Rates[p]
       /\ Seen \subseteq SeenBy(source)
  <2>1. \A j \in t + 1 .. now : j \in 1 .. now /\ now - j < window + tolerance
    BY <1>2, <1>3, <1>8, <1>9, <1>10
  <2>2. now \in t + 1 .. now
    BY <1>3, <1>8, <1>9, <1>10
  <2>3. SeenBy(source) = {prices[i] : i \in {j \in 1 .. now : now - j < window + tolerance}}
    BY <1>1, <1>11 DEF SeenBy
  <2>4. Seen \subseteq SeenBy(source)
    BY <2>1, <2>3
  <2> QED
    BY <1>12, <2>1, <2>2, <2>4
<1>14. PICK low \in Seen : \A r \in Seen : low <= r
  BY <1>13, LeastOfSome
<1>15. PICK high \in Seen : \A r \in Seen : r <= high
  <2>1. PICK bound : bound = Total(prices, 1 .. now)
    OBVIOUS
  <2>2. bound \in Nat /\ \A j \in 1 .. now : prices[j] <= bound
    <3>1. PICK seconds : seconds = 1 .. now
      OBVIOUS
    <3>2. IsFiniteSet(seconds) /\ \A x \in seconds : prices[x] \in Nat
      <4>1. 1 \in Int /\ now \in Int
        BY <1>3
      <4> QED
        BY <1>12, <3>1, <4>1, FS_Interval
    <3>3. bound \in Nat
      BY ONLY <2>1, <3>1, <3>2, TotalType
    <3>4. \A x \in seconds : prices[x] <= Total(prices, seconds)
      BY ONLY <3>2, TotalBoundsEntry
    <3> QED
      BY <2>1, <3>1, <3>3, <3>4
  <2>3. \A r \in Seen : r <= bound
    BY <1>3, <1>8, <2>2
  <2> QED
    BY <1>13, <2>2, <2>3, GreatestOfSome
<1>16. low \in Nat /\ high \in Nat /\ high \in Rates[p]
  BY <1>13
<1>17. PICK more \in Nat :
         /\ Added(prices, now) = Added(prices, t) + more
         /\ period * Mul(Precision, low) <= more /\ more <= period * Mul(Precision, high)
  <2>1. \A j \in t + 1 .. now : low <= prices[j] /\ prices[j] <= high
    BY <1>14, <1>15
  <2> QED
    BY <1>3, <1>8, <1>9, <1>12, <1>16, <2>1, AddedBetween
<1>18. more < Wrap
  <2>1. PICK h : h = Mul(Precision, high)
    OBVIOUS
  <2>2. (window + tolerance) * h < Wrap
    BY <1>1, <1>2, <1>16, <2>1 DEF WindowsFit
  <2>3. h \in Nat /\ window + tolerance \in Nat
    BY <1>2, <1>16, <2>1, MulType, OracleAssumptions
  <2>4. period * h <= (window + tolerance) * h /\ period * h \in Nat
    BY <1>10, <2>3, ProductMono, ProductType
  <2>5. (window + tolerance) * h \in Nat /\ Wrap \in Nat
    BY <2>3, ProductType, OracleAssumptions
  <2> QED
    BY <1>17, <2>1, <2>2, <2>4, <2>5
<1>19. PICK delta : delta = Delta(CumulativePrice(p), previous.price_cumulative)
  OBVIOUS
<1>20. delta \in Nat /\ delta \in {more, more - 1}
  <2>1. CumulativePrice(p) = Added(prices, now) % Wrap
    BY <1>2, <1>11 DEF PastInv, CumulativeIsPast
  <2>2. previous.price_cumulative = Added(prices, t) % Wrap
    BY <1>1, <1>2, <1>7, <1>8, <1>11 DEF PastInv, SnapshotsArePast
  <2>3. Added(prices, t) \in Nat
    <3>1. t \in Nat /\ \A j \in 1 .. t : prices[j] \in Nat
      BY <1>3, <1>8, <1>12
    <3> QED
      BY <3>1, AdditionTypes
  <2> QED
    BY <1>17, <1>18, <1>19, <2>1, <2>2, <2>3, DeltaIs
<1>21. TwapPrice(a) = FromRatio(delta, Precision * period)
  BY <1>1, <1>4, <1>6, <1>7, <1>9, <1>10, <1>19 DEF TwapPrice
<1>22. /\ TwapPrice(a) \in Nat /\ TwapPrice(a) <= high
       /\ Coarse(low) - CeilDiv(One, Precision) <= TwapPrice(a)
  BY <1>10, <1>16, <1>17, <1>20, <1>21, AverageBetween DEF Coarse
<1> QED
  BY <1>1, <1>13, <1>14, <1>15, <1>16, <1>22

-----------------------------------------------------------------------------
(* A price is asked for through the sources that refer to other assets. *)

\* The function by which PriceThrough is defined, up to a depth.
IsPrices(f, last) ==
  f = [depth \in 0 .. last |->
         [a \in Assets |-> IF depth = 0 \/ sources[a] = NoSource THEN NoPrice
                           ELSE PriceGiven(a, f[depth - 1])]]

LEMMA PricesAt ==
  ASSUME NEW f, NEW last \in Nat, IsPrices(f, last), NEW n \in 0 .. last
  PROVE  f[n] = [a \in Assets |-> IF n = 0 \/ sources[a] = NoSource THEN NoPrice
                                  ELSE PriceGiven(a, f[n - 1])]
<1> DEFINE g == [depth \in 0 .. last |->
                   [a \in Assets |-> IF depth = 0 \/ sources[a] = NoSource THEN NoPrice
                                     ELSE PriceGiven(a, f[depth - 1])]]
<1>1. g[n] = [a \in Assets |-> IF n = 0 \/ sources[a] = NoSource THEN NoPrice
                               ELSE PriceGiven(a, f[n - 1])]
  OBVIOUS
<1>2. f = g
  BY DEF IsPrices
<1>3. f[n] = g[n]
  BY <1>2, Zenon
<1> HIDE DEF g
<1> QED
  BY <1>1, <1>3

\* There is one up to every depth: the first without one would have it.
LEMMA PricesExist ==
  ASSUME NEW last \in Nat
  PROVE  \E f : IsPrices(f, last)
<1> DEFINE Without == {n \in Nat : ~ \E f : IsPrices(f, n)}
<1>1. SUFFICES ASSUME Without # {}
               PROVE  FALSE
  OBVIOUS
<1>2. PICK n \in Without : \A m \in Without : n <= m
  BY <1>1, LeastOfSome
<1>3. n \in Nat /\ ~ \E f : IsPrices(f, n)
  BY <1>2
<1>4. PICK none : none = [a \in Assets |-> NoPrice]
  OBVIOUS
<1>5. CASE n = 0
  <2> DEFINE f == [depth \in 0 .. n |-> none]
  <2>1. \A depth \in 0 .. n :
          none = [a \in Assets |-> IF depth = 0 \/ sources[a] = NoSource THEN NoPrice
                                   ELSE PriceGiven(a, f[depth - 1])]
    BY <1>4, <1>5
  <2>2. IsPrices(f, n)
    BY <2>1 DEF IsPrices
  <2> QED
    BY <1>3, <2>2
<1>6. CASE n # 0
  <2>1. n - 1 \in Nat /\ n - 1 \notin Without
    BY <1>2, <1>3, <1>6
  <2>2. PICK g : IsPrices(g, n - 1)
    BY <2>1
  <2>3. PICK deepest : deepest = [a \in Assets |-> IF sources[a] = NoSource THEN NoPrice
                                                   ELSE PriceGiven(a, g[n - 1])]
    OBVIOUS
  <2> DEFINE f == [depth \in 0 .. n |-> IF depth = n THEN deepest ELSE g[depth]]
  <2>4. f[n] = deepest /\ \A depth \in 0 .. n - 1 : f[depth] = g[depth]
    BY <1>3
  <2>5. f = [depth \in 0 .. n |-> f[depth]]
    OBVIOUS
  <2> HIDE DEF f
  <2>6. ASSUME NEW depth \in 0 .. n
        PROVE  f[depth] = [a \in Assets |-> IF depth = 0 \/ sources[a] = NoSource THEN NoPrice
                                            ELSE PriceGiven(a, f[depth - 1])]
    <3>1. CASE depth = n
      <4>1. depth # 0 /\ n - 1 \in 0 .. n - 1 /\ f[n - 1] = g[n - 1]
        BY <1>3, <1>6, <2>4, <3>1
      <4> QED
        BY <2>3, <2>4, <3>1, <4>1
    <3>2. CASE depth # n
      <4>1. depth \in 0 .. n - 1 /\ f[depth] = g[depth]
        BY <1>3, <2>4, <3>2
      <4>2. depth # 0 => depth - 1 \in 0 .. n - 1 /\ f[depth - 1] = g[depth - 1]
        BY <1>3, <2>4, <4>1
      <4>3. g[depth] = [a \in Assets |-> IF depth = 0 \/ sources[a] = NoSource THEN NoPrice
                                         ELSE PriceGiven(a, g[depth - 1])]
        BY <2>1, <2>2, <4>1, PricesAt
      <4>4. CASE depth = 0
        BY <4>1, <4>3, <4>4
      <4>5. CASE depth # 0
        BY <4>1, <4>2, <4>3, <4>5
      <4> QED
        BY <4>4, <4>5
    <3> QED
      BY <3>1, <3>2
  <2>7. IsPrices(f, n)
    BY <2>5, <2>6, Zenon DEF IsPrices
  <2> QED
    BY <1>3, <2>7
<1> QED
  BY <1>5, <1>6

LEMMA PricesThroughSources ==
  ASSUME NEW n \in 0 .. Cardinality(Assets)
  PROVE  PriceThrough[n] = [a \in Assets |-> IF n = 0 \/ sources[a] = NoSource THEN NoPrice
                                             ELSE PriceGiven(a, PriceThrough[n - 1])]
<1>1. PICK last : last = Cardinality(Assets)
  OBVIOUS
<1>2. last \in Nat
  BY <1>1, OracleAssumptions, FS_CardinalityType
<1>3. \E f : IsPrices(f, last)
  BY <1>2, PricesExist
<1>4. PICK chosen : chosen = CHOOSE f : IsPrices(f, last)
  OBVIOUS
<1>5. IsPrices(chosen, last)
  BY <1>3, <1>4
<1>6. PriceThrough = chosen
  BY <1>1, <1>4 DEF PriceThrough, IsPrices
<1>7. IsPrices(PriceThrough, last)
  BY <1>5, <1>6
<1> QED
  BY <1>1, <1>2, <1>7, PricesAt

\* The value of a share grows with the prices of the assets of its pool.
LEMMA ShareMono ==
  ASSUME NEW p \in Pairs, Pools[p].share # 0, NEW price, NEW more,
         \A i \in {1, 2} : LET a == Pools[p].assets[i]
                           IN  price[a] \in Nat /\ more[a] \in Nat /\ price[a] <= more[a]
  PROVE  ShareValue(Pools[p], price) <= ShareValue(Pools[p], more)
<1>1. PICK pool, a, b : pool = Pools[p] /\ a = pool.assets[1] /\ b = pool.assets[2]
  OBVIOUS
<1>2. PICK m, n, share : m = pool.amounts[1] /\ n = pool.amounts[2] /\ share = pool.share
  OBVIOUS
<1>3. m \in Nat /\ n \in Nat /\ share \in Nat \ {0}
  BY <1>1, <1>2, OracleAssumptions
<1>4. PICK v, w, x, y : v = price[a] /\ w = price[b] /\ x = more[a] /\ y = more[b]
  OBVIOUS
<1>5. v \in Nat /\ w \in Nat /\ x \in Nat /\ y \in Nat /\ v <= x /\ w <= y
  BY <1>1, <1>4
<1>6. \A i \in {1, 2} : price[pool.assets[i]] # NoPrice /\ more[pool.assets[i]] # NoPrice
  BY <1>1, OracleAssumptions
<1>7. /\ ShareValue(pool, price) = FromRatio(Mul(m, v) + Mul(n, w), share)
      /\ ShareValue(pool, more) = FromRatio(Mul(m, x) + Mul(n, y), share)
  BY <1>1, <1>2, <1>3, <1>4, <1>6 DEF ShareValue
<1>8. /\ Mul(m, v) \in Nat /\ Mul(n, w) \in Nat /\ Mul(m, x) \in Nat /\ Mul(n, y) \in Nat
      /\ Mul(m, v) <= Mul(m, x) /\ Mul(n, w) <= Mul(n, y)
  <2>1. m <= m /\ n <= n
    BY <1>3
  <2>2. Mul(m, v) \in Nat /\ Mul(n, w) \in Nat /\ Mul(m, x) \in Nat /\ Mul(n, y) \in Nat
    BY ONLY <1>3, <1>5, MulType
  <2>3. Mul(m, v) <= Mul(m, x)
    BY ONLY <1>3, <1>5, <2>1, MulMono
  <2>4. Mul(n, w) <= Mul(n, y)
    BY ONLY <1>3, <1>5, <2>1, MulMono
  <2> QED
    BY <2>2, <2>3, <2>4
<1>9. PICK before, after : before = Mul(m, v) + Mul(n, w) /\ after = Mul(m, x) + Mul(n, y)
  OBVIOUS
<1>10. before \in Nat /\ after \in Nat /\ before <= after
  BY <1>8, <1>9
<1> QED
  BY <1>1, <1>3, <1>7, <1>9, <1>10, FromRatioMono

\* A share is worth the same at prices that agree on the assets of its pool.
LEMMA ShareSame ==
  ASSUME NEW pool, NEW price, NEW other,
         \A i \in {1, 2} : price[pool.assets[i]] = other[pool.assets[i]]
  PROVE  ShareValue(pool, price) = ShareValue(pool, other)
BY DEF ShareValue

\* One uusd is configured to be worth one, as a price or as what the chain says.
UstIsOne ==
  \A s \in Offered[Ust] \cup {Configured[Ust]} :
    s # NoSource /\ s \in {[kind |-> "native"], [kind |-> "fixed", price |-> One]}

\* What is answered for an asset with averages, for uusd, and for a share of the
\* pool of the two.
LEMMA PricesOfAverages ==
  ASSUME OracleInv, PastInv, UstIsOne, NEW a \in Assets, IsTwap(sources[a])
  PROVE  /\ a # Ust
         /\ {Pools[sources[a].pair].assets[1], Pools[sources[a].pair].assets[2]} = {Ust, a}
         /\ AssetPrice = [b \in Assets |-> AssetPrice[b]]
         /\ AssetPrice[a] = TwapPrice(a) /\ AssetPrice[Ust] = One
         /\ \A lp \in Assets :
              PairOf(sources[lp]) = sources[a].pair /\ AssetPrice[lp] # NoPrice
                /\ sources[lp].kind = "astroport_liquidity_token" =>
                /\ lp # a /\ lp # Ust
                /\ AssetPrice[lp] = ShareValue(Pools[sources[a].pair], AssetPrice)
<1>1. PICK p, c : p = sources[a].pair /\ c = Cardinality(Assets)
  OBVIOUS
<1>2. p \in Pairs /\ PoolHas(p, a)
  BY <1>1, PairOfTwap DEF PastInv, SourcesFit
<1>3. {Pools[p].assets[1], Pools[p].assets[2]} = {Ust, a} /\ a # Ust
  <2>1. Pools[p].assets[1] # Pools[p].assets[2]
    BY <1>2, OracleAssumptions
  <2>2. {Pools[p].assets[1], Pools[p].assets[2]} = {Ust, a}
    BY <1>2 DEF PoolHas
  <2> QED
    BY <2>1, <2>2
<1>4. c \in Nat /\ c >= 2
  <2>1. {Ust, a} \subseteq Assets /\ IsFiniteSet(Assets) /\ c \in Nat
    BY <1>1, OracleAssumptions, FS_CardinalityType
  <2>2. Cardinality({Ust, a}) = 2
    <3>1. /\ IsFiniteSet({Ust}) /\ Cardinality({Ust}) = 1
      BY FS_Singleton
    <3>2. Cardinality({Ust} \cup {a}) = Cardinality({Ust}) + 1
      BY <1>3, <3>1, FS_AddElement
    <3>3. {Ust} \cup {a} = {Ust, a}
      OBVIOUS
    <3> QED
      BY <3>1, <3>2, <3>3
  <2>3. Cardinality({Ust, a}) <= Cardinality(Assets)
    BY <2>1, FS_Subset
  <2> QED
    BY <1>1, <2>1, <2>2, <2>3
<1>5. PICK below, price : below = PriceThrough[c - 1] /\ price = PriceThrough[c]
  OBVIOUS
<1>6. ASSUME NEW n \in {c - 1, c}, NEW b \in Assets, sources[b] # NoSource
      PROVE  PriceThrough[n][b] = PriceGiven(b, PriceThrough[n - 1])
  <2>1. n \in 0 .. c /\ n # 0
    BY <1>4
  <2>2. PriceThrough[n] = [x \in Assets |-> IF n = 0 \/ sources[x] = NoSource THEN NoPrice
                                            ELSE PriceGiven(x, PriceThrough[n - 1])]
    BY <1>1, <2>1, PricesThroughSources
  <2> QED
    BY <1>6, <2>1, <2>2
<1>7. sources[a] # NoSource /\ sources[a].kind = "astroport_twap"
  BY DEF IsTwap
<1>8. \A rest : PriceGiven(a, rest) = TwapPrice(a)
  BY <1>7 DEF PriceGiven, Hubs
<1>9. price[a] = TwapPrice(a) /\ below[a] = TwapPrice(a)
  BY <1>5, <1>6, <1>7, <1>8
<1>10. /\ sources[Ust] # NoSource
       /\ sources[Ust] \in {[kind |-> "native"], [kind |-> "fixed", price |-> One]}
  BY OracleAssumptions DEF OracleInv, TypeOK, UstIsOne
<1>11. below[Ust] = One
  <2>1. \/ sources[Ust].kind = "native"
        \/ sources[Ust].kind = "fixed" /\ sources[Ust].price = One
    BY <1>10
  <2>2. \A rest : PriceGiven(Ust, rest) = One
    BY <2>1 DEF PriceGiven, Hubs, NativeRate
  <2> QED
    BY <1>5, <1>6, <1>10, <2>2, OracleAssumptions
<1>12. AssetPrice = [price EXCEPT ![Ust] = One]
  BY <1>1, <1>5 DEF AssetPrice, QueryAssetPrice
<1>13. price = [b \in Assets |-> price[b]]
  <2>1. c \in 0 .. c /\ c # 0
    BY <1>4
  <2> QED
    BY <1>1, <1>5, <2>1, PricesThroughSources
<1>14. /\ AssetPrice = [b \in Assets |-> AssetPrice[b]] /\ AssetPrice[Ust] = One
       /\ \A b \in Assets \ {Ust} : AssetPrice[b] = price[b]
  BY <1>12, <1>13, OracleAssumptions
<1>15. ASSUME NEW lp \in Assets, PairOf(sources[lp]) = p, AssetPrice[lp] # NoPrice,
              sources[lp].kind = "astroport_liquidity_token"
       PROVE  /\ lp # a /\ lp # Ust
              /\ AssetPrice[lp] = ShareValue(Pools[p], AssetPrice)
  <2>1. lp # a /\ lp # Ust
    <3>1. sources[Ust].kind \in {"native", "fixed"}
      BY <1>10
    <3> QED
      BY <1>7, <1>15, <3>1
  <2>2. AssetPrice[lp] = price[lp]
    BY <1>14, <2>1
  <2>3. sources[lp] # NoSource
    <3>1. \A b \in Assets : sources[b] = NoSource => price[b] = NoPrice
      <4>1. c \in 0 .. c
        BY <1>4
      <4> QED
        BY <1>1, <1>5, <4>1, PricesThroughSources
    <3> QED
      BY <1>15, <2>2, <3>1
  <2>4. price[lp] = PriceGiven(lp, below)
    BY <1>5, <1>6, <2>3
  <2>5. PriceGiven(lp, below) = ShareValue(Pools[sources[lp].pair], below)
    BY <1>15 DEF PriceGiven, Hubs
  <2>6. sources[lp].pair = p
    <3>1. sources[lp] \in Offered[lp] \cup ({Configured[lp]} \ {NoSource})
      BY <2>3 DEF OracleInv, TypeOK
    <3>2. IsSource(sources[lp])
      BY <3>1, OracleAssumptions
    <3>3. "pair" \in DOMAIN sources[lp]
      BY <1>15, <3>2 DEF IsSource, SourceFields
    <3> QED
      BY <1>15, <2>3, <3>3 DEF PairOf
  <2>7. \A i \in {1, 2} : below[Pools[p].assets[i]] = AssetPrice[Pools[p].assets[i]]
    <3>1. AssetPrice[a] = below[a] /\ AssetPrice[Ust] = below[Ust]
      BY <1>3, <1>9, <1>11, <1>14
    <3>2. \A i \in {1, 2} : Pools[p].assets[i] = a \/ Pools[p].assets[i] = Ust
      BY <1>3
    <3> QED
      BY <3>1, <3>2
  <2>8. ShareValue(Pools[p], below) = ShareValue(Pools[p], AssetPrice)
    BY <2>7, ShareSame
  <2> QED
    BY <2>1, <2>2, <2>4, <2>5, <2>6, <2>8
<1> QED
  BY <1>1, <1>3, <1>9, <1>14, <1>15

-----------------------------------------------------------------------------
(* Averages, and shares of the pools they are of. *)

\* How far a price of the asset decides what a share is worth.
LEMMA SharesBetween ==
  ASSUME OracleInv, PastInv, UstIsOne, NEW a \in Assets, IsTwap(sources[a]),
         TwapPrice(a) \in Nat, NEW lp \in Assets,
         PairOf(sources[lp]) = sources[a].pair, AssetPrice[lp] # NoPrice,
         sources[lp].kind = "astroport_liquidity_token",
         NEW below \in Nat, NEW above \in Nat, below <= TwapPrice(a), TwapPrice(a) <= above
  PROVE  /\ ShareValue(Pools[sources[a].pair], [AssetPrice EXCEPT ![a] = below]) <= AssetPrice[lp]
         /\ AssetPrice[lp] <= ShareValue(Pools[sources[a].pair], [AssetPrice EXCEPT ![a] = above])
<1>1. PICK p, price, lower, higher :
        /\ p = sources[a].pair /\ price = AssetPrice
        /\ lower = [price EXCEPT ![a] = below] /\ higher = [price EXCEPT ![a] = above]
  OBVIOUS
<1>2. /\ a # Ust /\ p \in Pairs
      /\ {Pools[p].assets[1], Pools[p].assets[2]} = {Ust, a}
      /\ price = [b \in Assets |-> price[b]]
      /\ price[a] = TwapPrice(a) /\ price[Ust] = One
      /\ price[lp] = ShareValue(Pools[p], price)
  BY <1>1, PricesOfAverages, PairOfTwap
<1>3. /\ lower[a] = below /\ higher[a] = above /\ lower[Ust] = One /\ higher[Ust] = One
  BY <1>1, <1>2, OracleAssumptions
<1>4. Pools[p].share # 0
  BY <1>1, <1>2 DEF ShareValue
<1>5. \A i \in {1, 2} : LET b == Pools[p].assets[i]
                        IN  /\ lower[b] \in Nat /\ price[b] \in Nat /\ higher[b] \in Nat
                            /\ lower[b] <= price[b] /\ price[b] <= higher[b]
  <2>1. \A b \in {Ust, a} : /\ lower[b] \in Nat /\ price[b] \in Nat /\ higher[b] \in Nat
                            /\ lower[b] <= price[b] /\ price[b] <= higher[b]
    BY <1>2, <1>3, OneAssumption
  <2>2. \A i \in {1, 2} : Pools[p].assets[i] \in {Ust, a}
    BY <1>2
  <2> QED
    BY <2>1, <2>2
<1>6. /\ ShareValue(Pools[p], lower) <= ShareValue(Pools[p], price)
      /\ ShareValue(Pools[p], price) <= ShareValue(Pools[p], higher)
  BY <1>2, <1>4, <1>5, ShareMono
<1> QED
  BY <1>1, <1>2, <1>6

\* An average taken since the pair was set lies between two prices of the pair in
\* the window, but for the places a cumulative price has not and for the unit of it
\* that a wrap costs, and so does a share of the pool at these prices: whatever the
\* pair does in a second, and even if its cumulative price has overflown.
THEOREM AveragesStayWithin ==
  ASSUME WindowsFit, UstIsOne
  PROVE  Spec => []AveragesWithinWindow
<1>1. OracleInv /\ PastInv => AveragesWithinWindow
  <2> SUFFICES ASSUME OracleInv, PastInv, NEW a \in Assets, IsTwap(sources[a]),
                      AssetPrice[a] # NoPrice,
                      Oldest(snapshots[a], Selectable(sources[a], snapshots[a], now)).timestamp
                        > pairSince[a]
               PROVE  \E low, high \in SeenBy(sources[a]) :
                        LET slack == CeilDiv(One, Precision)
                            AtPrice(p) ==
                              ShareValue(Pools[sources[a].pair], [AssetPrice EXCEPT ![a] = p])
                        IN  /\ Coarse(low) - slack <= AssetPrice[a] /\ AssetPrice[a] <= high
                            /\ \A lp \in Assets :
                                 PairOf(sources[lp]) = PairOf(sources[a])
                                   /\ sources[lp].kind = "astroport_liquidity_token"
                                   /\ AssetPrice[lp] # NoPrice =>
                                     /\ AtPrice(SmallerOf(AssetPrice[a], low)) <= AssetPrice[lp]
                                     /\ AssetPrice[lp] <= AtPrice(high)
    BY DEF AveragesWithinWindow, QueryAssetPriceSource
  <2>1. AssetPrice[a] = TwapPrice(a) /\ TwapPrice(a) # NoPrice
    BY PricesOfAverages
  <2>2. PICK low, high \in SeenBy(sources[a]) :
          /\ TwapPrice(a) \in Nat /\ low \in Nat /\ high \in Nat
          /\ Coarse(low) - CeilDiv(One, Precision) <= TwapPrice(a) /\ TwapPrice(a) <= high
    BY <2>1, AverageWithin
  <2>3. PICK least : least = SmallerOf(AssetPrice[a], low)
    OBVIOUS
  <2>4. least \in Nat /\ least <= TwapPrice(a)
    BY <2>1, <2>2, <2>3 DEF SmallerOf
  <2>5. PairOf(sources[a]) = sources[a].pair
    BY PairOfTwap
  <2>6. ASSUME NEW lp \in Assets, PairOf(sources[lp]) = PairOf(sources[a]),
               sources[lp].kind = "astroport_liquidity_token", AssetPrice[lp] # NoPrice
        PROVE  /\ ShareValue(Pools[sources[a].pair], [AssetPrice EXCEPT ![a] = least])
                    <= AssetPrice[lp]
               /\ AssetPrice[lp]
                    <= ShareValue(Pools[sources[a].pair], [AssetPrice EXCEPT ![a] = high])
    BY <2>2, <2>4, <2>5, <2>6, SharesBetween
  <2> QED
    BY <2>1, <2>2, <2>3, <2>6
<1>2. Init => PastInv
  BY PastInitially
<1>3. OracleInv /\ PastInv /\ [Next]_vars => PastInv'
  BY PastStep
<1> QED
  BY <1>1, <1>2, <1>3, OracleCorrect, PTL DEF Spec

=============================================================================
