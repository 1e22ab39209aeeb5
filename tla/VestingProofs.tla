--------------------------- MODULE VestingProofs ----------------------------
(***************************************************************************)
(* What the vesting contract guarantees for any accounts, amounts and      *)
(* schedules: nobody withdraws more than is released, the voting power is  *)
(* the MARS that is locked, and its snapshots never change their answer.   *)
(***************************************************************************)
EXTENDS Vesting, CommonProofs

-----------------------------------------------------------------------------
(* Schedules. *)

\* Released at any time, not the present one alone.
ReleasedAt(amount, schedule, now) ==
  CASE now < schedule.start_time + schedule.cliff -> 0
    [] /\ now >= schedule.start_time + schedule.cliff
       /\ now < schedule.start_time + schedule.duration ->
         (amount * (now - schedule.start_time)) \div schedule.duration
    [] OTHER -> amount

ReleasableAt(allocation, now) ==
  SmallerOf(ReleasedAt(allocation.allocated_amount, allocation.vest_schedule, now),
            ReleasedAt(allocation.allocated_amount, UnlockSchedule, now))

\* A schedule releases no more than there is, and takes nothing back: the part
\* that grows with time is below the whole, also when the cliff is beyond the
\* duration.
LEMMA ReleasedGrows ==
  ASSUME NEW amount \in Nat, NEW schedule \in Schedules, NEW now \in Nat, NEW later \in Nat,
         now <= later
  PROVE  /\ ReleasedAt(amount, schedule, now) \in 0 .. amount
         /\ ReleasedAt(amount, schedule, now) <= ReleasedAt(amount, schedule, later)
<1>1. PICK s, c, d : s = schedule.start_time /\ c = schedule.cliff /\ d = schedule.duration
  OBVIOUS
<1>2. s \in Nat /\ c \in Nat /\ d \in Nat
  BY <1>1 DEF Schedules
<1> DEFINE Part(t) == (amount * (t - s)) \div d
<1>3. ASSUME NEW t \in Nat, t >= s + c, t < s + d
      PROVE  d \in Nat \ {0} /\ t - s \in Nat /\ amount * (t - s) \in Nat
             /\ Part(t) \in 0 .. amount
  <2>1. d \in Nat \ {0} /\ t - s \in Nat /\ t - s <= d
    BY <1>2, <1>3
  <2>2. PICK e : e = t - s
    OBVIOUS
  <2>3. amount * e \in Nat /\ amount * e <= amount * d
    BY <2>1, <2>2, ProductType, SMT
  <2>4. (amount * e) \div d <= amount /\ (amount * e) \div d \in Nat
    BY <2>1, <2>3, DivUpper, DivFloor
  <2> QED
    BY <2>1, <2>2, <2>3, <2>4
<1>4. ASSUME NEW t \in Nat
      PROVE  ReleasedAt(amount, schedule, t) =
               IF t < s + c THEN 0 ELSE IF t < s + d THEN Part(t) ELSE amount
  <2>1. ReleasedAt(amount, schedule, t) =
          CASE t < s + c -> 0
            [] t >= s + c /\ t < s + d -> Part(t)
            [] OTHER -> amount
    BY <1>1, Zenon DEF ReleasedAt
  <2> HIDE DEF Part
  <2>2. CASE t < s + c
    BY <1>2, <2>1, <2>2
  <2>3. CASE t >= s + c /\ t < s + d
    BY <1>2, <2>1, <2>3
  <2>4. CASE t >= s + c /\ t >= s + d
    BY <1>2, <2>1, <2>4
  <2> QED
    BY <1>2, <2>2, <2>3, <2>4
<1>5. ASSUME now >= s + c, later < s + d
      PROVE  Part(now) <= Part(later)
  <2>1. /\ later >= s + c /\ now < s + d
        /\ now - s \in Nat /\ later - s \in Nat /\ now - s <= later - s
    BY <1>2, <1>5
  <2>2. PICK e, f : e = now - s /\ f = later - s
    OBVIOUS
  <2>3. amount * e \in Nat /\ amount * f \in Nat /\ amount * e <= amount * f
    BY <2>1, <2>2, ProductType, SMT
  <2>4. d \in Nat \ {0}
    BY <1>3, <1>5, <2>1
  <2> QED
    BY <2>2, <2>3, <2>4, DivMono
<1>6. /\ now >= s + c /\ now < s + d => Part(now) \in 0 .. amount
      /\ later >= s + c /\ later < s + d => Part(later) \in 0 .. amount
  BY <1>3
<1> HIDE DEF Part
<1>7. ReleasedAt(amount, schedule, now) \in 0 .. amount
  BY <1>2, <1>4, <1>6
<1>8. ReleasedAt(amount, schedule, now) <= ReleasedAt(amount, schedule, later)
  <2>1. CASE later < s + c
    BY <1>2, <1>4, <2>1
  <2>2. CASE later >= s + c /\ later < s + d
    BY <1>2, <1>4, <1>5, <1>6, <2>2
  <2>3. CASE later >= s + c /\ later >= s + d
    BY <1>2, <1>4, <1>7, <2>3
  <2> QED
    BY <1>2, <2>1, <2>2, <2>3
<1> QED
  BY <1>7, <1>8

\* The same of what vesting and unlocking release together.
LEMMA ReleasableGrows ==
  ASSUME NEW allocation \in Allocations, NEW now \in Nat, NEW later \in Nat, now <= later
  PROVE  /\ ReleasableAt(allocation, now) \in 0 .. allocation.allocated_amount
         /\ ReleasableAt(allocation, now) <= ReleasableAt(allocation, later)
<1>1. PICK a, s : a = allocation.allocated_amount /\ s = allocation.vest_schedule
  OBVIOUS
<1>2. a \in Nat /\ s \in Schedules /\ UnlockSchedule \in Schedules
  BY <1>1, VestingAssumptions DEF Allocations
<1>3. /\ ReleasedAt(a, s, now) \in 0 .. a
      /\ ReleasedAt(a, s, now) <= ReleasedAt(a, s, later)
      /\ ReleasedAt(a, UnlockSchedule, now) \in 0 .. a
      /\ ReleasedAt(a, UnlockSchedule, now) <= ReleasedAt(a, UnlockSchedule, later)
      /\ ReleasedAt(a, s, later) \in 0 .. a
      /\ ReleasedAt(a, UnlockSchedule, later) \in 0 .. a
  <2>1. later <= later
    OBVIOUS
  <2> QED
    BY <1>2, <2>1, ReleasedGrows
<1> QED
  BY <1>1, <1>2, <1>3 DEF ReleasableAt, SmallerOf

-----------------------------------------------------------------------------
(* The invariant. *)

\* Allocations from which no more was withdrawn than is released by now.
SoundAllocation(allocation, now) ==
  allocation \in Allocations /\ allocation.withdrawn_amount <= ReleasableAt(allocation, now)

\* The locked MARS of an allocation, or of none.
LockedIn(allocation) ==
  IF allocation = NoAllocation THEN 0
  ELSE allocation.allocated_amount - allocation.withdrawn_amount

\* PowersAddUp is not inductive: the last snapshots must be what is locked and
\* what the contract holds, and that the sum of what is locked.
VestingInv ==
  /\ height \in Nat \ {0} /\ time \in Nat
  /\ allocations \in [Accounts -> Allocations \cup {NoAllocation}]
  /\ \A u \in Accounts : allocations[u] # NoAllocation => SoundAllocation(allocations[u], time)
  /\ powerSnapshots = [u \in Accounts |-> powerSnapshots[u]]
  /\ \A u \in Accounts : /\ IsHistory(powerSnapshots[u], height)
                         /\ VotingPowerAt(u, height) = LockedIn(allocations[u])
  /\ IsHistory(totalSnapshots, height)
  /\ TotalVotingPowerAt(height) = mars
  /\ mars = Total(Locked, Accounts) /\ mars <= MaxMars
  /\ PowersAddUp

\* In no block before the present one do the snapshots answer anything else.
PastStays == \A block \in 0 .. height - 1 : PowerAt(block)' = PowerAt(block)

LEMMA LockedInType ==
  ASSUME NEW now \in Nat, NEW allocation, SoundAllocation(allocation, now)
  PROVE  LockedIn(allocation) \in Nat
<1>1. now <= now
  OBVIOUS
<1>2. /\ ReleasableAt(allocation, now) \in 0 .. allocation.allocated_amount
      /\ allocation \in Allocations /\ allocation.withdrawn_amount <= ReleasableAt(allocation, now)
  BY <1>1, ReleasableGrows DEF SoundAllocation
<1>3. PICK a, w : a = allocation.allocated_amount /\ w = allocation.withdrawn_amount
  OBVIOUS
<1>4. a \in Nat /\ w \in Nat
  BY <1>2, <1>3 DEF Allocations
<1>5. a - w \in Nat
  BY <1>2, <1>3, <1>4
<1>6. allocation # NoAllocation
  BY <1>2, VestingAssumptions
<1> QED
  BY <1>3, <1>5, <1>6 DEF LockedIn

\* What is locked, by account.
LEMMA LockedFacts ==
  ASSUME VestingInv
  PROVE  /\ \A u \in Accounts : Locked[u] = LockedIn(allocations[u]) /\ Locked[u] \in Nat
         /\ Locked = [u \in Accounts |-> LockedIn(allocations[u])]
         /\ mars \in Nat /\ IsFiniteSet(Accounts)
<1>1. ASSUME NEW u \in Accounts
      PROVE  LockedIn(allocations[u]) \in Nat
  <2>1. CASE allocations[u] = NoAllocation
    BY <2>1 DEF LockedIn
  <2>2. CASE allocations[u] # NoAllocation
    BY <2>2, LockedInType DEF VestingInv
  <2> QED
    BY <2>1, <2>2
<1>2. \A u \in Accounts : LockedOf(u) = LockedIn(allocations[u])
  BY DEF LockedOf, LockedIn, Allocated, QueryAllocation
<1>3. Locked = [u \in Accounts |-> LockedIn(allocations[u])]
  BY <1>2 DEF Locked
<1>4. \A u \in Accounts : Locked[u] = LockedIn(allocations[u]) /\ Locked[u] \in Nat
  BY <1>1, <1>3
<1> QED
  BY <1>3, <1>4, TotalType, VestingAssumptions DEF VestingInv

LEMMA VestingInvInit == Init => VestingInv
<1> SUFFICES ASSUME Init
             PROVE  VestingInv
  OBVIOUS
<1>1. /\ height = 1 /\ time = 0 /\ mars = 0
      /\ allocations = [u \in Accounts |-> NoAllocation]
      /\ powerSnapshots = [u \in Accounts |-> NoHistory] /\ totalSnapshots = NoHistory
  BY DEF Init
<1>2. IsHistory(NoHistory, 1) /\ ValueAt(NoHistory, 1) = 0 /\ ValueAt(NoHistory, 0) = 0
  BY ValueAtNothing DEF IsHistory, NoHistory
<1>3. \A u \in Accounts : Locked[u] = 0 /\ LockedIn(allocations[u]) = 0
  BY <1>1 DEF Locked, LockedOf, Allocated, LockedIn
<1>4. Total(Locked, Accounts) = 0
  BY <1>3, TotalZero
<1>5. PowersAddUp
  <2>1. ASSUME NEW block \in 0 .. height
        PROVE  Total(PowerAt(block), Accounts) = TotalVotingPowerAt(block)
    <3>1. /\ \A u \in Accounts : PowerAt(block)[u] = 0
          /\ TotalVotingPowerAt(block) = 0
      BY <1>1, ValueAtNothing DEF PowerAt, VotingPowerAt, TotalVotingPowerAt
    <3> QED
      BY <3>1, TotalZero
  <2> QED
    BY <2>1 DEF PowersAddUp
<1> QED
  BY <1>1, <1>2, <1>3, <1>4, <1>5, VestingAssumptions
     DEF VestingInv, VotingPowerAt, TotalVotingPowerAt

\* An allocation is replaced, and the power it gives and the total are captured.
LEMMA CaptureStep ==
  ASSUME VestingInv, height' = height, time' = time,
         NEW u \in Accounts, NEW allocation, SoundAllocation(allocation, time),
         allocations' = [allocations EXCEPT ![u] = allocation],
         NEW left, left = LockedIn(allocation),
         NEW change, change = left - LockedIn(allocations[u]),
         CapturePower(u, left), CaptureTotal(change), mars' = mars + change,
         mars + change <= MaxMars
  PROVE  VestingInv' /\ PastStays
<1>1. PICK f, g : /\ f = Locked
                  /\ g = [v \in Accounts |-> IF v = u THEN left ELSE Locked[v]]
  OBVIOUS
<1>2. /\ \A v \in Accounts : f[v] = LockedIn(allocations[v]) /\ f[v] \in Nat
      /\ IsFiniteSet(Accounts) /\ mars \in Nat /\ mars = Total(f, Accounts)
      /\ height \in Nat \ {0} /\ time \in Nat
  BY <1>1, LockedFacts DEF VestingInv
<1>3. left \in Nat /\ allocation \in Allocations /\ allocation # NoAllocation
  BY <1>2, LockedInType, VestingAssumptions DEF SoundAllocation
<1>4. /\ allocations' \in [Accounts -> Allocations \cup {NoAllocation}]
      /\ allocations'[u] = allocation
      /\ \A v \in Accounts \ {u} : allocations'[v] = allocations[v]
  BY <1>3 DEF VestingInv
<1>5. \A v \in Accounts : LockedIn(allocations'[v]) = g[v]
  BY <1>1, <1>2, <1>4
<1>6. Locked' = g
  <2>1. \A v \in Accounts : LockedOf(v)' = LockedIn(allocations'[v])
    BY DEF LockedOf, LockedIn, Allocated, QueryAllocation
  <2> QED
    BY <1>1, <1>5, <2>1 DEF Locked
<1>7. /\ mars + change = Total(g, Accounts) /\ mars + change \in Nat
  <2>1. \A v \in Accounts : f[v] \in Nat /\ g[v] \in Nat
    BY <1>1, <1>2, <1>3
  <2>2. \A v \in Accounts \ {u} : g[v] = f[v]
    BY <1>1
  <2>3. /\ Total(g, Accounts) = (Total(f, Accounts) - f[u]) + g[u]
        /\ Total(f, Accounts) \in Nat /\ Total(g, Accounts) \in Nat
    BY <1>2, <2>1, <2>2, TotalChange
  <2>4. g[u] = left /\ f[u] \in Nat /\ change = left - f[u]
    BY <1>1, <1>2
  <2> QED
    BY <1>2, <1>3, <2>3, <2>4
<1>8. ASSUME NEW v \in Accounts
      PROVE  /\ IsHistory(powerSnapshots'[v], height)
             /\ ValueAt(powerSnapshots'[v], height) = g[v]
             /\ \A block \in 0 .. height - 1 :
                  ValueAt(powerSnapshots'[v], block) = ValueAt(powerSnapshots[v], block)
  <2>1. /\ IsHistory(powerSnapshots[v], height)
        /\ ValueAt(powerSnapshots[v], height) = f[v]
        /\ v \in DOMAIN powerSnapshots
    <3>1. powerSnapshots = [w \in Accounts |-> powerSnapshots[w]]
      BY DEF VestingInv
    <3>2. v \in DOMAIN powerSnapshots
      BY <3>1
    <3> QED
      BY <1>2, <3>2 DEF VestingInv, VotingPowerAt
  <2>2. CASE v = u
    <3>1. powerSnapshots'[v] = Captured(powerSnapshots[v], height, left)
      BY <2>1, <2>2 DEF CapturePower
    <3> QED
      BY <1>1, <1>2, <1>3, <2>1, <2>2, <3>1, ValueAtCaptured
  <2>3. CASE v # u
    <3>1. powerSnapshots'[v] = powerSnapshots[v] /\ g[v] = f[v]
      BY <1>1, <2>1, <2>3 DEF CapturePower
    <3> QED
      BY <2>1, <3>1
  <2> QED
    BY <2>2, <2>3
<1>9. /\ IsHistory(totalSnapshots', height)
      /\ ValueAt(totalSnapshots', height) = mars + change
      /\ \A block \in 0 .. height - 1 :
           ValueAt(totalSnapshots', block) = ValueAt(totalSnapshots, block)
  <2>1. totalSnapshots' = Captured(totalSnapshots, height, mars + change)
    BY DEF CaptureTotal, VestingInv
  <2>2. IsHistory(totalSnapshots, height)
    BY DEF VestingInv
  <2> QED
    BY <1>2, <1>7, <2>1, <2>2, ValueAtCaptured
<1>10. PastStays
  BY <1>8 DEF PastStays, PowerAt, VotingPowerAt
<1>11. PowersAddUp'
  <2>1. ASSUME NEW block \in 0 .. height
        PROVE  Total(PowerAt(block)', Accounts) = TotalVotingPowerAt(block)'
    <3>1. CASE block = height
      <4>1. \A v \in Accounts : PowerAt(block)'[v] = g[v]
        BY <1>8, <3>1 DEF PowerAt, VotingPowerAt
      <4>2. Total(PowerAt(block)', Accounts) = Total(g, Accounts)
        BY <4>1, TotalAgree
      <4> QED
        BY <1>7, <1>9, <3>1, <4>2 DEF TotalVotingPowerAt
    <3>2. CASE block # height
      <4>1. block \in 0 .. height - 1
        BY <1>2, <3>2
      <4>2. PowerAt(block)' = PowerAt(block) /\ TotalVotingPowerAt(block)' = TotalVotingPowerAt(block)
        BY <1>9, <1>10, <4>1 DEF PastStays, TotalVotingPowerAt
      <4> QED
        BY <4>2 DEF VestingInv, PowersAddUp
    <3> QED
      BY <3>1, <3>2
  <2> QED
    BY <2>1 DEF PowersAddUp
<1>12. powerSnapshots' = [v \in Accounts |-> powerSnapshots'[v]]
  BY DEF VestingInv, CapturePower
<1>13. \A v \in Accounts : allocations'[v] # NoAllocation => SoundAllocation(allocations'[v], time)
  BY <1>4 DEF VestingInv
<1>14. VestingInv'
  <2>1. mars' = Total(Locked', Accounts) /\ mars' <= MaxMars
    BY <1>6, <1>7
  <2>2. \A v \in Accounts : /\ IsHistory(powerSnapshots'[v], height')
                            /\ VotingPowerAt(v, height)' = LockedIn(allocations'[v])
    BY <1>5, <1>8 DEF VotingPowerAt
  <2>3. IsHistory(totalSnapshots', height') /\ TotalVotingPowerAt(height)' = mars'
    BY <1>9 DEF TotalVotingPowerAt
  <2> QED
    BY <1>2, <1>4, <1>11, <1>12, <1>13, <2>1, <2>2, <2>3 DEF VestingInv
<1> QED
  BY <1>10, <1>14

\* A new allocation: nothing is withdrawn, all of it is locked.
LEMMA CreateStep ==
  ASSUME VestingInv, NEW u \in Accounts, NEW amount \in Amounts, NEW schedule \in VestSchedules,
         CreateAllocation(u, amount, schedule)
  PROVE  VestingInv' /\ PastStays
<1>1. PICK allocation :
        allocation = [allocated_amount |-> amount, withdrawn_amount |-> 0,
                      vest_schedule |-> schedule]
  OBVIOUS
<1>2. amount \in Nat /\ schedule \in Schedules /\ mars \in Nat /\ time \in Nat
  BY LockedFacts, VestingAssumptions DEF VestingInv
<1>3. allocation \in Allocations /\ allocation # NoAllocation
  BY <1>1, <1>2, VestingAssumptions DEF Allocations
<1>4. SoundAllocation(allocation, time)
  <2>1. time <= time
    BY <1>2
  <2>2. ReleasableAt(allocation, time) \in 0 .. allocation.allocated_amount
    BY <1>2, <1>3, <2>1, ReleasableGrows
  <2> QED
    BY <1>1, <1>2, <1>3, <2>2 DEF SoundAllocation
<1>5. LockedIn(allocation) = amount
  BY <1>1, <1>2, <1>3 DEF LockedIn
<1>6. /\ allocations' = [allocations EXCEPT ![u] = allocation]
      /\ LockedIn(allocations[u]) = 0 /\ CapturePower(u, amount) /\ CaptureTotal(amount)
      /\ mars' = mars + amount /\ mars + amount <= MaxMars
      /\ height' = height /\ time' = time
  BY <1>1 DEF CreateAllocation, LockedIn
<1>7. amount = amount - LockedIn(allocations[u])
  BY <1>2, <1>6
<1> QED
  BY <1>4, <1>5, <1>6, <1>7, CaptureStep

\* A withdrawal of all that is released: what was withdrawn is then what is
\* released, and what is locked the rest.
LEMMA WithdrawStep ==
  ASSUME VestingInv, NEW u \in Accounts, Withdraw(u)
  PROVE  VestingInv' /\ PastStays
<1>1. PICK old, a, w, r : /\ old = allocations[u] /\ a = old.allocated_amount
                          /\ w = old.withdrawn_amount /\ r = ReleasableAt(old, time)
  OBVIOUS
<1>2. /\ old # NoAllocation /\ time \in Nat /\ mars \in Nat /\ mars <= MaxMars
      /\ MaxMars \in Nat
  BY <1>1, LockedFacts, VestingAssumptions DEF VestingInv, Withdraw
<1>3. old \in Allocations /\ w <= r
  BY <1>1, <1>2 DEF VestingInv, SoundAllocation
<1>4. a \in Nat /\ w \in Nat /\ r \in 0 .. a
  <2>1. time <= time
    BY <1>2
  <2> QED
    BY <1>1, <1>2, <1>3, <2>1, ReleasableGrows DEF Allocations
<1>5. Withdrawable(allocations[u]) = r - w
  BY <1>1 DEF Withdrawable, Releasable, ReleasableAt, Released, ReleasedAt
<1>6. /\ allocations' = [allocations EXCEPT ![u].withdrawn_amount = @ + (r - w)]
      /\ CapturePower(u, VotingPowerAt(u, height) - (r - w)) /\ CaptureTotal(-(r - w))
      /\ mars' = mars - (r - w) /\ r - w <= mars
      /\ height' = height /\ time' = time
  BY <1>5 DEF Withdraw
<1>7. PICK new : new = [old EXCEPT !.withdrawn_amount = r]
  OBVIOUS
<1>8. /\ new \in Allocations /\ new # NoAllocation
      /\ new.allocated_amount = a /\ new.vest_schedule = old.vest_schedule
      /\ new.withdrawn_amount = r
  BY <1>1, <1>3, <1>4, <1>7, VestingAssumptions DEF Allocations
<1>9. SoundAllocation(new, time)
  <2>1. ReleasableAt(new, time) = r
    BY <1>1, <1>8 DEF ReleasableAt
  <2> QED
    BY <1>4, <1>8, <2>1 DEF SoundAllocation
<1>10. allocations' = [allocations EXCEPT ![u] = new]
  <2>1. w + (r - w) = r
    BY <1>4
  <2>2. allocations' = [allocations EXCEPT ![u] = [old EXCEPT !.withdrawn_amount = w + (r - w)]]
    BY <1>1, <1>6
  <2> QED
    BY <1>7, <2>1, <2>2
<1>11. LockedIn(new) = a - r /\ LockedIn(allocations[u]) = a - w
  BY <1>1, <1>2, <1>8 DEF LockedIn
<1>12. PICK left, change : left = LockedIn(new) /\ change = -(r - w)
  OBVIOUS
<1>13. /\ VotingPowerAt(u, height) - (r - w) = left
       /\ change = left - LockedIn(allocations[u])
       /\ mars - (r - w) = mars + change /\ mars + change <= MaxMars
  <2>1. VotingPowerAt(u, height) = LockedIn(allocations[u])
    BY DEF VestingInv
  <2> QED
    BY <1>2, <1>3, <1>4, <1>11, <1>12, <2>1
<1>14. CapturePower(u, left) /\ CaptureTotal(change) /\ mars' = mars + change
  BY <1>6, <1>12, <1>13
<1> QED
  BY <1>6, <1>9, <1>10, <1>12, <1>13, <1>14, CaptureStep

\* A block ends: what is locked is what the snapshots answer for it, and nobody
\* has less released afterwards.
LEMMA BlockStep ==
  ASSUME VestingInv, BlockPasses
  PROVE  /\ VestingInv' /\ PastStays
         /\ \A block : block = height => PowerAt(block)' = Locked
<1>1. /\ height' = height + 1 /\ time' \in {time, time + 1}
      /\ UNCHANGED <<allocations, powerSnapshots, totalSnapshots, mars>>
      /\ height \in Nat \ {0} /\ time \in Nat
  BY DEF BlockPasses, VestingInv
<1>2. \A u \in Accounts :
        /\ IsHistory(powerSnapshots[u], height + 1)
        /\ ValueAt(powerSnapshots[u], height + 1) = LockedIn(allocations[u])
  <2>1. ASSUME NEW u \in Accounts
        PROVE  /\ IsHistory(powerSnapshots[u], height + 1)
               /\ ValueAt(powerSnapshots[u], height + 1) = ValueAt(powerSnapshots[u], height)
    <3>1. IsHistory(powerSnapshots[u], height)
      BY DEF VestingInv
    <3>2. IsHistory(powerSnapshots[u], height + 1)
      BY <1>1, <3>1 DEF IsHistory
    <3> QED
      BY <1>1, <3>1, <3>2, ValueAtLater
  <2> QED
    BY <2>1 DEF VestingInv, VotingPowerAt
<1>3. /\ IsHistory(totalSnapshots, height + 1)
      /\ ValueAt(totalSnapshots, height + 1) = mars
  <2>1. IsHistory(totalSnapshots, height)
    BY DEF VestingInv
  <2>2. IsHistory(totalSnapshots, height + 1)
    BY <1>1, <2>1 DEF IsHistory
  <2>3. ValueAt(totalSnapshots, height + 1) = ValueAt(totalSnapshots, height)
    BY <1>1, <2>1, <2>2, ValueAtLater
  <2> QED
    BY <2>2, <2>3 DEF VestingInv, TotalVotingPowerAt
<1>4. \A block : PowerAt(block)' = PowerAt(block) /\ TotalVotingPowerAt(block)' = TotalVotingPowerAt(block)
  BY <1>1 DEF PowerAt, VotingPowerAt, TotalVotingPowerAt
<1>5. Locked' = Locked
  BY <1>1 DEF Locked, LockedOf, Allocated, QueryAllocation
<1>6. PowersAddUp'
  <2>1. ASSUME NEW block \in 0 .. height'
        PROVE  Total(PowerAt(block), Accounts) = TotalVotingPowerAt(block)
    <3>1. CASE block = height + 1
      <4>1. \A u \in Accounts : PowerAt(block)[u] = Locked[u]
        BY <1>2, <3>1, LockedFacts DEF PowerAt, VotingPowerAt
      <4>2. Total(PowerAt(block), Accounts) = Total(Locked, Accounts)
        BY <4>1, TotalAgree
      <4> QED
        BY <1>3, <3>1, <4>2 DEF TotalVotingPowerAt, VestingInv
    <3>2. CASE block # height + 1
      <4>1. block \in 0 .. height
        BY <1>1, <3>2
      <4> QED
        BY <4>1 DEF VestingInv, PowersAddUp
    <3> QED
      BY <3>1, <3>2
  <2> QED
    BY <1>4, <2>1 DEF PowersAddUp
<1>7. \A u \in Accounts : allocations[u] # NoAllocation => SoundAllocation(allocations[u], time')
  <2>1. ASSUME NEW u \in Accounts, allocations[u] # NoAllocation
        PROVE  SoundAllocation(allocations[u], time')
    <3>1. PICK a, later : a = allocations[u] /\ later = time'
      OBVIOUS
    <3>2. /\ a \in Allocations /\ a.withdrawn_amount <= ReleasableAt(a, time)
          /\ later \in Nat /\ time <= later
      BY <1>1, <2>1, <3>1 DEF VestingInv, SoundAllocation
    <3>3. /\ ReleasableAt(a, time) \in 0 .. a.allocated_amount
          /\ ReleasableAt(a, time) <= ReleasableAt(a, later)
      BY <1>1, <3>2, ReleasableGrows
    <3>4. later <= later
      BY <3>2
    <3>5. ReleasableAt(a, later) \in 0 .. a.allocated_amount
      BY <3>2, <3>4, ReleasableGrows
    <3>6. a.withdrawn_amount \in Nat
      BY <3>2 DEF Allocations
    <3>7. a.withdrawn_amount <= ReleasableAt(a, later)
      BY <3>2, <3>3, <3>5, <3>6
    <3> QED
      BY <3>1, <3>2, <3>7 DEF SoundAllocation
  <2> QED
    BY <2>1
<1>8. VestingInv'
  <2>1. /\ \A u \in Accounts : /\ IsHistory(powerSnapshots'[u], height')
                               /\ VotingPowerAt(u, height)' = LockedIn(allocations'[u])
        /\ IsHistory(totalSnapshots', height') /\ TotalVotingPowerAt(height)' = mars'
    BY <1>1, <1>2, <1>3 DEF VotingPowerAt, TotalVotingPowerAt
  <2> QED
    BY <1>1, <1>5, <1>6, <1>7, <2>1 DEF VestingInv
<1>9. PowerAt(height) = Locked
  BY LockedFacts DEF PowerAt, VestingInv
<1> QED
  BY <1>4, <1>8, <1>9 DEF PastStays

\* Stakers gain or lose MARS, or nothing happens.
LEMMA QuietStep ==
  ASSUME VestingInv, RatioChange \/ UNCHANGED vars
  PROVE  VestingInv' /\ PastStays /\ height' = height /\ Locked' = Locked
<1>1. UNCHANGED <<height, time, allocations, powerSnapshots, totalSnapshots, mars>>
  BY DEF RatioChange, vars
<1>2. \A block : PowerAt(block)' = PowerAt(block) /\ TotalVotingPowerAt(block)' = TotalVotingPowerAt(block)
  BY <1>1 DEF PowerAt, VotingPowerAt, TotalVotingPowerAt
<1>3. Locked' = Locked
  BY <1>1 DEF Locked, LockedOf, Allocated, QueryAllocation
<1>4. PowersAddUp'
  BY <1>1, <1>2 DEF VestingInv, PowersAddUp
<1>5. /\ TotalVotingPowerAt(height)' = TotalVotingPowerAt(height)
      /\ \A u \in Accounts : VotingPowerAt(u, height)' = VotingPowerAt(u, height)
  BY <1>1 DEF VotingPowerAt, TotalVotingPowerAt
<1> QED
  BY <1>1, <1>2, <1>3, <1>4, <1>5 DEF VestingInv, PastStays

LEMMA VestingStepKeeps ==
  ASSUME VestingInv, [Next]_vars
  PROVE  /\ VestingInv' /\ PastStays
         /\ BlockPasses \/ height' = height
<1>1. ASSUME NEW u \in Accounts, VestingStep(u)
      PROVE  VestingInv' /\ PastStays /\ height' = height
  BY <1>1, CreateStep, WithdrawStep DEF VestingStep, CreateAllocation, Withdraw
<1>2. ASSUME RatioChange \/ UNCHANGED vars
      PROVE  VestingInv' /\ PastStays /\ height' = height
  BY <1>2, QuietStep
<1>3. ASSUME BlockPasses
      PROVE  VestingInv' /\ PastStays
  BY <1>3, BlockStep
<1> QED
  BY <1>1, <1>2, <1>3 DEF Next

-----------------------------------------------------------------------------
(* The theorems. *)

\* The strengthened invariant holds for any accounts, amounts and schedules.
THEOREM VestingCorrect == Spec => []VestingInv
<1>1. VestingInv /\ [Next]_vars => VestingInv'
  BY VestingStepKeeps
<1> QED
  BY VestingInvInit, <1>1, PTL DEF Spec

\* The snapshots kept by adding and subtracting agree with the allocations, and
\* the contract holds what is locked in it.
THEOREM PowerStaysLocked == Spec => []PowerIsLocked
<1>1. ASSUME VestingInv
      PROVE  PowerIsLocked
  <2>1. PowerAt(height) = Locked
    BY <1>1, LockedFacts DEF PowerAt, VestingInv
  <2> QED
    BY <1>1, <2>1 DEF PowerIsLocked, VestingInv
<1> QED
  BY VestingCorrect, <1>1, PTL

\* For every block the voting powers remembered add up to the total remembered.
THEOREM PowersStaySums == Spec => []PowersAddUp
<1>1. VestingInv => PowersAddUp
  BY DEF VestingInv
<1> QED
  BY VestingCorrect, <1>1, PTL

\* No schedule, whatever its cliff and its duration, takes back what it released:
\* the subtraction of execute_withdraw cannot underflow.
THEOREM ReleasesStayFinal == Spec => []ReleasesAreFinal
<1>1. ASSUME VestingInv
      PROVE  ReleasesAreFinal
  <2>1. ASSUME NEW allocation
        PROVE  Releasable(allocation) = ReleasableAt(allocation, time)
    BY DEF Releasable, ReleasableAt, Released, ReleasedAt
  <2> QED
    BY <1>1, <2>1 DEF VestingInv, SoundAllocation, ReleasesAreFinal, Allocated, QueryAllocation
<1> QED
  BY VestingCorrect, <1>1, PTL

-----------------------------------------------------------------------------
(* What is locked is a voting power. *)

\* The powers remembered for the past blocks, as VestingIsVotingPower has them.
Remembered == [block \in 1 .. height - 1 |-> PowerAt(block)]

\* A step within a block changes the power and nothing that is sealed.
LEMMA WithinBlock ==
  ASSUME VestingInv, VestingInv', PastStays, height' = height
  PROVE  Implemented!ChangePower
<1>1. Locked' \in [Accounts -> 0 .. MaxMars]
  <2>1. /\ mars' = Total(Locked', Accounts) /\ mars' <= MaxMars
        /\ allocations' \in [Accounts -> Allocations \cup {NoAllocation}]
        /\ time' \in Nat
        /\ \A u \in Accounts : allocations'[u] # NoAllocation => SoundAllocation(allocations'[u], time')
    BY DEF VestingInv
  <2>2. Locked' = [u \in Accounts |-> LockedIn(allocations'[u])]
    <3>1. \A u \in Accounts : LockedOf(u)' = LockedIn(allocations'[u])
      BY DEF LockedOf, LockedIn, Allocated, QueryAllocation
    <3> QED
      BY <3>1 DEF Locked
  <2>3. PICK g, now : g = Locked' /\ now = time'
    OBVIOUS
  <2>4. ASSUME NEW u \in Accounts
        PROVE  g[u] \in Nat
    <3>1. g[u] = LockedIn(allocations'[u])
      BY <2>2, <2>3
    <3>2. CASE allocations'[u] = NoAllocation
      BY <3>1, <3>2 DEF LockedIn
    <3>3. CASE allocations'[u] # NoAllocation
      <4>1. now \in Nat /\ SoundAllocation(allocations'[u], now)
        BY <2>1, <2>3, <3>3
      <4> QED
        BY <3>1, <4>1, LockedInType
    <3> QED
      BY <3>2, <3>3
  <2>5. IsFiniteSet(Accounts) /\ MaxMars \in Nat
    BY VestingAssumptions
  <2>6. Total(g, Accounts) \in Nat /\ Total(g, Accounts) <= MaxMars
    BY <2>1, <2>3, <2>4, <2>5, TotalType
  <2>7. ASSUME NEW u \in Accounts
        PROVE  g[u] \in 0 .. MaxMars
    <3>1. g[u] <= Total(g, Accounts)
      BY <2>4, <2>5, TotalBoundsEntry
    <3> QED
      BY <2>4, <2>5, <2>6, <3>1
  <2>8. g = [u \in Accounts |-> g[u]]
    BY <2>2, <2>3
  <2> QED
    BY <2>3, <2>7, <2>8
<1>2. Remembered' = Remembered
  <2>1. \A block \in 1 .. height - 1 : PowerAt(block)' = PowerAt(block)
    BY DEF PastStays, VestingInv
  <2> QED
    BY <2>1 DEF Remembered
<1> QED
  BY <1>1, <1>2 DEF Implemented!ChangePower, Remembered

\* The end of a block seals what is locked when it ends.
LEMMA BlockIsSealed ==
  ASSUME VestingInv, BlockPasses
  PROVE  Implemented!SealBlock
<1>1. /\ height' = height + 1 /\ height \in Nat \ {0} /\ Locked' = Locked
      /\ Locked \in [Accounts -> Nat]
  <2>1. Locked' = Locked
    BY DEF BlockPasses, Locked, LockedOf, Allocated, QueryAllocation
  <2> QED
    BY <2>1, LockedFacts DEF BlockPasses, VestingInv
<1>2. PastStays /\ \A block : block = height => PowerAt(block)' = Locked
  BY BlockStep
<1>3. PICK past, after, now, last, S :
        /\ past = Remembered /\ after = Remembered' /\ now = height /\ last = Locked
        /\ S = [Accounts -> Nat]
  OBVIOUS
<1>4. past \in [1 .. now - 1 -> S]
  <2>1. ASSUME NEW block \in 1 .. height - 1
        PROVE  PowerAt(block) \in [Accounts -> Nat]
    <3>1. \A u \in Accounts : IsHistory(powerSnapshots[u], height) /\ height \in Nat /\ block \in Nat
      BY DEF VestingInv
    <3>2. \A u \in Accounts : ValueAt(powerSnapshots[u], block) \in Nat
      BY <3>1, ValueAtType
    <3> QED
      BY <3>2 DEF PowerAt, VotingPowerAt
  <2> QED
    BY <1>3, <2>1 DEF Remembered
<1>5. /\ 1 .. height' - 1 = 1 .. height
      /\ after = [b \in 1 .. height' - 1 |-> PowerAt(b)']
  BY <1>1, <1>3 DEF Remembered
<1>6. /\ after = [b \in 1 .. now |-> after[b]] /\ after[now] = last
      /\ now \in Nat \ {0} /\ last \in S
  BY <1>1, <1>2, <1>3, <1>5
<1>7. \A b \in 1 .. now - 1 : after[b] = past[b]
  BY <1>1, <1>2, <1>3, <1>5 DEF PastStays, Remembered
<1>8. after \in [1 .. now -> S]
  <2>1. ASSUME NEW b \in 1 .. now
        PROVE  after[b] \in S
    <3>1. b = now \/ b \in 1 .. now - 1
      BY <1>6
    <3> QED
      BY <1>4, <1>6, <1>7, <3>1
  <2> QED
    BY <1>6, <2>1
<1>9. after = Append(past, last)
  <2>1. now \in Nat \ {0} /\ last \in S /\ after[now] = last
    BY <1>6
  <2> QED
    BY <1>4, <1>7, <1>8, <2>1, Sealing
<1> QED
  BY <1>1, <1>3, <1>9 DEF Implemented!SealBlock, Remembered

\* The vesting contract implements what the council relies on: what it answers for
\* a past block is what was locked when that block ended.
THEOREM LockedIsVotingPower == Spec => VestingIsVotingPower
<1>1. Init => Implemented!PowerInit
  <2> SUFFICES ASSUME Init
               PROVE  Implemented!PowerInit
    OBVIOUS
  <2>1. height = 1 /\ Locked = [u \in Accounts |-> 0]
    BY DEF Init, Locked, LockedOf, Allocated
  <2>2. [block \in 1 .. height - 1 |-> PowerAt(block)] = <<>>
    BY <2>1
  <2> QED
    BY <2>1, <2>2 DEF Implemented!PowerInit
<1>2. VestingInv /\ VestingInv' /\ [Next]_vars
        => [Implemented!ChangePower \/ Implemented!SealBlock]_Implemented!powerVars
  BY VestingStepKeeps, WithinBlock, BlockIsSealed
<1> QED
  BY VestingCorrect, <1>1, <1>2, PTL DEF Spec, VestingIsVotingPower, Implemented!PowerSpec

=============================================================================
