------------------------------ MODULE Staking -------------------------------
(***************************************************************************)
(* The staking contract with the xMARS token: MARS is staked for a share   *)
(* of the contract's MARS, a share is unstaked into a claim that is paid   *)
(* after a cooldown, and the owner may slash stakers and claimers alike by *)
(* transferring MARS out.                                                  *)
(*                                                                         *)
(* A transaction and the messages it sends are one step.  A MARS amount is *)
(* far below the precision of a Decimal (the supply of MARS is of the      *)
(* order of ten to the fifteenth, One is ten to the eighteenth): MaxMars   *)
(* is at most One.                                                         *)
(***************************************************************************)
EXTENDS XMars, FixedPoint

CONSTANTS
  Cooldowns,       \* the cooldown durations the owner may set
  NoClaim,         \* the absence of a claim
  MaxMars          \* the supply of MARS, which bounds what the contract holds

Claims == [created_at_block : Nat, cooldown_end_timestamp : Nat, amount : Nat]

ASSUME StakingAssumptions ==
  /\ Cooldowns \subseteq Nat
  /\ NoClaim \notin Claims
  /\ MaxMars \in Nat /\ MaxMars <= One

VARIABLES
  time,             \* the block time in seconds
  mars,             \* the balance of MARS of the contract
  forClaimers,      \* GLOBAL_STATE.total_mars_for_claimers
  claims,           \* CLAIMS: the open claim of an account, or NoClaim
  slashes,          \* SLASH_EVENTS: the slash percentage of a block
  cooldown          \* CONFIG.cooldown_duration

stakingVars == <<mars, forClaimers, claims, slashes>>
vars == <<height, xmarsVars, stakingVars, time, cooldown>>

\* The MARS that backs xMARS.
ForStakers == mars - forClaimers

\* What an amount is worth after the events of the blocks from first to last, in
\* chronological order, each rounded down.
Slashed(amount, first, last, events) ==
  LET worth[b \in first - 1 .. last] ==
        IF b < first THEN amount
        ELSE IF b \in DOMAIN events THEN Mul(worth[b - 1], One - events[b])
        ELSE worth[b - 1]
  IN  worth[last]

\* For AfterSlashes: the events of the block of the claim are left out.
AfterLaterSlashes(claim) ==
  Slashed(claim.amount, claim.created_at_block + 1, height, slashes)

\* apply_slash_events_to_claim: every event from the block of the claim on.
AfterSlashes(claim) == Slashed(claim.amount, claim.created_at_block, height, slashes)

\* The two ratios between MARS and xMARS; neither is defined while one of the
\* sides is empty.
RatioDefined == ForStakers > 0 /\ xmarsSupply > 0
XMarsPerMars == FromRatio(xmarsSupply, ForStakers)
MarsPerXMars == FromRatio(ForStakers, xmarsSupply)

-----------------------------------------------------------------------------
\* For XMarsFor: rounded in favour of who stakes.
XMarsForRoundedUp(amount) ==
  IF RatioDefined THEN CeilDiv(amount * XMarsPerMars, One) ELSE amount

\* The xMARS minted for an amount of MARS: one for one as long as the ratio is
\* undefined.
XMarsFor(amount) == IF RatioDefined THEN Mul(amount, XMarsPerMars) ELSE amount

\* MARS sent to the contract with the message Stake.
Stake(recipient, amount) ==
  /\ amount > 0 /\ mars + amount <= MaxMars
  /\ ForStakers >= 0
  /\ MintXMars(recipient, XMarsFor(amount))
  /\ mars' = mars + amount
  /\ UNCHANGED <<height, time, forClaimers, claims, slashes, cooldown>>

Reserved(claimable) == forClaimers + claimable

\* xMARS sent to the contract with the message Unstake: the contract opens a
\* claim of the recipient's, which must not have one, and burns the xMARS.
Unstake(staker, recipient, amount) ==
  /\ RatioDefined
  /\ LET claimable == Mul(amount, MarsPerXMars)
     IN  /\ claims[recipient] = NoClaim
         /\ Reserved(claimable) <= mars
         /\ claims' = [claims EXCEPT ![recipient] =
              [created_at_block |-> height,
               cooldown_end_timestamp |-> time + cooldown,
               amount |-> claimable]]
         /\ forClaimers' = Reserved(claimable)
  /\ SendAndBurnXMars(staker, StakingContract, amount)
  /\ UNCHANGED <<height, time, mars, slashes, cooldown>>

\* A claim is closed and paid to an account; the MARS token refuses to transfer
\* nothing.
Claim(claimer, recipient) ==
  /\ claims[claimer] # NoClaim
  /\ claims[claimer].cooldown_end_timestamp <= time
  /\ \E payout \in 1 .. SmallerOf(forClaimers, mars) :
       /\ payout = AfterSlashes(claims[claimer])
       /\ forClaimers' = forClaimers - payout
       /\ mars' = IF recipient = StakingContract THEN mars ELSE mars - payout
  /\ claims' = [claims EXCEPT ![claimer] = NoClaim]
  /\ UNCHANGED <<height, time, xmarsVars, slashes, cooldown>>

\* For LeftForClaimers: the whole slash is borne by the stakers.
LeftForClaimersUnslashed(percentage) == forClaimers

LeftForClaimers(percentage) == Mul(forClaimers, One - percentage)

CanTransfer(amount) == amount > 0 /\ amount <= mars

\* The owner transfers MARS to another account: a slash, at most one a block.
TransferMars(amount) ==
  /\ height \notin DOMAIN slashes
  /\ CanTransfer(amount)
  /\ LET percentage == FromRatio(amount, mars)
     IN  /\ slashes' = Captured(slashes, height, percentage)
         /\ forClaimers' = LeftForClaimers(percentage)
  /\ mars' = mars - amount
  /\ UNCHANGED <<height, time, xmarsVars, claims, cooldown>>

\* MARS reaches the contract without a message: swapped for the uusd it holds,
\* or sent by the council and the rewards collector.
ReceiveMars(amount) ==
  /\ amount > 0 /\ mars + amount <= MaxMars
  /\ mars' = mars + amount
  /\ UNCHANGED <<height, time, xmarsVars, forClaimers, claims, slashes, cooldown>>

UpdateConfig ==
  /\ cooldown' \in Cooldowns
  /\ UNCHANGED <<height, time, xmarsVars, stakingVars>>

\* Holders move or burn xMARS themselves.
HolderTransfers(sender, recipient, amount) ==
  /\ TransferXMars(sender, recipient, amount)
  /\ UNCHANGED <<height, time, stakingVars, cooldown>>
HolderBurns(owner, amount) ==
  /\ BurnXMars(owner, amount)
  /\ UNCHANGED <<height, time, stakingVars, cooldown>>

\* The next block, in the same second or a later one.
BlockPasses ==
  /\ NextBlock
  /\ time' \in {time, time + 1}
  /\ UNCHANGED <<stakingVars, cooldown>>

-----------------------------------------------------------------------------
Init ==
  /\ XMarsInit
  /\ time = 0
  /\ mars = 0
  /\ forClaimers = 0
  /\ claims = [u \in Accounts |-> NoClaim]
  /\ slashes = NoHistory
  /\ cooldown \in Cooldowns

\* The contract itself sends no message but those of its own handlers.
Users == Accounts \ {StakingContract}

UserStep(u) ==
  \E amount \in Amounts, recipient \in Accounts :
    \/ Stake(recipient, amount)
    \/ Unstake(u, recipient, amount)
    \/ Claim(u, recipient)
    \/ HolderTransfers(u, recipient, amount)
    \/ HolderBurns(u, amount)

Next ==
  \/ \E u \in Users : UserStep(u)
  \/ \E amount \in Amounts : TransferMars(amount) \/ ReceiveMars(amount)
  \/ UpdateConfig
  \/ BlockPasses

Spec == Init /\ [][Next]_vars

-----------------------------------------------------------------------------
(* What the contract answers when it is asked. *)

QueryGlobalState == [total_mars_for_claimers |-> forClaimers]

\* The two ratios, if they are defined: at most one answer.
QueryXMarsPerMars == IF RatioDefined THEN {XMarsPerMars} ELSE {}
QueryMarsPerXMars == IF RatioDefined THEN {MarsPerXMars} ELSE {}

\* The claim with the amount it would be paid now.
QueryClaim(u) ==
  IF claims[u] = NoClaim THEN NoClaim
  ELSE [claims[u] EXCEPT !.amount = AfterSlashes(claims[u])]

QueryConfig == [cooldown_duration |-> cooldown]

\* QueryMsg: what may be asked.
Questions ==
  [ask : {"config", "global_state", "xmars_per_mars", "mars_per_xmars"}]
  \cup [ask : {"claim"}, user_address : Accounts]

Answer(q) ==
  CASE q.ask = "config"         -> QueryConfig
    [] q.ask = "global_state"   -> QueryGlobalState
    [] q.ask = "xmars_per_mars" -> QueryXMarsPerMars
    [] q.ask = "mars_per_xmars" -> QueryMarsPerXMars
    [] q.ask = "claim"          -> QueryClaim(q.user_address)

-----------------------------------------------------------------------------
(* Properties. *)

TypeOK ==
  /\ XMarsTypeOK
  /\ time \in Nat
  /\ mars \in 0 .. MaxMars
  /\ forClaimers \in Nat
  /\ claims \in [Accounts -> Claims \cup {NoClaim}]
  /\ DOMAIN slashes \subseteq 1 .. height
  /\ \A b \in DOMAIN slashes : slashes[b] \in 0 .. One
  /\ cooldown \in Cooldowns

\* What is reserved for claimers is there: the contract never reserves more
\* MARS than it holds, not even when a slash is rounded, and the subtraction in
\* get_staking_tokens_info cannot lock the contract.
ReservesAreHeld == QueryGlobalState.total_mars_for_claimers <= mars

\* All open claims, slashed as they will be when they are paid, fit in what is
\* reserved: whoever claims last is paid as well, whatever was rounded.
ClaimsAreReserved ==
  Total([u \in Accounts |-> IF claims[u] = NoClaim THEN 0 ELSE QueryClaim(u).amount],
        Accounts) <= QueryGlobalState.total_mars_for_claimers

\* The MARS behind an xMARS never falls but by a slash: no stake, unstake,
\* claim or transfer of somebody else dilutes a holder, whichever way the two
\* ratios are rounded, and both ratios the contract reports follow.
HoldersAreNotDiluted ==
  [][ slashes' = slashes /\ xmarsSupply > 0 =>
        /\ ForStakers * xmarsSupply' <= ForStakers' * xmarsSupply
        /\ \A before \in QueryMarsPerXMars, after \in QueryMarsPerXMars' : before <= after
        /\ \A before \in QueryXMarsPerMars, after \in QueryXMarsPerMars' : before >= after ]_vars

\* What the contract answers is what it then does in that block, as the comments
\* of the queries say: xMARS is minted at the ratio it announces, though the
\* MARS is in its balance before it computes the ratio again, MARS is reserved
\* at the other ratio, though the xMARS is not burnt yet, and a claim is paid
\* with the amount announced for it.
MintsAsAnswered ==
  xmarsSupply' > xmarsSupply =>
    LET ratio == Answer([ask |-> "xmars_per_mars"])
    IN  xmarsSupply' - xmarsSupply \in
          IF ratio = {} THEN {mars' - mars} ELSE {Mul(mars' - mars, r) : r \in ratio}
ReservesAsAnswered ==
  forClaimers' > forClaimers =>
    forClaimers' - forClaimers \in
      {Mul(xmarsSupply - xmarsSupply', r) : r \in Answer([ask |-> "mars_per_xmars"])}
PaysAsAnswered(u) ==
  (claims[u] # NoClaim /\ claims'[u] = NoClaim) =>
    forClaimers - forClaimers' = Answer([ask |-> "claim", user_address |-> u]).amount
AnswersAreKept ==
  [][ MintsAsAnswered /\ ReservesAsAnswered /\ \A u \in Accounts : PaysAsAnswered(u) ]_vars

\* Stakers and claimers bear a slash in proportion to what is theirs: neither
\* loses more than its share, up to one unit.
SlashIsProportional ==
  [][ slashes' # slashes =>
        /\ forClaimers' * mars + mars >= forClaimers * mars'
        /\ ForStakers' * mars + mars >= ForStakers * mars' ]_vars

=============================================================================
