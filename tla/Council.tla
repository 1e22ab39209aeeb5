------------------------------ MODULE Council -------------------------------
(***************************************************************************)
(* The Martian council: proposals are submitted with a deposit of MARS,    *)
(* voted on with the voting power of the block before them, ended, and     *)
(* executed.  The voting power is the sum of what the xMARS token and the  *)
(* vesting contract answer, each of which implements VotingPower.          *)
(*                                                                         *)
(* Texts and their limits are left out, and so are the wallets deposits    *)
(* come from and return to.  A message of a proposal is what it sets of    *)
(* the configuration of the council: nothing, if it goes to another        *)
(* contract, where it succeeds.                                            *)
(***************************************************************************)
EXTENDS VotingPower, FixedPoint, LedgerSums

CONSTANTS
  Accounts,          \* who may submit and vote
  Deposits,          \* the deposits submitters may send
  Configs,           \* the configurations the council may start with
  MessageLists,      \* the messages a proposal may carry
  NoVote,            \* the absence of a vote
  MaxProposals,      \* bound: the proposals
  MaxHeight          \* bound: the last block

ConfigFields ==
  {"proposal_voting_period", "proposal_effective_delay", "proposal_expiration_period",
   "proposal_required_deposit", "proposal_required_quorum", "proposal_required_threshold"}

\* An update sets some of the fields and leaves the others alone.
IsUpdate(sets) ==
  /\ DOMAIN sets \subseteq ConfigFields
  /\ \A field \in DOMAIN sets : sets[field] \in Nat
IsMessage(m) == m.execution_order \in Nat /\ IsUpdate(m.sets)
Options == {"for", "against"}
Votes == [option : Options, power : Nat]
Statuses == {"active", "passed", "rejected", "executed"}
Proposals ==
  [status : Statuses, for_votes : Nat, against_votes : Nat, start_height : Nat,
   end_height : Nat, messages : MessageLists, deposit_amount : Nat]

\* Config::validate; the minimum threshold is fifty percent.
ValidConfig(c) ==
  /\ AtMostOne(c.proposal_required_quorum)
  /\ 2 * c.proposal_required_threshold >= One
  /\ c.proposal_required_threshold <= One

ASSUME CouncilAssumptions ==
  /\ IsFiniteSet(Accounts)
  /\ Powers \subseteq [Accounts -> Nat] /\ NoPower \in [Accounts -> Nat]
  /\ Deposits \subseteq Nat
  /\ Configs \subseteq [ConfigFields -> Nat]
  /\ NoVote \notin Votes
  /\ \A messages \in MessageLists :
       /\ DOMAIN messages \subseteq Nat /\ IsFiniteSet(DOMAIN messages)
       /\ \A i \in DOMAIN messages : IsMessage(messages[i])
  /\ MaxProposals \in Nat /\ MaxHeight \in Nat

VARIABLES
  config,            \* CONFIG
  proposals,         \* PROPOSALS, by proposal id; its length is the proposal count
  votes,             \* PROPOSAL_VOTES, by proposal id and voter
  mars               \* the MARS of the council

councilVars == <<config, proposals, votes, mars>>
vars == <<powerVars, councilVars>>

ProposalIds == DOMAIN proposals

\* What the histories answer for a block: nothing before the first.
PowerAt(u, block) == IF block \in DOMAIN sealed THEN sealed[block][u] ELSE 0
TotalPowerAt(block) ==
  IF block \in DOMAIN sealed THEN Total(sealed[block], Accounts) ELSE 0

-----------------------------------------------------------------------------
\* MARS sent with the message SubmitProposal; MARS cannot be sent in amounts of
\* zero.
SubmitProposal(deposit, messages) ==
  /\ Len(proposals) < MaxProposals
  /\ deposit > 0 /\ deposit >= config.proposal_required_deposit
  /\ proposals' = Append(proposals,
       [status |-> "active", for_votes |-> 0, against_votes |-> 0,
        start_height |-> height,
        end_height |-> height + config.proposal_voting_period,
        messages |-> messages, deposit_amount |-> deposit])
  /\ votes' = Append(votes, [v \in Accounts |-> NoVote])
  /\ mars' = mars + deposit
  /\ UNCHANGED <<powerVars, config>>

\* For VotingPowerFor: what the voter has when it votes.
PresentVotingPower(u, p) == power[u]

\* The power a proposal is voted on with is that of the block before it.
VotingPowerFor(u, p) == PowerAt(u, proposals[p].start_height - 1)

\* For MayVote: the vote may be cast again.
MayVoteAgain(u, p) ==
  proposals[p].status = "active" /\ height <= proposals[p].end_height

MayVote(u, p) ==
  /\ proposals[p].status = "active" /\ height <= proposals[p].end_height
  /\ votes[p][u] = NoVote

CastVote(u, p, option) ==
  LET votingPower == VotingPowerFor(u, p)
  IN  /\ MayVote(u, p)
      /\ votingPower > 0
      /\ proposals' =
           IF option = "for" THEN [proposals EXCEPT ![p].for_votes = @ + votingPower]
           ELSE [proposals EXCEPT ![p].against_votes = @ + votingPower]
      /\ votes' = [votes EXCEPT ![p][u] = [option |-> option, power |-> votingPower]]
      /\ UNCHANGED <<powerVars, config, mars>>

\* For MeetsThreshold: a tie is enough.
ReachesThreshold(share) == share >= config.proposal_required_threshold

MeetsThreshold(share) == share > config.proposal_required_threshold

\* Quorum and threshold are those of the present configuration.
Succeeds(proposal) ==
  LET total  == TotalPowerAt(proposal.start_height - 1)
      cast   == proposal.for_votes + proposal.against_votes
      quorum == IF total > 0 THEN FromRatio(cast, total) ELSE 0
      share  == IF cast > 0 THEN FromRatio(proposal.for_votes, cast) ELSE 0
  IN  /\ quorum >= config.proposal_required_quorum
      /\ MeetsThreshold(share)

\* For MayEnd: a proposal ends as often as one likes.
MayEndAgain(p) == height > proposals[p].end_height

MayEnd(p) == proposals[p].status = "active" /\ height > proposals[p].end_height

\* Anybody ends the vote.  The deposit returns to the submitter or goes to the
\* staking contract.
EndProposal(p) ==
  /\ MayEnd(p) /\ mars >= proposals[p].deposit_amount
  /\ proposals' = [proposals EXCEPT ![p].status =
                     IF Succeeds(proposals[p]) THEN "passed" ELSE "rejected"]
  /\ mars' = mars - proposals[p].deposit_amount
  /\ UNCHANGED <<powerVars, config, votes>>

\* The window in which a proposal that passed can be executed.
Effective(p) == proposals[p].end_height + config.proposal_effective_delay
Expiration(p) == Effective(p) + config.proposal_expiration_period

\* The messages are sent in their execution order; messages of the same order
\* keep their places.
SentBefore(messages, i, j) ==
  \/ messages[i].execution_order < messages[j].execution_order
  \/ messages[i].execution_order = messages[j].execution_order /\ i < j

\* The configuration once the messages of done were executed: what the last of
\* them that sets a field sets it to.
UpdatedBy(messages, done) ==
  [field \in ConfigFields |->
     LET writers == {i \in done : field \in DOMAIN messages[i].sets}
     IN  IF writers = {} THEN config[field]
         ELSE LET last == CHOOSE i \in writers : \A j \in writers \ {i} :
                            SentBefore(messages, j, i)
              IN  messages[last].sets[field]]

\* Anybody executes a proposal.  Every update is validated against what those
\* before it left, in one transaction, which fails if one of them does.
ExecuteProposal(p) ==
  LET messages == proposals[p].messages
      upTo(j)  == {j} \cup {i \in DOMAIN messages : SentBefore(messages, i, j)}
  IN  /\ proposals[p].status = "passed"
      /\ height >= Effective(p) /\ height <= Expiration(p)
      /\ \A j \in DOMAIN messages : ValidConfig(UpdatedBy(messages, upTo(j)))
      /\ proposals' = [proposals EXCEPT ![p].status = "executed"]
      /\ config' = UpdatedBy(messages, DOMAIN messages)
      /\ UNCHANGED <<powerVars, votes, mars>>

PowerChanges == ChangePower /\ UNCHANGED councilVars
BlockPasses == height < MaxHeight /\ SealBlock /\ UNCHANGED councilVars

Init ==
  /\ PowerInit
  /\ config \in {c \in Configs : ValidConfig(c)}
  /\ proposals = <<>>
  /\ votes = <<>>
  /\ mars = 0

\* The messages the council takes.
CouncilStep ==
  \/ \E deposit \in Deposits, messages \in MessageLists : SubmitProposal(deposit, messages)
  \/ \E u \in Accounts, p \in ProposalIds, option \in Options :
       CastVote(u, p, option)
  \/ \E p \in ProposalIds : EndProposal(p) \/ ExecuteProposal(p)

Next == CouncilStep \/ PowerChanges \/ BlockPasses

Spec == Init /\ [][Next]_vars

-----------------------------------------------------------------------------
(* What the council answers when it is asked. *)

PAGINATION_MAX_LIMIT == 30

\* A page of proposals from one of them on; asked for more than the limit, the
\* council answers with as many as the limit.
QueryProposals(start, limit) ==
  LET most == IF limit < PAGINATION_MAX_LIMIT THEN limit ELSE PAGINATION_MAX_LIMIT
      last == IF start + most - 1 < Len(proposals) THEN start + most - 1 ELSE Len(proposals)
  IN  SubSeq(proposals, start, last)

\* The votes of a proposal by voter, all its pages taken together.
QueryProposalVotes(p) == [u \in {v \in Accounts : votes[p][v] # NoVote} |-> votes[p][u]]

\* QueryMsg: what may be asked.
Questions ==
  [ask : {"config"}]
  \cup [ask : {"proposals"}, start : Nat \ {0}, limit : Nat]
  \cup [ask : {"proposal", "proposal_votes"}, proposal_id : ProposalIds]

Answer(q) ==
  CASE q.ask = "config"         -> config
    [] q.ask = "proposals"      -> QueryProposals(q.start, q.limit)
    [] q.ask = "proposal"       -> proposals[q.proposal_id]
    [] q.ask = "proposal_votes" -> QueryProposalVotes(q.proposal_id)

-----------------------------------------------------------------------------
(* Properties. *)

TypeOK ==
  /\ height \in Nat \ {0} /\ power \in [Accounts -> Nat]
  /\ sealed \in Seq([Accounts -> Nat]) /\ Len(sealed) = height - 1
  /\ config \in [ConfigFields -> Nat] /\ 2 * config.proposal_required_threshold >= One
  /\ proposals \in Seq(Proposals)
  /\ votes \in Seq([Accounts -> Votes \cup {NoVote}])
  /\ Len(votes) = Len(proposals)
  /\ mars \in Nat

\* The council holds the deposits of all proposals that have not ended, so that
\* each of them can end: no deposit is paid out twice or left behind.
DepositsAreHeld ==
  mars = Total([p \in ProposalIds |-> IF proposals[p].status = "active"
                                      THEN proposals[p].deposit_amount ELSE 0],
               ProposalIds)

CastFor(answer, option) ==
  Total([u \in DOMAIN answer |-> IF answer[u].option = option THEN answer[u].power ELSE 0],
        DOMAIN answer)

\* The tallies are the votes that were cast, and each was cast with the power
\* its owner had in the block before the proposal: nobody gains votes by
\* acquiring tokens, or passing them on, once a proposal is known.
VotesAreBacked ==
  \A p \in ProposalIds :
    /\ proposals[p].for_votes = CastFor(QueryProposalVotes(p), "for")
    /\ proposals[p].against_votes = CastFor(QueryProposalVotes(p), "against")
    /\ \A u \in DOMAIN QueryProposalVotes(p) :
         QueryProposalVotes(p)[u].power = PowerAt(u, proposals[p].start_height - 1)

\* Whatever the configuration was and became, a proposal passes only with more
\* votes for it than against it.
PassedByMajority ==
  LET listed == QueryProposals(1, PAGINATION_MAX_LIMIT)
  IN  \A i \in DOMAIN listed : listed[i].status \in {"passed", "executed"} =>
        listed[i].for_votes > listed[i].against_votes

\* A vote that was cast stays, no vote is added after the end, and a proposal
\* moves from active to passed or rejected and from passed to executed only.
OutcomesAreFinal ==
  [][ \A p \in ProposalIds :
        /\ \A u \in Accounts : votes[p][u] # NoVote => votes'[p][u] = votes[p][u]
        /\ proposals[p].status # "active" => votes'[p] = votes[p]
        /\ <<proposals[p].status, proposals'[p].status>> \in
             {<<s, s>> : s \in Statuses} \cup
             {<<"active", "passed">>, <<"active", "rejected">>, <<"passed", "executed">>}
    ]_vars

=============================================================================
