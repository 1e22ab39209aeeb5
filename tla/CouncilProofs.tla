--------------------------- MODULE CouncilProofs ----------------------------
(***************************************************************************)
(* What the council guarantees for any accounts, powers, deposits,         *)
(* configurations and messages.                                            *)
(***************************************************************************)
EXTENDS Council, CommonProofs, SequenceTheorems

-----------------------------------------------------------------------------
(* The inductive invariant. *)

\* A proposal is voted on with the power of a block that is over.
StartsAreKnown == \A p \in ProposalIds : proposals[p].start_height \in 1 .. height

\* What PassedByMajority says, of all proposals.
Majority ==
  \A p \in ProposalIds : proposals[p].status \in {"passed", "executed"} =>
    proposals[p].for_votes > proposals[p].against_votes

CouncilInv ==
  /\ TypeOK
  /\ ValidConfig(config)
  /\ StartsAreKnown
  /\ DepositsAreHeld
  /\ VotesAreBacked
  /\ Majority

-----------------------------------------------------------------------------
(* Messages. *)

\* Of finitely many messages one comes last: the one that none comes after.
LEMMA LastMessage ==
  ASSUME NEW messages \in MessageLists, NEW W, W \subseteq DOMAIN messages, W # {}
  PROVE  \E i \in W : \A j \in W \ {i} : SentBefore(messages, j, i)
<1> DEFINE After(i) == {j \in W : SentBefore(messages, i, j)}
           Afters == {After(i) : i \in W}
           R == StrictSubsetOrdering(W)
<1>1. /\ \A i \in W : i \in Nat /\ messages[i].execution_order \in Nat
      /\ IsFiniteSet(W)
  BY CouncilAssumptions, FS_Subset DEF IsMessage
<1>2. IsWellFoundedOn(R, FiniteSubsetsOf(W))
  BY FS_StrictSubsetOrderingWellFounded
<1>3. Afters \subseteq FiniteSubsetsOf(W) /\ Afters # {}
  <2>1. FiniteSubsetsOf(W) = SUBSET W
    BY <1>1, FS_FiniteSubsetsOfFinite
  <2>2. Afters \subseteq SUBSET W /\ Afters # {}
    OBVIOUS
  <2> QED
    BY <2>1, <2>2
<1>4. PICK T \in Afters : \A U \in Afters : <<U, T>> \notin R
  BY <1>2, <1>3, WFMin
<1>5. PICK i \in W : T = After(i)
  BY <1>4
<1>6. ASSUME NEW j \in W \ {i}
      PROVE  SentBefore(messages, j, i)
  <2>1. CASE SentBefore(messages, i, j)
    <3>1. After(j) \subseteq After(i)
      BY <1>1, <2>1 DEF SentBefore
    <3>2. j \in After(i) /\ j \notin After(j)
      BY <1>1, <2>1 DEF SentBefore
    <3>3. <<After(j), After(i)>> \in R
      BY <3>1, <3>2 DEF StrictSubsetOrdering
    <3> QED
      BY <1>4, <1>5, <3>3
  <2>2. CASE ~SentBefore(messages, i, j)
    BY <1>1, <2>2 DEF SentBefore
  <2> QED
    BY <2>1, <2>2
<1> QED
  BY <1>6

\* Messages, some or all of them, leave a configuration.
LEMMA UpdatedByType ==
  ASSUME NEW messages \in MessageLists, NEW done, done \subseteq DOMAIN messages,
         config \in [ConfigFields -> Nat]
  PROVE  UpdatedBy(messages, done) \in [ConfigFields -> Nat]
<1>1. ASSUME NEW field \in ConfigFields
      PROVE  LET writers == {i \in done : field \in DOMAIN messages[i].sets}
                 last == CHOOSE i \in writers : \A j \in writers \ {i} :
                            SentBefore(messages, j, i)
             IN  writers # {} => messages[last].sets[field] \in Nat
  <2> DEFINE writers == {i \in done : field \in DOMAIN messages[i].sets}
             last == CHOOSE i \in writers : \A j \in writers \ {i} : SentBefore(messages, j, i)
  <2>1. ASSUME writers # {}
        PROVE  messages[last].sets[field] \in Nat
    <3>1. \E i \in writers : \A j \in writers \ {i} : SentBefore(messages, j, i)
      BY <2>1, LastMessage
    <3>2. last \in writers
      BY <3>1
    <3> QED
      BY <3>2, CouncilAssumptions DEF IsMessage, IsUpdate
  <2> QED
    BY <2>1
<1> QED
  BY <1>1 DEF UpdatedBy

\* Messages that validate one after the other leave a valid configuration: the
\* last of them validated what all of them leave.
LEMMA AllValidated ==
  ASSUME NEW messages \in MessageLists, ValidConfig(config),
         config \in [ConfigFields -> Nat],
         \A j \in DOMAIN messages :
           ValidConfig(UpdatedBy(messages,
             {j} \cup {i \in DOMAIN messages : SentBefore(messages, i, j)}))
  PROVE  ValidConfig(UpdatedBy(messages, DOMAIN messages))
<1>1. CASE DOMAIN messages = {}
  <2>1. UpdatedBy(messages, {}) = config
    BY DEF UpdatedBy
  <2> QED
    BY <1>1, <2>1
<1>2. CASE DOMAIN messages # {}
  <2>1. PICK j \in DOMAIN messages :
          \A i \in DOMAIN messages \ {j} : SentBefore(messages, i, j)
    BY <1>2, LastMessage
  <2>2. {j} \cup {i \in DOMAIN messages : SentBefore(messages, i, j)} = DOMAIN messages
    BY <2>1
  <2> QED
    BY <2>2
<1> QED
  BY <1>1, <1>2

-----------------------------------------------------------------------------
(* Tallies. *)

\* Twice a share of more than the minimum threshold is more than all votes cast.
LEMMA MajorityOfCast ==
  ASSUME NEW for \in Nat, NEW against \in Nat, NEW threshold \in Nat,
         2 * threshold >= One, for + against > 0,
         FromRatio(for, for + against) > threshold
  PROVE  for > against
<1> DEFINE cast == for + against
           share == FromRatio(for, cast)
<1>1. One \in Nat \ {0} /\ cast \in Nat \ {0} /\ for * One \in Nat
  BY OneAssumption, ProductType
<1>2. share \in Nat /\ share * cast <= for * One
  BY <1>1, DivFloor DEF FromRatio
<1>3. One < 2 * share
  BY <1>1, <1>2
<1>4. SUFFICES ASSUME for <= against
               PROVE  FALSE
  OBVIOUS
<1>5. 2 * for <= cast
  BY <1>4
<1> HIDE DEF share, cast
<1>6. (2 * for) * One <= cast * One
  BY <1>1, <1>5
<1>7. One * cast < (2 * share) * cast
  BY <1>1, <1>2, <1>3
<1>8. (2 * share) * cast = 2 * (share * cast) /\ (2 * for) * One = 2 * (for * One)
  BY <1>1, <1>2
<1>9. cast * One = One * cast /\ share * cast \in Nat /\ cast * One \in Nat
  BY <1>1, <1>2, ProductType
<1> QED
  BY <1>1, <1>2, <1>6, <1>7, <1>8, <1>9

\* The answer of QueryProposalVotes for the votes of one proposal.
Ballot(ballot) == [u \in {v \in Accounts : ballot[v] # NoVote} |-> ballot[u]]

\* A ballot without votes has no votes for either option.
LEMMA NothingCast ==
  ASSUME NEW option
  PROVE  CastFor(Ballot([v \in Accounts |-> NoVote]), option) = 0
<1>1. DOMAIN Ballot([v \in Accounts |-> NoVote]) = {}
  BY DEF Ballot
<1> QED
  BY <1>1, TotalZero DEF CastFor

\* A first vote adds its power to the votes for its option, and to no others.
LEMMA CastGrows ==
  ASSUME NEW ballot \in [Accounts -> Votes \cup {NoVote}], NEW u \in Accounts,
         ballot[u] = NoVote, NEW vote \in Votes, NEW option
  PROVE  CastFor(Ballot([ballot EXCEPT ![u] = vote]), option)
           = CastFor(Ballot(ballot), option) + (IF vote.option = option THEN vote.power ELSE 0)
<1> DEFINE next == [ballot EXCEPT ![u] = vote]
           D == {v \in Accounts : ballot[v] # NoVote}
           E == {v \in Accounts : next[v] # NoVote}
           f == [v \in D |-> IF ballot[v].option = option THEN ballot[v].power ELSE 0]
           g == [v \in E |-> IF next[v].option = option THEN next[v].power ELSE 0]
<1>1. /\ u \notin D /\ u \in E /\ E \ {u} = D
      /\ next[u] = vote /\ \A v \in D : next[v] = ballot[v]
  BY CouncilAssumptions
<1>2. IsFiniteSet(E)
  BY CouncilAssumptions, FS_Subset
<1>3. \A v \in E : next[v] \in Votes
  BY <1>1
<1>4. \A v \in E : g[v] \in Nat
  BY <1>3 DEF Votes
<1>5. Total(g, E) = Total(g, E \ {u}) + g[u]
  BY <1>1, <1>2, <1>4, TotalSplit
<1>6. Total(g, D) = Total(f, D)
  BY <1>1, TotalAgree
<1>7. g[u] = IF vote.option = option THEN vote.power ELSE 0
  BY <1>1
<1>8. CastFor(Ballot(ballot), option) = Total(f, D)
  <2>1. /\ DOMAIN Ballot(ballot) = D
        /\ \A v \in D : Ballot(ballot)[v] = ballot[v]
    BY DEF Ballot
  <2>2. [v \in DOMAIN Ballot(ballot) |->
          IF Ballot(ballot)[v].option = option THEN Ballot(ballot)[v].power ELSE 0] = f
    BY <2>1
  <2> QED
    BY <2>1, <2>2 DEF CastFor
<1>9. CastFor(Ballot(next), option) = Total(g, E)
  <2>1. /\ DOMAIN Ballot(next) = E
        /\ \A v \in E : Ballot(next)[v] = next[v]
    BY DEF Ballot
  <2>2. [v \in DOMAIN Ballot(next) |->
          IF Ballot(next)[v].option = option THEN Ballot(next)[v].power ELSE 0] = g
    BY <2>1
  <2> QED
    BY <2>1, <2>2 DEF CastFor
<1> QED
  BY <1>1, <1>5, <1>6, <1>7, <1>8, <1>9

-----------------------------------------------------------------------------
(* Steps. *)

\* A council without proposals.
LEMMA CouncilInvInit == Init => CouncilInv
<1> SUFFICES ASSUME Init
             PROVE  CouncilInv
  OBVIOUS
<1>1. /\ height = 1 /\ power \in [Accounts -> Nat] /\ sealed = <<>>
      /\ config \in [ConfigFields -> Nat] /\ ValidConfig(config)
      /\ proposals = <<>> /\ votes = <<>> /\ mars = 0
  BY CouncilAssumptions DEF Init, PowerInit
<1>2. ProposalIds = {} /\ Len(proposals) = 0 /\ Len(votes) = 0 /\ Len(sealed) = 0
  BY <1>1 DEF ProposalIds
<1>3. TypeOK
  BY <1>1, <1>2, EmptySeq DEF TypeOK, ValidConfig
<1>4. DepositsAreHeld
  BY <1>1, <1>2, TotalZero DEF DepositsAreHeld
<1> QED
  BY <1>1, <1>2, <1>3, <1>4 DEF CouncilInv, StartsAreKnown, VotesAreBacked, Majority

\* The proposals and votes are numbered alike.
LEMMA Numbered ==
  ASSUME TypeOK
  PROVE  /\ Len(proposals) \in Nat /\ ProposalIds = 1 .. Len(proposals)
         /\ DOMAIN votes = ProposalIds /\ IsFiniteSet(ProposalIds)
         /\ \A p \in ProposalIds : /\ proposals[p] \in Proposals
                                   /\ votes[p] \in [Accounts -> Votes \cup {NoVote}]
<1>1. /\ Len(proposals) \in Nat /\ ProposalIds = 1 .. Len(proposals)
      /\ DOMAIN votes = ProposalIds
      /\ \A p \in ProposalIds : /\ proposals[p] \in Proposals
                                /\ votes[p] \in [Accounts -> Votes \cup {NoVote}]
  BY LenProperties, ElementOfSeq DEF TypeOK, ProposalIds
<1> QED
  BY <1>1, FS_Interval

\* What is held for each proposal.
Held(list) ==
  [p \in DOMAIN list |-> IF list[p].status = "active" THEN list[p].deposit_amount ELSE 0]

\* What VotesAreBacked says of one proposal.
Backed(p) ==
  /\ proposals[p].for_votes = CastFor(QueryProposalVotes(p), "for")
  /\ proposals[p].against_votes = CastFor(QueryProposalVotes(p), "against")
  /\ \A u \in DOMAIN QueryProposalVotes(p) :
       QueryProposalVotes(p)[u].power = PowerAt(u, proposals[p].start_height - 1)

\* A proposal stays backed while it, its votes and the past are what they were.
LEMMA BackedStays ==
  ASSUME NEW p, Backed(p),
         proposals'[p].for_votes = proposals[p].for_votes,
         proposals'[p].against_votes = proposals[p].against_votes,
         proposals'[p].start_height = proposals[p].start_height,
         votes'[p] = votes[p],
         \A u \in Accounts : PowerAt(u, proposals[p].start_height - 1)'
                               = PowerAt(u, proposals[p].start_height - 1)
  PROVE  Backed(p)'
<1>1. QueryProposalVotes(p)' = QueryProposalVotes(p)
  BY DEF QueryProposalVotes
<1>2. DOMAIN QueryProposalVotes(p) \subseteq Accounts
  BY DEF QueryProposalVotes
<1> QED
  BY <1>1, <1>2 DEF Backed

\* A submitted proposal is typed, adds its deposit and starts without votes.
LEMMA SubmitStep ==
  ASSUME CouncilInv, NEW deposit \in Deposits, NEW messages \in MessageLists,
         SubmitProposal(deposit, messages)
  PROVE  CouncilInv'
<1> PICK n : n = Len(proposals) + 1
  OBVIOUS
<1> DEFINE new == [status |-> "active", for_votes |-> 0, against_votes |-> 0,
                   start_height |-> height,
                   end_height |-> height + config.proposal_voting_period,
                   messages |-> messages, deposit_amount |-> deposit]
           blank == [v \in Accounts |-> NoVote]
<1> USE DEF CouncilInv
<1>1. /\ proposals' = Append(proposals, new) /\ votes' = Append(votes, blank)
      /\ mars' = mars + deposit
      /\ height' = height /\ power' = power /\ sealed' = sealed /\ config' = config
  BY DEF SubmitProposal, powerVars
<1>2. deposit \in Nat /\ config.proposal_voting_period \in Nat /\ height \in Nat \ {0}
  BY CouncilAssumptions DEF TypeOK, ConfigFields
<1>3. new \in Proposals /\ blank \in [Accounts -> Votes \cup {NoVote}]
  BY <1>2 DEF Proposals, Statuses
<1>4. /\ Len(proposals) \in Nat /\ ProposalIds = 1 .. Len(proposals)
      /\ IsFiniteSet(ProposalIds)
  BY Numbered
<1> HIDE DEF new, blank
<1>5. /\ proposals' \in Seq(Proposals) /\ Len(proposals') = n
      /\ ProposalIds' = ProposalIds \cup {n} /\ n \notin ProposalIds
      /\ proposals'[n] = new
      /\ \A p \in ProposalIds : proposals'[p] = proposals[p]
  <2>1. proposals \in Seq(Proposals)
    BY DEF TypeOK
  <2>2. /\ proposals' \in Seq(Proposals) /\ Len(proposals') = n
        /\ proposals'[n] = new
        /\ \A p \in 1 .. Len(proposals) : proposals'[p] = proposals[p]
    BY <1>1, <1>3, <2>1, AppendProperties
  <2>3. ProposalIds' = 1 .. n
    BY <2>2, LenProperties DEF ProposalIds
  <2> QED
    BY <1>4, <2>2, <2>3
<1>6. /\ votes' \in Seq([Accounts -> Votes \cup {NoVote}]) /\ Len(votes') = n
      /\ votes'[n] = blank
      /\ \A p \in ProposalIds : votes'[p] = votes[p]
  BY <1>1, <1>3, <1>4, AppendProperties DEF TypeOK
<1>7. TypeOK'
  BY <1>1, <1>2, <1>5, <1>6 DEF TypeOK
<1>8. StartsAreKnown' /\ ValidConfig(config)'
  <2>1. ValidConfig(config)'
    BY <1>1 DEF ValidConfig
  <2>2. \A p \in ProposalIds : proposals'[p].start_height \in 1 .. height'
    BY <1>1, <1>5 DEF StartsAreKnown
  <2>3. proposals'[n].start_height \in 1 .. height'
    BY <1>1, <1>2, <1>5 DEF new
  <2> QED
    BY <1>5, <2>1, <2>2, <2>3 DEF StartsAreKnown
<1>9. DepositsAreHeld'
  <2>1. /\ IsFiniteSet(ProposalIds') /\ n \in ProposalIds' /\ ProposalIds' \ {n} = ProposalIds
    BY <1>4, <1>5, FS_AddElement
  <2>2. \A p \in ProposalIds' : Held(proposals')[p] \in Nat
    <3>1. \A p \in ProposalIds' : proposals'[p] \in Proposals
      BY <1>5, <1>7, LenProperties, ElementOfSeq DEF ProposalIds
    <3> QED
      BY <3>1 DEF Held, Proposals, ProposalIds
  <2>3. Total(Held(proposals'), ProposalIds')
          = Total(Held(proposals'), ProposalIds' \ {n}) + Held(proposals')[n]
    BY <2>1, <2>2, TotalSplit
  <2>4. Held(proposals')[n] = deposit
    BY <1>5 DEF Held, new, ProposalIds
  <2>5. Total(Held(proposals'), ProposalIds) = Total(Held(proposals), ProposalIds)
    <3>1. \A p \in ProposalIds : Held(proposals')[p] = Held(proposals)[p]
      BY <1>5 DEF Held, ProposalIds
    <3> QED
      BY <3>1, TotalAgree
  <2> QED
    BY <1>1, <2>1, <2>3, <2>4, <2>5 DEF DepositsAreHeld, Held, ProposalIds
<1>10. VotesAreBacked'
  <2>1. ASSUME NEW p \in ProposalIds
        PROVE  Backed(p)'
    <3>1. \A u \in Accounts : PowerAt(u, proposals[p].start_height - 1)'
                                = PowerAt(u, proposals[p].start_height - 1)
      BY <1>1, <1>5 DEF PowerAt
    <3>2. Backed(p)
      BY DEF VotesAreBacked, Backed
    <3> QED
      BY <1>5, <1>6, <3>1, <3>2, BackedStays
  <2>2. QueryProposalVotes(n)' = Ballot(blank)
    BY <1>6 DEF QueryProposalVotes, Ballot
  <2>3. DOMAIN Ballot(blank) = {} /\ \A option : CastFor(Ballot(blank), option) = 0
    BY NothingCast DEF Ballot, blank
  <2>4. Backed(n)'
    BY <1>5, <2>2, <2>3 DEF Backed, new
  <2> QED
    BY <1>5, <2>1, <2>4 DEF VotesAreBacked, Backed
<1>11. Majority'
  BY <1>5 DEF Majority, new
<1> QED
  BY <1>7, <1>8, <1>9, <1>10, <1>11

\* A handler that touches neither a start nor a deposit keeps the rest typed.
LEMMA SameProposals ==
  ASSUME TypeOK, NEW p \in ProposalIds, NEW new \in Proposals,
         proposals' = [proposals EXCEPT ![p] = new]
  PROVE  /\ proposals' \in Seq(Proposals) /\ Len(proposals') = Len(proposals)
         /\ ProposalIds' = ProposalIds
         /\ proposals'[p] = new
         /\ \A q \in ProposalIds \ {p} : proposals'[q] = proposals[q]
<1>1. proposals \in Seq(Proposals) /\ ProposalIds = 1 .. Len(proposals)
  BY Numbered DEF TypeOK
<1>2. /\ proposals' \in Seq(Proposals) /\ Len(proposals') = Len(proposals)
      /\ \A q \in 1 .. Len(proposals) : proposals'[q] = IF q = p THEN new ELSE proposals[q]
  BY <1>1, ExceptSeq
<1>3. ProposalIds' = 1 .. Len(proposals')
  BY <1>2, LenProperties DEF ProposalIds
<1> QED
  BY <1>1, <1>2, <1>3

\* A vote is counted once, with the power of the block before the proposal.
LEMMA VoteStep ==
  ASSUME CouncilInv, NEW u \in Accounts, NEW p \in ProposalIds, NEW option \in Options,
         CastVote(u, p, option)
  PROVE  CouncilInv'
<1> USE DEF CouncilInv
<1> DEFINE old == proposals[p]
           vote == [option |-> option, power |-> VotingPowerFor(u, p)]
           new == IF option = "for" THEN [old EXCEPT !.for_votes = @ + VotingPowerFor(u, p)]
                  ELSE [old EXCEPT !.against_votes = @ + VotingPowerFor(u, p)]
           ballot == [votes[p] EXCEPT ![u] = vote]
<1>1. /\ proposals' = [proposals EXCEPT ![p] = new] /\ votes' = [votes EXCEPT ![p] = ballot]
      /\ mars' = mars /\ height' = height /\ power' = power /\ sealed' = sealed
      /\ config' = config
      /\ old.status = "active" /\ votes[p][u] = NoVote
  BY DEF CastVote, MayVote, powerVars
<1>2. /\ old \in Proposals /\ votes[p] \in [Accounts -> Votes \cup {NoVote}]
      /\ Len(proposals) \in Nat /\ ProposalIds = 1 .. Len(proposals)
      /\ DOMAIN votes = ProposalIds
  BY Numbered
<1>3. VotingPowerFor(u, p) \in Nat
  BY ElementOfSeq, LenProperties DEF VotingPowerFor, PowerAt, TypeOK
<1>4. /\ new \in Proposals /\ new.status = "active" /\ new.start_height = old.start_height
      /\ new.deposit_amount = old.deposit_amount
      /\ new.for_votes = old.for_votes + IF option = "for" THEN VotingPowerFor(u, p) ELSE 0
      /\ new.against_votes
           = old.against_votes + IF option = "against" THEN VotingPowerFor(u, p) ELSE 0
  <2>1. CASE option = "for"
    <3>1. new = [old EXCEPT !.for_votes = old.for_votes + VotingPowerFor(u, p)]
      BY <2>1
    <3> QED
      BY <1>1, <1>2, <1>3, <2>1, <3>1, SMTT(30) DEF Proposals
  <2>2. CASE option = "against"
    BY <1>1, <1>2, <1>3, <2>2, SMTT(30) DEF Proposals
  <2> QED
    BY <2>1, <2>2 DEF Options
<1>5. vote \in Votes /\ ballot \in [Accounts -> Votes \cup {NoVote}] /\ ballot[u] = vote
  BY <1>2, <1>3 DEF Votes
<1> HIDE DEF new, vote
<1>6. /\ proposals' \in Seq(Proposals) /\ Len(proposals') = Len(proposals)
      /\ ProposalIds' = ProposalIds
      /\ proposals'[p] = new
      /\ \A q \in ProposalIds \ {p} : proposals'[q] = proposals[q]
  BY <1>1, <1>4, SameProposals
<1>7. /\ votes' \in Seq([Accounts -> Votes \cup {NoVote}]) /\ Len(votes') = Len(votes)
      /\ votes'[p] = ballot /\ \A q \in ProposalIds \ {p} : votes'[q] = votes[q]
  BY <1>1, <1>2, <1>5, ExceptSeq, LenProperties DEF TypeOK
<1>8. TypeOK'
  BY <1>1, <1>6, <1>7 DEF TypeOK
<1>9. StartsAreKnown' /\ ValidConfig(config)' /\ Majority'
  BY <1>1, <1>4, <1>6 DEF StartsAreKnown, ValidConfig, Majority
<1>10. DepositsAreHeld'
  <2>1. \A q \in ProposalIds : Held(proposals')[q] = Held(proposals)[q]
    BY <1>1, <1>4, <1>6 DEF Held, ProposalIds
  <2>2. Total(Held(proposals'), ProposalIds) = Total(Held(proposals), ProposalIds)
    BY <2>1, TotalAgree
  <2> QED
    BY <1>1, <1>6, <2>2 DEF DepositsAreHeld, Held, ProposalIds
<1>11. VotesAreBacked'
  <2>2. ASSUME NEW q \in ProposalIds, q # p
        PROVE  Backed(q)'
    <3>1. Backed(q) /\ proposals[q].start_height \in Int
      BY Numbered DEF VotesAreBacked, Backed, Proposals
    <3>2. \A v \in Accounts : PowerAt(v, proposals[q].start_height - 1)'
                                = PowerAt(v, proposals[q].start_height - 1)
      BY <1>1, <1>6, <2>2 DEF PowerAt
    <3> QED
      BY <1>6, <1>7, <2>2, <3>1, <3>2, BackedStays
  <2>3. Backed(p)'
    <3>1. QueryProposalVotes(p)' = Ballot(ballot) /\ QueryProposalVotes(p) = Ballot(votes[p])
      BY <1>7 DEF QueryProposalVotes, Ballot
    <3>2. ASSUME NEW o
          PROVE  CastFor(Ballot(ballot), o)
            = CastFor(Ballot(votes[p]), o) + (IF option = o THEN VotingPowerFor(u, p) ELSE 0)
      <4>1. vote.option = option /\ vote.power = VotingPowerFor(u, p)
        BY DEF vote
      <4>2. CastFor(Ballot(ballot), o)
              = CastFor(Ballot(votes[p]), o) + (IF vote.option = o THEN vote.power ELSE 0)
        <5>1. /\ votes[p] \in [Accounts -> Votes \cup {NoVote}]
              /\ votes[p][u] = NoVote /\ vote \in Votes
          BY <1>1, <1>2, <1>5
        <5> QED
          BY <5>1, CastGrows, SMTT(30)
      <4> QED
        BY <4>1, <4>2
    <3>3. Backed(p)
      BY DEF VotesAreBacked, Backed
    <3>4. /\ proposals'[p].for_votes = CastFor(Ballot(ballot), "for")
          /\ proposals'[p].against_votes = CastFor(Ballot(ballot), "against")
      BY <1>4, <1>6, <3>1, <3>2, <3>3 DEF Backed
    <3>5. \A v \in DOMAIN Ballot(ballot) :
            Ballot(ballot)[v].power = PowerAt(v, old.start_height - 1)
      <4>1. /\ DOMAIN Ballot(ballot) = DOMAIN Ballot(votes[p]) \cup {u}
            /\ Ballot(ballot)[u] = vote
            /\ \A v \in DOMAIN Ballot(ballot) \ {u} : Ballot(ballot)[v] = Ballot(votes[p])[v]
        BY <1>2, <1>5, CouncilAssumptions DEF Ballot
      <4> QED
        BY <3>1, <3>3, <4>1 DEF Backed, VotingPowerFor, vote
    <3>6. \A v \in DOMAIN Ballot(ballot) :
            PowerAt(v, proposals[p].start_height - 1)'
              = PowerAt(v, old.start_height - 1)
      BY <1>1, <1>4, <1>6 DEF PowerAt
    <3> QED
      BY <3>1, <3>4, <3>5, <3>6 DEF Backed
  <2> QED
    BY <1>6, <2>2, <2>3 DEF VotesAreBacked, Backed
<1> QED
  BY <1>8, <1>9, <1>10, <1>11

\* A proposal changed in its status alone keeps its votes, and so do the others.
LEMMA StatusStep ==
  ASSUME CouncilInv, NEW p \in ProposalIds, NEW status \in Statuses,
         proposals' = [proposals EXCEPT ![p].status = status],
         UNCHANGED <<powerVars, votes>>
  PROVE  /\ proposals' \in Seq(Proposals) /\ Len(proposals') = Len(proposals)
         /\ ProposalIds' = ProposalIds
         /\ proposals'[p] = [proposals[p] EXCEPT !.status = status]
         /\ \A q \in ProposalIds \ {p} : proposals'[q] = proposals[q]
         /\ StartsAreKnown' /\ VotesAreBacked'
<1> USE DEF CouncilInv
<1> DEFINE new == [proposals[p] EXCEPT !.status = status]
<1>1. /\ height' = height /\ sealed' = sealed /\ votes' = votes
      /\ proposals' = [proposals EXCEPT ![p] = new]
  BY DEF powerVars
<1>2. proposals[p] \in Proposals
  BY Numbered
<1>3. /\ new \in Proposals /\ new.start_height = proposals[p].start_height
      /\ new.for_votes = proposals[p].for_votes
      /\ new.against_votes = proposals[p].against_votes
  BY <1>2 DEF Proposals
<1> HIDE DEF new
<1>4. /\ proposals' \in Seq(Proposals) /\ Len(proposals') = Len(proposals)
      /\ ProposalIds' = ProposalIds
      /\ proposals'[p] = new
      /\ \A q \in ProposalIds \ {p} : proposals'[q] = proposals[q]
  BY <1>1, <1>3, SameProposals
<1>5. StartsAreKnown'
  BY <1>1, <1>3, <1>4 DEF StartsAreKnown
<1>6. VotesAreBacked'
  <2>1. ASSUME NEW q \in ProposalIds
        PROVE  Backed(q)'
    <3>1. Backed(q)
      BY DEF VotesAreBacked, Backed
    <3>2. /\ proposals'[q].for_votes = proposals[q].for_votes
          /\ proposals'[q].against_votes = proposals[q].against_votes
          /\ proposals'[q].start_height = proposals[q].start_height
      BY <1>3, <1>4
    <3>3. \A v \in Accounts : PowerAt(v, proposals[q].start_height - 1)'
                                = PowerAt(v, proposals[q].start_height - 1)
      BY <1>1, <3>2 DEF PowerAt
    <3> QED
      BY <1>1, <3>1, <3>2, <3>3, BackedStays
  <2> QED
    BY <1>4, <2>1 DEF VotesAreBacked, Backed
<1> QED
  BY <1>4, <1>5, <1>6 DEF new

\* A proposal passes with a majority, and its deposit is paid out once.
LEMMA EndStep ==
  ASSUME CouncilInv, NEW p \in ProposalIds, EndProposal(p)
  PROVE  CouncilInv'
<1> USE DEF CouncilInv
<1> DEFINE status == IF Succeeds(proposals[p]) THEN "passed" ELSE "rejected"
           deposit == proposals[p].deposit_amount
<1>1. /\ proposals[p].status = "active" /\ mars >= deposit
      /\ proposals' = [proposals EXCEPT ![p].status = status]
      /\ mars' = mars - deposit
      /\ UNCHANGED <<powerVars, votes>>
      /\ height' = height /\ power' = power /\ sealed' = sealed /\ votes' = votes
      /\ config' = config
  BY DEF EndProposal, MayEnd, powerVars
<1>2. proposals[p] \in Proposals /\ IsFiniteSet(ProposalIds)
  BY Numbered
<1>3. status \in Statuses
  BY DEF Statuses
<1>4. /\ proposals' \in Seq(Proposals) /\ Len(proposals') = Len(proposals)
      /\ ProposalIds' = ProposalIds
      /\ proposals'[p] = [proposals[p] EXCEPT !.status = status]
      /\ \A q \in ProposalIds \ {p} : proposals'[q] = proposals[q]
      /\ StartsAreKnown' /\ VotesAreBacked'
  BY <1>1, <1>3, StatusStep
<1>5. mars \in Nat /\ deposit \in Nat
  BY <1>2 DEF TypeOK, Proposals
<1>6. TypeOK' /\ ValidConfig(config)'
  BY <1>1, <1>4, <1>5, SMTT(30) DEF TypeOK, ValidConfig
<1>7. DepositsAreHeld'
  <2>1. \A q \in ProposalIds : proposals[q] \in Proposals /\ proposals'[q] \in Proposals
    BY <1>4, ElementOfSeq, LenProperties, Numbered DEF ProposalIds
  <2>2. \A q \in ProposalIds : Held(proposals)[q] \in Nat /\ Held(proposals')[q] \in Nat
    BY <1>4, <2>1 DEF Held, ProposalIds, Proposals
  <2>3. \A q \in ProposalIds \ {p} : Held(proposals')[q] = Held(proposals)[q]
    BY <1>4 DEF Held, ProposalIds
  <2>4. Held(proposals)[p] = deposit /\ Held(proposals')[p] = 0
    BY <1>1, <1>2, <1>4 DEF Held, ProposalIds, Proposals
  <2>6. Total(Held(proposals'), ProposalIds) = (Total(Held(proposals), ProposalIds) - deposit) + 0
    <3>1. Total(Held(proposals'), ProposalIds)
            = (Total(Held(proposals), ProposalIds) - Held(proposals)[p]) + Held(proposals')[p]
      <4>1. PICK f, g : f = Held(proposals) /\ g = Held(proposals')
        OBVIOUS
      <4>2. Total(g, ProposalIds) = (Total(f, ProposalIds) - f[p]) + g[p]
        BY <1>2, <2>2, <2>3, <4>1, TotalChange
      <4> QED
        BY <4>1, <4>2
    <3> QED
      BY <2>4, <3>1
  <2>5. mars = Total(Held(proposals), ProposalIds)
    BY DEF DepositsAreHeld, Held, ProposalIds
  <2> QED
    BY <1>1, <1>4, <1>5, <2>5, <2>6 DEF DepositsAreHeld, Held, ProposalIds
<1>8. Majority'
  <2>1. ASSUME Succeeds(proposals[p])
        PROVE  proposals[p].for_votes > proposals[p].against_votes
    <3> DEFINE for == proposals[p].for_votes
               against == proposals[p].against_votes
               threshold == config.proposal_required_threshold
    <3>1. for \in Nat /\ against \in Nat /\ threshold \in Nat /\ 2 * threshold >= One
      BY <1>2 DEF Proposals, TypeOK, ConfigFields
    <3>2. (IF for + against > 0 THEN FromRatio(for, for + against) ELSE 0) > threshold
      BY <2>1 DEF Succeeds, MeetsThreshold
    <3> HIDE DEF for, against, threshold
    <3>3. for + against > 0 /\ FromRatio(for, for + against) > threshold
      BY <3>1, <3>2
    <3> QED
      BY <3>1, <3>3, MajorityOfCast DEF for, against
  <2>2. /\ proposals'[p].status = status
        /\ proposals'[p].for_votes = proposals[p].for_votes
        /\ proposals'[p].against_votes = proposals[p].against_votes
    BY <1>2, <1>4 DEF Proposals
  <2> QED
    BY <1>4, <2>1, <2>2 DEF Majority
<1> QED
  BY <1>4, <1>6, <1>7, <1>8

\* What a proposal executes leaves a valid configuration, or it fails.
LEMMA ExecuteStep ==
  ASSUME CouncilInv, NEW p \in ProposalIds, ExecuteProposal(p)
  PROVE  CouncilInv'
<1> USE DEF CouncilInv
<1>1. /\ proposals[p].status = "passed"
      /\ proposals' = [proposals EXCEPT ![p].status = "executed"]
      /\ config' = UpdatedBy(proposals[p].messages, DOMAIN proposals[p].messages)
      /\ mars' = mars
      /\ UNCHANGED <<powerVars, votes>>
      /\ height' = height /\ power' = power /\ sealed' = sealed /\ votes' = votes
  BY DEF ExecuteProposal, powerVars
<1>2. proposals[p] \in Proposals /\ proposals[p].messages \in MessageLists
  BY Numbered DEF Proposals
<1>3. /\ proposals' \in Seq(Proposals) /\ Len(proposals') = Len(proposals)
      /\ ProposalIds' = ProposalIds
      /\ proposals'[p] = [proposals[p] EXCEPT !.status = "executed"]
      /\ \A q \in ProposalIds \ {p} : proposals'[q] = proposals[q]
      /\ StartsAreKnown' /\ VotesAreBacked'
  BY <1>1, StatusStep DEF Statuses
<1>4. config' \in [ConfigFields -> Nat]
  BY <1>1, <1>2, UpdatedByType DEF TypeOK
<1>5. ValidConfig(config')
  BY <1>1, <1>2, AllValidated DEF ExecuteProposal, TypeOK
<1>6. TypeOK' /\ ValidConfig(config)'
  BY <1>1, <1>3, <1>4, <1>5 DEF TypeOK, ValidConfig
<1>7. DepositsAreHeld'
  <2>1. \A q \in ProposalIds : Held(proposals')[q] = Held(proposals)[q]
    BY <1>1, <1>2, <1>3 DEF Held, ProposalIds, Proposals
  <2>2. Total(Held(proposals'), ProposalIds) = Total(Held(proposals), ProposalIds)
    BY <2>1, TotalAgree
  <2> QED
    BY <1>1, <1>3, <2>2 DEF DepositsAreHeld, Held, ProposalIds
<1>8. Majority'
  <2>1. /\ proposals'[p].for_votes = proposals[p].for_votes
        /\ proposals'[p].against_votes = proposals[p].against_votes
    BY <1>2, <1>3 DEF Proposals
  <2> QED
    BY <1>1, <1>3, <2>1 DEF Majority
<1> QED
  BY <1>3, <1>6, <1>7, <1>8

\* Power that changes, and a block that ends, leave the past as it was.
LEMMA PowerStep ==
  ASSUME CouncilInv, PowerChanges \/ BlockPasses \/ UNCHANGED vars
  PROVE  CouncilInv'
<1> USE DEF CouncilInv
<1>1. UNCHANGED councilVars
  BY DEF PowerChanges, BlockPasses, vars
<1>2. /\ config' = config /\ proposals' = proposals /\ votes' = votes /\ mars' = mars
      /\ ProposalIds' = ProposalIds
  BY <1>1 DEF councilVars, ProposalIds
<1>3. /\ height \in Nat \ {0} /\ power \in [Accounts -> Nat]
      /\ sealed \in Seq([Accounts -> Nat]) /\ Len(sealed) = height - 1
  BY DEF TypeOK
<1>4. /\ height' \in Nat \ {0} /\ height' >= height /\ power' \in [Accounts -> Nat]
      /\ sealed' \in Seq([Accounts -> Nat]) /\ Len(sealed') = height' - 1
      /\ \A block \in 0 .. height - 1 :
           /\ block \in DOMAIN sealed' <=> block \in DOMAIN sealed
           /\ block \in DOMAIN sealed => sealed'[block] = sealed[block]
  <2>1. CASE PowerChanges
    BY <1>3, <2>1, CouncilAssumptions DEF PowerChanges, ChangePower
  <2>2. CASE BlockPasses
    <3>1. height' = height + 1 /\ sealed' = Append(sealed, power) /\ power' = power
      BY <2>2 DEF BlockPasses, SealBlock
    <3>2. /\ sealed' \in Seq([Accounts -> Nat]) /\ Len(sealed') = Len(sealed) + 1
          /\ \A i \in 1 .. Len(sealed) : sealed'[i] = sealed[i]
      BY <1>3, <3>1, AppendProperties
    <3>3. DOMAIN sealed = 1 .. height - 1 /\ DOMAIN sealed' = 1 .. height
      BY <1>3, <3>2, LenProperties
    <3>4. \A block \in 0 .. height - 1 :
            /\ block \in DOMAIN sealed' <=> block \in DOMAIN sealed
            /\ block \in DOMAIN sealed => sealed'[block] = sealed[block]
      BY <1>3, <3>1, <3>2, <3>3
    <3> QED
      BY <1>3, <3>1, <3>2, <3>4
  <2>3. CASE UNCHANGED vars
    BY <1>3, <2>3 DEF vars, powerVars
  <2> QED
    BY <2>1, <2>2, <2>3
<1>5. TypeOK'
  BY <1>2, <1>4 DEF TypeOK
<1>6. StartsAreKnown' /\ ValidConfig(config)' /\ DepositsAreHeld' /\ Majority'
  BY <1>2, <1>3, <1>4 DEF StartsAreKnown, ValidConfig, DepositsAreHeld, Majority
<1>7. VotesAreBacked'
  <2>1. ASSUME NEW q \in ProposalIds
        PROVE  Backed(q)'
    <3>1. Backed(q)
      BY DEF VotesAreBacked, Backed
    <3>2. proposals[q].start_height - 1 \in 0 .. height - 1
      BY <1>3 DEF StartsAreKnown
    <3>3. \A v \in Accounts : PowerAt(v, proposals[q].start_height - 1)'
                                = PowerAt(v, proposals[q].start_height - 1)
      BY <1>2, <1>4, <3>2 DEF PowerAt
    <3> QED
      BY <1>2, <3>1, <3>3, BackedStays
  <2> QED
    BY <1>2, <2>1 DEF VotesAreBacked, Backed
<1> QED
  BY <1>5, <1>6, <1>7

-----------------------------------------------------------------------------
(* Theorems. *)

LEMMA CouncilInvStep ==
  ASSUME CouncilInv, [Next]_vars
  PROVE  CouncilInv'
<1>1. CASE CouncilStep
  BY <1>1, SubmitStep, VoteStep, EndStep, ExecuteStep DEF CouncilStep
<1>2. CASE PowerChanges \/ BlockPasses \/ UNCHANGED vars
  BY <1>2, PowerStep
<1> QED
  BY <1>1, <1>2 DEF Next

\* The strengthened invariant holds for any number of accounts and proposals.
THEOREM CouncilCorrect == Spec => []CouncilInv
<1>1. Init => CouncilInv
  BY CouncilInvInit
<1>2. CouncilInv /\ [Next]_vars => CouncilInv'
  BY CouncilInvStep
<1> QED
  BY <1>1, <1>2, PTL DEF Spec

\* The council can return or forward the deposit of every proposal that has not
\* ended, whatever was submitted and ended before.
THEOREM DepositsStay == Spec => []DepositsAreHeld
<1>1. CouncilInv => DepositsAreHeld
  BY DEF CouncilInv
<1> QED
  BY <1>1, CouncilCorrect, PTL

\* Every vote is counted once, at the power of the block before the proposal,
\* however the voting power moves in the meantime.
THEOREM VotesStayBacked == Spec => []VotesAreBacked
<1>1. CouncilInv => VotesAreBacked
  BY DEF CouncilInv
<1> QED
  BY <1>1, CouncilCorrect, PTL

\* However proposals change the threshold, none passes without a majority: the
\* last message of each of them leaves a configuration that validates.
THEOREM MajoritiesDecide == Spec => []PassedByMajority
<1>1. ASSUME CouncilInv
      PROVE  PassedByMajority
  <2> DEFINE limit == PAGINATION_MAX_LIMIT
             last == IF 1 + limit - 1 < Len(proposals) THEN 1 + limit - 1 ELSE Len(proposals)
             listed == QueryProposals(1, limit)
  <2>1. /\ Len(proposals) \in Nat /\ ProposalIds = 1 .. Len(proposals)
        /\ \A p \in ProposalIds : proposals[p] \in Proposals
    BY <1>1, Numbered DEF CouncilInv
  <2>2. last \in 0 .. Len(proposals) /\ listed = SubSeq(proposals, 1, last)
    BY <2>1 DEF QueryProposals, PAGINATION_MAX_LIMIT
  <2> HIDE DEF last, listed
  <2>3. \A i \in 1 .. last : proposals[i] \in Proposals
    BY <2>1, <2>2
  <2>4. /\ listed \in Seq(Proposals)
        /\ Len(listed) = IF 1 <= last THEN last - 1 + 1 ELSE 0
        /\ \A i \in 1 .. last - 1 + 1 : listed[i] = proposals[1 + i - 1]
    BY <2>2, <2>3, SubSeqProperties
  <2>5. \A i \in DOMAIN listed : i \in ProposalIds /\ listed[i] = proposals[i]
    BY <2>1, <2>2, <2>4, LenProperties
  <2> QED
    BY <1>1, <2>5 DEF CouncilInv, Majority, PassedByMajority, listed
<1> QED
  BY <1>1, CouncilCorrect, PTL

\* What a step does to one proposal and its votes, as OutcomesAreFinal has it.
FinalFor(p) ==
  /\ \A u \in Accounts : votes[p][u] # NoVote => votes'[p][u] = votes[p][u]
  /\ proposals[p].status # "active" => votes'[p] = votes[p]
  /\ <<proposals[p].status, proposals'[p].status>> \in
       {<<s, s>> : s \in Statuses} \cup
       {<<"active", "passed">>, <<"active", "rejected">>, <<"passed", "executed">>}

LEMMA FinalStep ==
  ASSUME CouncilInv, [Next]_vars, NEW p \in ProposalIds
  PROVE  FinalFor(p)
<1>1. /\ Len(proposals) \in Nat /\ ProposalIds = 1 .. Len(proposals)
      /\ DOMAIN votes = ProposalIds
      /\ \A q \in ProposalIds : /\ proposals[q] \in Proposals
                                /\ votes[q] \in [Accounts -> Votes \cup {NoVote}]
  BY Numbered DEF CouncilInv
<1>2. proposals[p].status \in Statuses
  BY <1>1 DEF Proposals
<1>3. ASSUME proposals'[p] = proposals[p], votes'[p] = votes[p]
      PROVE  FinalFor(p)
  BY <1>2, <1>3 DEF FinalFor
<1>4. ASSUME NEW deposit \in Deposits, NEW messages \in MessageLists,
             SubmitProposal(deposit, messages)
      PROVE  FinalFor(p)
  <2>1. proposals \in Seq(Proposals) /\ votes \in Seq([Accounts -> Votes \cup {NoVote}])
        /\ Len(votes) = Len(proposals)
    BY DEF CouncilInv, TypeOK
  <2>2. proposals'[p] = proposals[p]
    BY <1>1, <1>4, <2>1 DEF SubmitProposal
  <2>3. votes'[p] = votes[p]
    BY <1>1, <1>4, <2>1 DEF SubmitProposal
  <2> QED
    BY <1>3, <2>2, <2>3
<1>5. ASSUME NEW u \in Accounts, NEW q \in ProposalIds, NEW option \in Options,
             CastVote(u, q, option)
      PROVE  FinalFor(p)
  <2> DEFINE vote == [option |-> option, power |-> VotingPowerFor(u, q)]
  <2>1. /\ proposals[q].status = "active" /\ votes[q][u] = NoVote
        /\ votes' = [votes EXCEPT ![q] = [votes[q] EXCEPT ![u] = vote]]
    BY <1>5 DEF CastVote, MayVote
  <2>2. \/ proposals' = [proposals EXCEPT ![q].for_votes = @ + VotingPowerFor(u, q)]
        \/ proposals' = [proposals EXCEPT ![q].against_votes = @ + VotingPowerFor(u, q)]
    BY <1>5 DEF CastVote
  <2> HIDE DEF vote
  <2>3. p # q => proposals'[p] = proposals[p] /\ votes'[p] = votes[p]
    BY <1>1, <2>1, <2>2
  <2>4. proposals'[q].status = proposals[q].status
    BY <1>1, <2>2 DEF Proposals, ProposalIds
  <2>5. \A v \in Accounts : votes[q][v] # NoVote => votes'[q][v] = votes[q][v]
    BY <1>1, <2>1
  <2>6. CASE p = q
    BY <1>2, <2>1, <2>4, <2>5, <2>6 DEF FinalFor
  <2> QED
    BY <1>3, <2>3, <2>6
<1>6. ASSUME NEW q \in ProposalIds, EndProposal(q) \/ ExecuteProposal(q)
      PROVE  FinalFor(p)
  <2>1. votes' = votes
    BY <1>6 DEF EndProposal, ExecuteProposal
  <2>2. \E status \in Statuses :
          /\ proposals' = [proposals EXCEPT ![q].status = status]
          /\ <<proposals[q].status, status>> \in
               {<<"active", "passed">>, <<"active", "rejected">>, <<"passed", "executed">>}
    BY <1>6 DEF EndProposal, ExecuteProposal, MayEnd, Statuses
  <2>3. p # q => proposals'[p] = proposals[p]
    BY <2>2
  <2>4. <<proposals[q].status, proposals'[q].status>> \in
          {<<"active", "passed">>, <<"active", "rejected">>, <<"passed", "executed">>}
    BY <1>1, <2>2 DEF Proposals, ProposalIds
  <2>5. CASE p = q
    BY <2>1, <2>4, <2>5 DEF FinalFor
  <2> QED
    BY <1>3, <2>1, <2>3, <2>5
<1>7. CASE PowerChanges \/ BlockPasses \/ UNCHANGED vars
  <2>1. proposals' = proposals /\ votes' = votes
    BY <1>7 DEF PowerChanges, BlockPasses, vars, councilVars
  <2> QED
    BY <1>3, <2>1
<1> QED
  BY <1>4, <1>5, <1>6, <1>7 DEF Next, CouncilStep

\* A vote that was cast stays, no vote is added after the end, and no proposal
\* takes a step back: it is executed at most once, and only after it passed.
THEOREM OutcomesStay == Spec => OutcomesAreFinal
<1>1. CouncilInv /\ [Next]_vars => \A p \in ProposalIds : FinalFor(p)
  BY FinalStep
<1> QED
  BY <1>1, CouncilCorrect, PTL DEF Spec, OutcomesAreFinal, FinalFor

=============================================================================
