-------------------------- MODULE Majorities_proofs --------------------------
(***************************************************************************)
(* Theorems about the two contracts that decide by a majority.  The        *)
(* governance contract, for every set of accounts, voting period and       *)
(* quorum: tallies and ballots agree, an executed proposal had its         *)
(* majority, and a verdict is final.  The price oracle, for every set of   *)
(* publishers and every length of its list: the answer is the median of    *)
(* the fresh reports, a minority of the entries cannot move it away from   *)
(* the others' reports, and the lenient views agree with it.               *)
(*                                                                         *)
(* The oracle's sort and its gathering of reports are recursive functions; *)
(* they are unwound once into the sequence of their intermediate values,   *)
(* and then reasoned about by induction on the index.                      *)
(***************************************************************************)
EXTENDS Governance, PriceOracle, AccountSums_proofs, SequenceTheorems

----------------------------------------------------------------------------
\* Governance.  The inductive invariant: beside the types and the tallies, when a period
\* ends and what execute saw, in the proposal's own fields.

Passed(p) ==
    /\ ~p.cancelled
    /\ now > p.end_ledger
    /\ p.for_votes > Quorum(p)
    /\ p.for_votes > p.against_votes

GovernanceInv ==
    /\ GovernanceTypeOK
    /\ TallyCountsBallots
    /\ IsFiniteSet(ballots)
    /\ \A id \in 1..Len(proposals) :
          /\ proposals[id].end_ledger = proposals[id].start_ledger + VOTING_PERIOD
          /\ proposals[id].executed => Passed(proposals[id])

LEMMA InitInv == Init => GovernanceInv
<1> SUFFICES ASSUME Init PROVE GovernanceInv
  OBVIOUS
<1>1. /\ proposals = <<>> /\ Len(proposals) = 0 /\ ballots = {} /\ now = 0
  BY DEF Init
<1>2. IsFiniteSet(ballots)
  BY <1>1, FS_EmptySet
<1> QED BY <1>1, <1>2 DEF GovernanceInv, GovernanceTypeOK, TallyCountsBallots, ProposalCount

\* Replacing one proposal keeps the others.
LEMMA Replaced ==
    ASSUME NEW s \in Seq(Proposal), NEW id \in 1..Len(s), NEW q \in Proposal,
           NEW t, t = [s EXCEPT ![id] = q]
    PROVE  /\ t \in Seq(Proposal) /\ Len(t) = Len(s)
           /\ \A i \in 1..Len(s) : t[i] = IF i = id THEN q ELSE s[i]
OBVIOUS

----------------------------------------------------------------------------
\* The actions.

LEMMA ProposeInv ==
    ASSUME GovernanceInv, NEW proposer \in Accounts, Propose(proposer), UNCHANGED now
    PROVE  GovernanceInv'
<1> DEFINE new == [proposer |-> proposer,
                   start_ledger |-> now, end_ledger |-> now + VOTING_PERIOD,
                   for_votes |-> 0, against_votes |-> 0,
                   executed |-> FALSE, cancelled |-> FALSE]
           n == Len(proposals)
<1>1. /\ proposals \in Seq(Proposal) /\ ballots \subseteq Ballot /\ now \in Nat
      /\ IsFiniteSet(ballots) /\ n \in Nat
  BY DEF GovernanceInv, GovernanceTypeOK
<1>2. new \in Proposal
  BY <1>1, GovernanceAssumption DEF Proposal
<1>3. /\ proposals' = Append(proposals, new) /\ ballots' = ballots /\ now' = now
  BY DEF Propose
<1>4. /\ proposals' \in Seq(Proposal) /\ Len(proposals') = n + 1
      /\ \A i \in 1..n : proposals'[i] = proposals[i]
      /\ proposals'[n + 1] = new
  <2> HIDE DEF new
  <2> QED BY <1>1, <1>2, <1>3
<1>5. \A i \in 1..(n + 1) : i = n + 1 \/ i \in 1..n
  BY <1>1
<1>6. GovernanceTypeOK'
  <2>1. \A id \in 1..(n + 1) : proposals'[id].start_ledger <= now
    BY <1>1, <1>4, <1>5 DEF GovernanceInv, GovernanceTypeOK, GetProposal, ProposalCount
  <2>2. \A b \in ballots : b.id \in 1..(n + 1)
    BY <1>1 DEF GovernanceInv, GovernanceTypeOK, ProposalCount
  <2> QED BY <1>1, <1>3, <1>4, <2>1, <2>2 DEF GovernanceTypeOK, GetProposal, ProposalCount
<1>7. TallyCountsBallots'
  <2>1. \A support \in BOOLEAN : {b \in ballots : b.id = n + 1 /\ b.support = support} = {}
    BY <1>1 DEF GovernanceInv, GovernanceTypeOK, ProposalCount
  <2>2. \A support \in BOOLEAN :
           Cardinality({b \in ballots : b.id = n + 1 /\ b.support = support}) = 0
    BY <2>1, FS_EmptySet
  <2>3. new.for_votes = 0 /\ new.against_votes = 0
    OBVIOUS
  <2> HIDE DEF new
  <2>4. \A id \in 1..n :
           /\ proposals[id].for_votes
                = Cardinality({b \in ballots : b.id = id /\ b.support = TRUE})
           /\ proposals[id].against_votes
                = Cardinality({b \in ballots : b.id = id /\ b.support = FALSE})
    BY DEF GovernanceInv, TallyCountsBallots, BallotsFor, BallotsAgainst, GetProposal, ProposalCount
  <2>5. \A id \in 1..(n + 1) :
           /\ proposals'[id].for_votes
                = Cardinality({b \in ballots : b.id = id /\ b.support = TRUE})
           /\ proposals'[id].against_votes
                = Cardinality({b \in ballots : b.id = id /\ b.support = FALSE})
    <3> TAKE id \in 1..(n + 1)
    <3>1. CASE id \in 1..n
      BY <1>4, <2>4, <3>1
    <3>2. CASE id = n + 1
      BY <1>4, <2>2, <2>3, <3>2
    <3> QED BY <1>5, <3>1, <3>2
  <2>6. \A b, c \in ballots : b.id = c.id /\ b.voter = c.voter => b = c
    BY DEF GovernanceInv, TallyCountsBallots
  <2> QED BY <1>3, <1>4, <2>5, <2>6
          DEF TallyCountsBallots, BallotsFor, BallotsAgainst, GetProposal, ProposalCount
<1>8. ASSUME NEW id \in 1..(n + 1)
      PROVE  /\ proposals'[id].end_ledger = proposals'[id].start_ledger + VOTING_PERIOD
             /\ proposals'[id].executed => Passed(proposals'[id])
  BY <1>1, <1>4, <1>5, <1>8 DEF GovernanceInv
<1> QED BY <1>1, <1>3, <1>4, <1>6, <1>7, <1>8 DEF GovernanceInv, Passed

LEMMA VoteInv ==
    ASSUME GovernanceInv, NEW id \in 1..ProposalCount, NEW voter \in Accounts,
           NEW support \in BOOLEAN, Vote(voter, id, support), UNCHANGED now
    PROVE  GovernanceInv'
<1> DEFINE p == proposals[id]
           q == Counted(p, support)
           new == [id |-> id, voter |-> voter, support |-> support]
           Of(set, i, way) == {b \in set : b.id = i /\ b.support = way}
<1>1. /\ proposals \in Seq(Proposal) /\ ballots \subseteq Ballot /\ now \in Nat
      /\ IsFiniteSet(ballots) /\ id \in 1..Len(proposals)
  BY DEF GovernanceInv, GovernanceTypeOK, ProposalCount
<1>2. p \in Proposal
  BY <1>1
<1>3. /\ proposals' = [proposals EXCEPT ![id] = q]
      /\ ballots' = ballots \cup {new} /\ now' = now
      /\ ~p.executed /\ ~p.cancelled
      /\ \A b \in ballots : ~(b.id = id /\ b.voter = voter)
  BY DEF Vote, Cast, HasVoted, GetProposal
<1>4. /\ q \in Proposal /\ q.start_ledger = p.start_ledger /\ q.end_ledger = p.end_ledger
      /\ q.executed = p.executed /\ q.cancelled = p.cancelled
      /\ q.for_votes = IF support THEN p.for_votes + 1 ELSE p.for_votes
      /\ q.against_votes = IF support THEN p.against_votes ELSE p.against_votes + 1
  BY <1>2 DEF Counted, Proposal
<1>5. /\ proposals' \in Seq(Proposal) /\ Len(proposals') = Len(proposals)
      /\ \A i \in 1..Len(proposals) : proposals'[i] = IF i = id THEN q ELSE proposals[i]
  <2> HIDE DEF q
  <2> QED BY <1>1, <1>3, <1>4, Replaced
<1>6. /\ new \in Ballot /\ new \notin ballots
      /\ new.id = id /\ new.voter = voter /\ new.support = support
  BY <1>1, <1>3 DEF Ballot
<1> HIDE DEF q, new
<1>7. GovernanceTypeOK'
  BY <1>1, <1>3, <1>4, <1>5, <1>6
     DEF GovernanceInv, GovernanceTypeOK, GetProposal, ProposalCount
<1>8. IsFiniteSet(ballots')
  BY <1>1, <1>3, FS_AddElement
<1>9. ASSUME NEW i \in 1..Len(proposals), NEW way \in BOOLEAN
      PROVE  Cardinality(Of(ballots', i, way))
               = IF i = id /\ way = support THEN Cardinality(Of(ballots, i, way)) + 1
                                            ELSE Cardinality(Of(ballots, i, way))
  <2>1. IsFiniteSet(Of(ballots, i, way))
    BY <1>1, FS_Subset
  <2>2. CASE i = id /\ way = support
    <3>1. Of(ballots', i, way) = Of(ballots, i, way) \cup {new}
      BY <1>3, <1>6, <2>2
    <3>2. new \notin Of(ballots, i, way)
      BY <1>6
    <3> QED BY <2>1, <2>2, <3>1, <3>2, FS_AddElement
  <2>3. CASE ~(i = id /\ way = support)
    <3>1. Of(ballots', i, way) = Of(ballots, i, way)
      BY <1>3, <1>6, <2>3
    <3> QED BY <2>3, <3>1
  <2> QED BY <2>2, <2>3
<1>10. TallyCountsBallots'
  <2>1. \A i \in 1..Len(proposals) :
           /\ proposals[i].for_votes = Cardinality(Of(ballots, i, TRUE))
           /\ proposals[i].against_votes = Cardinality(Of(ballots, i, FALSE))
    BY DEF GovernanceInv, TallyCountsBallots, BallotsFor, BallotsAgainst, GetProposal, ProposalCount
  <2> HIDE DEF Of
  <2>2. ASSUME NEW i \in 1..Len(proposals)
        PROVE  /\ proposals'[i].for_votes = Cardinality(Of(ballots', i, TRUE))
               /\ proposals'[i].against_votes = Cardinality(Of(ballots', i, FALSE))
    <3>1. CASE i = id
      BY <1>4, <1>5, <1>9, <2>1, <3>1
    <3>2. CASE i # id
      BY <1>5, <1>9, <2>1, <3>2
    <3> QED BY <3>1, <3>2
  <2>3. \A b, c \in ballots' : b.id = c.id /\ b.voter = c.voter => b = c
    BY <1>3, <1>6 DEF GovernanceInv, TallyCountsBallots
  <2> USE DEF Of
  <2> QED BY <1>5, <2>2, <2>3 DEF TallyCountsBallots, BallotsFor, BallotsAgainst, GetProposal, ProposalCount
<1>11. ASSUME NEW i \in 1..Len(proposals)
       PROVE  /\ proposals'[i].end_ledger = proposals'[i].start_ledger + VOTING_PERIOD
              /\ proposals'[i].executed => Passed(proposals'[i])
  BY <1>1, <1>3, <1>4, <1>5 DEF GovernanceInv
<1> QED BY <1>3, <1>5, <1>7, <1>8, <1>10, <1>11 DEF GovernanceInv, Passed

\* Execute and cancel only set a flag.
LEMMA FlagInv ==
    ASSUME GovernanceInv, NEW id \in 1..ProposalCount, NEW q \in Proposal,
           proposals' = [proposals EXCEPT ![id] = q], UNCHANGED <<ballots, now>>,
           q.start_ledger = proposals[id].start_ledger,
           q.end_ledger = proposals[id].end_ledger,
           q.for_votes = proposals[id].for_votes,
           q.against_votes = proposals[id].against_votes,
           q.executed => Passed(q)
    PROVE  GovernanceInv'
<1>1. /\ proposals \in Seq(Proposal) /\ ballots \subseteq Ballot /\ now \in Nat
      /\ id \in 1..Len(proposals)
  BY DEF GovernanceInv, GovernanceTypeOK, ProposalCount
<1>2. /\ proposals' \in Seq(Proposal) /\ Len(proposals') = Len(proposals)
      /\ \A i \in 1..Len(proposals) : proposals'[i] = IF i = id THEN q ELSE proposals[i]
  BY <1>1, Replaced
<1>3. GovernanceTypeOK'
  BY <1>1, <1>2 DEF GovernanceInv, GovernanceTypeOK, GetProposal, ProposalCount
<1>4. TallyCountsBallots'
  <2>1. \A i \in 1..Len(proposals) :
           /\ proposals'[i].for_votes = proposals[i].for_votes
           /\ proposals'[i].against_votes = proposals[i].against_votes
    BY <1>1, <1>2
  <2>2. \A i \in 1..Len(proposals) :
           /\ proposals[i].for_votes = BallotsFor(i)
           /\ proposals[i].against_votes = BallotsAgainst(i)
    BY DEF GovernanceInv, TallyCountsBallots, GetProposal, ProposalCount
  <2>3. /\ \A b, c \in ballots' : b.id = c.id /\ b.voter = c.voter => b = c
        /\ \A i : BallotsFor(i)' = BallotsFor(i) /\ BallotsAgainst(i)' = BallotsAgainst(i)
    BY DEF GovernanceInv, TallyCountsBallots, BallotsFor, BallotsAgainst
  <2> QED BY <1>2, <2>1, <2>2, <2>3 DEF TallyCountsBallots, GetProposal, ProposalCount
<1>5. ASSUME NEW i \in 1..Len(proposals)
      PROVE  /\ proposals'[i].end_ledger = proposals'[i].start_ledger + VOTING_PERIOD
             /\ proposals'[i].executed => Passed(proposals'[i])
  BY <1>1, <1>2 DEF GovernanceInv
<1> QED BY <1>2, <1>3, <1>4, <1>5 DEF GovernanceInv, Passed

LEMMA ExecuteInv ==
    ASSUME GovernanceInv, NEW id \in 1..ProposalCount, Execute(id), UNCHANGED now
    PROVE  GovernanceInv'
<1> DEFINE p == proposals[id]
           q == [p EXCEPT !.executed = TRUE]
<1>1. p \in Proposal
  BY DEF GovernanceInv, GovernanceTypeOK, ProposalCount
<1>2. /\ proposals' = [proposals EXCEPT ![id] = q] /\ UNCHANGED <<ballots, now>>
      /\ ~p.cancelled /\ now > p.end_ledger
      /\ p.for_votes > Quorum(p) /\ p.for_votes > p.against_votes
  BY DEF Execute, GetProposal
<1>3. /\ q \in Proposal
      /\ q.start_ledger = p.start_ledger /\ q.end_ledger = p.end_ledger
      /\ q.for_votes = p.for_votes /\ q.against_votes = p.against_votes
      /\ q.cancelled = p.cancelled
  BY <1>1 DEF Proposal
<1>4. Passed(q)
  BY <1>2, <1>3 DEF Passed, Quorum
<1> HIDE DEF q
<1> QED BY <1>2, <1>3, <1>4, FlagInv

LEMMA CancelInv ==
    ASSUME GovernanceInv, NEW id \in 1..ProposalCount, NEW caller \in Accounts,
           Cancel(caller, id), UNCHANGED now
    PROVE  GovernanceInv'
<1> DEFINE p == proposals[id]
           q == [p EXCEPT !.cancelled = TRUE]
<1>1. p \in Proposal
  BY DEF GovernanceInv, GovernanceTypeOK, ProposalCount
<1>2. /\ proposals' = [proposals EXCEPT ![id] = q] /\ UNCHANGED <<ballots, now>>
      /\ ~p.executed
  BY DEF Cancel, GetProposal
<1>3. /\ q \in Proposal
      /\ q.start_ledger = p.start_ledger /\ q.end_ledger = p.end_ledger
      /\ q.for_votes = p.for_votes /\ q.against_votes = p.against_votes
      /\ q.executed = p.executed
  BY <1>1 DEF Proposal
<1> HIDE DEF q
<1> QED BY <1>2, <1>3, FlagInv

LEMMA LedgerInv ==
    ASSUME GovernanceInv, CloseLedger
    PROVE  GovernanceInv'
<1>1. /\ proposals \in Seq(Proposal) /\ now \in Nat /\ now' = now + 1
      /\ UNCHANGED <<proposals, ballots>>
  BY DEF GovernanceInv, GovernanceTypeOK, CloseLedger, storage
<1>2. GovernanceTypeOK'
  <2>1. \A id \in 1..Len(proposals) :
           proposals[id].start_ledger \in Nat /\ proposals[id].start_ledger <= now
    <3>1. \A id \in 1..Len(proposals) : proposals[id] \in Proposal
      BY <1>1
    <3> QED BY <3>1 DEF GovernanceInv, GovernanceTypeOK, GetProposal, ProposalCount, Proposal
  <2>2. \A id \in 1..Len(proposals) : proposals[id].start_ledger <= now'
    BY <1>1, <2>1
  <2> QED BY <1>1, <2>2 DEF GovernanceInv, GovernanceTypeOK, GetProposal, ProposalCount
<1>3. \A id \in 1..Len(proposals) : Passed(proposals[id]) => Passed(proposals[id])'
  <2> TAKE id \in 1..Len(proposals)
  <2>1. proposals[id].end_ledger \in Nat
    <3>1. proposals[id] \in Proposal
      BY <1>1
    <3> QED BY <3>1 DEF Proposal
  <2>2. now > proposals[id].end_ledger => now' > proposals[id].end_ledger
    BY <1>1, <2>1
  <2> QED BY <1>1, <2>2 DEF Passed, Quorum
<1> QED BY <1>1, <1>2, <1>3
        DEF GovernanceInv, TallyCountsBallots, BallotsFor, BallotsAgainst, GetProposal, ProposalCount

LEMMA NextInv == GovernanceInv /\ [Next]_vars => GovernanceInv'
<1> SUFFICES ASSUME GovernanceInv, [Next]_vars PROVE GovernanceInv'
  OBVIOUS
<1>1. CASE UNCHANGED vars
  BY <1>1 DEF vars, storage, GovernanceInv, GovernanceTypeOK, TallyCountsBallots,
              BallotsFor, BallotsAgainst, GetProposal, ProposalCount, Passed
<1>2. CASE CloseLedger
  BY <1>2, LedgerInv
<1>3. CASE Call /\ UNCHANGED now
  BY <1>3, ProposeInv, VoteInv, ExecuteInv, CancelInv DEF Call
<1> QED BY <1>1, <1>2, <1>3 DEF Next

LEMMA SpecInv == Spec => []GovernanceInv
BY InitInv, NextInv, PTL DEF Spec

----------------------------------------------------------------------------
\* The theorems about governance.

\* Proposals and ballots keep their types, and every ballot its proposal.
THEOREM GovernanceTypes == Spec => []GovernanceTypeOK
<1>1. GovernanceInv => GovernanceTypeOK
  BY DEF GovernanceInv
<1> QED BY <1>1, SpecInv, PTL

\* The tallies count the stored ballots, one for an account, whatever the
\* number of accounts and proposals.
THEOREM TalliesAreBallots == Spec => []TallyCountsBallots
<1>1. GovernanceInv => TallyCountsBallots
  BY DEF GovernanceInv
<1> QED BY <1>1, SpecInv, PTL

\* Comparing with the rounded quorum is comparing with the exact one.
LEMMA QuorumIsExact ==
    ASSUME NEW yes \in Nat, NEW no \in Nat,
           yes > ((yes + no) * QUORUM_BPS) \div 10000
    PROVE  10000 * yes > QUORUM_BPS * (yes + no)
<1> DEFINE product == (yes + no) * QUORUM_BPS
<1>1. product \in Nat /\ QUORUM_BPS * (yes + no) = product
  BY GovernanceAssumption
<1> HIDE DEF product
<1>2. yes > product \div 10000
  BY DEF product
<1> QED BY <1>1, <1>2

\* An executed proposal had its whole period, its quorum and its majority.
THEOREM ExecutionHadMajority == Spec => []ExecutedByMajority
<1>1. GovernanceInv => ExecutedByMajority
  <2> SUFFICES ASSUME GovernanceInv, NEW id \in 1..ProposalCount,
                      proposals[id].executed
               PROVE  /\ ~proposals[id].cancelled
                      /\ now > proposals[id].start_ledger + VOTING_PERIOD
                      /\ BallotsFor(id)
                           > BallotsAgainst(id)
                      /\ 10000 * BallotsFor(id)
                           > QUORUM_BPS * (BallotsFor(id)
                                             + BallotsAgainst(id))
    BY DEF ExecutedByMajority, GetProposal
  <2>1. /\ proposals[id] \in Proposal
        /\ proposals[id].for_votes \in Nat /\ proposals[id].against_votes \in Nat
    <3>1. proposals[id] \in Proposal
      BY DEF GovernanceInv, GovernanceTypeOK, ProposalCount
    <3> QED BY <3>1 DEF Proposal
  <2>2. PICK yes \in Nat, no \in Nat :
           /\ proposals[id].for_votes = yes /\ BallotsFor(id) = yes
           /\ proposals[id].against_votes = no /\ BallotsAgainst(id) = no
    BY <2>1 DEF GovernanceInv, TallyCountsBallots, ProposalCount, GetProposal
  <2>3. /\ proposals[id].end_ledger = proposals[id].start_ledger + VOTING_PERIOD
        /\ Passed(proposals[id])
    BY DEF GovernanceInv, ProposalCount
  <2>4. yes > no /\ yes > ((yes + no) * QUORUM_BPS) \div 10000
    BY <2>2, <2>3 DEF Passed, Quorum
  <2>5. 10000 * yes > QUORUM_BPS * (yes + no)
    BY <2>4, QuorumIsExact
  <2>6. now > proposals[id].start_ledger + VOTING_PERIOD /\ ~proposals[id].cancelled
    BY <2>3 DEF Passed
  <2> QED BY <2>2, <2>4, <2>5, <2>6
<1> QED BY <1>1, SpecInv, PTL

\* No step changes a tally after the period or a proposal after its outcome.
THEOREM VerdictsAreFinal == Spec => VerdictIsFinal
<1> DEFINE Final(id) ==
             /\ now > proposals[id].end_ledger =>
                   /\ proposals'[id].for_votes = proposals[id].for_votes
                   /\ proposals'[id].against_votes = proposals[id].against_votes
             /\ proposals[id].executed \/ proposals[id].cancelled =>
                   proposals'[id] = proposals[id]
<1>1. ASSUME GovernanceInv, [Next]_vars, NEW id \in 1..Len(proposals)
      PROVE  Final(id)
  <2>1. proposals \in Seq(Proposal) /\ proposals[id] \in Proposal /\ now \in Nat
    BY <1>1 DEF GovernanceInv, GovernanceTypeOK
  <2>2. CASE UNCHANGED proposals
    BY <2>2
  <2>3. ASSUME NEW proposer \in Accounts, Propose(proposer)
        PROVE  Final(id)
    <3>1. proposals'[id] = proposals[id]
      BY <2>1, <2>3 DEF Propose
    <3> QED BY <3>1
  <2>4. ASSUME NEW i \in 1..Len(proposals), NEW voter \in Accounts, NEW way \in BOOLEAN,
               Vote(voter, i, way)
        PROVE  Final(id)
    <3>1. CASE i = id
      BY <2>1, <2>4, <3>1 DEF Vote, GetProposal, Proposal
    <3>2. CASE i # id
      <4>1. proposals'[id] = proposals[id]
        BY <2>1, <2>4, <3>2 DEF Vote, Cast
      <4> QED BY <4>1
    <3> QED BY <3>1, <3>2
  <2>5. ASSUME NEW i \in 1..Len(proposals), Execute(i)
        PROVE  Final(id)
    <3>1. CASE i = id
      <4>1. /\ ~proposals[id].executed /\ ~proposals[id].cancelled
            /\ proposals'[id] = [proposals[id] EXCEPT !.executed = TRUE]
        <5> DEFINE q == [proposals[id] EXCEPT !.executed = TRUE]
        <5>1. ~proposals[id].executed /\ proposals' = [proposals EXCEPT ![id] = q]
          BY <2>5, <3>1 DEF Execute, GetProposal
        <5>2. ~proposals[id].cancelled
          BY <2>5, <3>1 DEF Execute, GetProposal
        <5>3. proposals'[id] = q
          <6> HIDE DEF q
          <6> QED BY <2>1, <5>1
        <5> QED BY <5>1, <5>2, <5>3
      <4> QED BY <2>1, <4>1 DEF Proposal
    <3>2. CASE i # id
      <4>1. proposals'[id] = proposals[id]
        BY <2>1, <2>5, <3>2 DEF Execute
      <4> QED BY <4>1
    <3> QED BY <3>1, <3>2
  <2>6. ASSUME NEW i \in 1..Len(proposals), NEW caller \in Accounts, Cancel(caller, i)
        PROVE  Final(id)
    <3>1. CASE i = id
      <4>1. /\ ~proposals[id].executed
            /\ proposals'[id] = [proposals[id] EXCEPT !.cancelled = TRUE]
        <5> DEFINE q == [proposals[id] EXCEPT !.cancelled = TRUE]
        <5>1. ~proposals[id].executed /\ proposals' = [proposals EXCEPT ![id] = q]
          BY <2>6, <3>1 DEF Cancel, GetProposal
        <5>2. TRUE
          BY <2>6, <3>1 DEF Cancel, GetProposal
        <5>3. proposals'[id] = q
          <6> HIDE DEF q
          <6> QED BY <2>1, <5>1
        <5> QED BY <5>1, <5>2, <5>3
      <4>2. proposals[id].cancelled => proposals'[id] = proposals[id]
        BY <2>1, <4>1 DEF Proposal
      <4> QED BY <2>1, <4>1, <4>2 DEF Proposal
    <3>2. CASE i # id
      <4>1. proposals'[id] = proposals[id]
        BY <2>1, <2>6, <3>2 DEF Cancel
      <4> QED BY <4>1
    <3> QED BY <3>1, <3>2
  <2> QED BY <1>1, <2>2, <2>3, <2>4, <2>5, <2>6
          DEF Next, Call, CloseLedger, vars, storage, ProposalCount
<1>2. GovernanceInv /\ [Next]_vars =>
        [\A id \in 1..ProposalCount :
           LET p == GetProposal(id)
               q == GetProposal(id)'
           IN  /\ now > p.end_ledger =>
                     q.for_votes = p.for_votes /\ q.against_votes = p.against_votes
               /\ p.executed \/ p.cancelled => q = p]_vars
  BY <1>1 DEF ProposalCount, GetProposal
<1> QED BY <1>2, SpecInv, PTL DEF Spec, VerdictIsFinal

----------------------------------------------------------------------------
\* What a recursion on 1..n computes.  st[k] is the step from k - 1 to k, on V.

Iterates(g, n, V, b, st) ==
    /\ g \in [0..n -> V]
    /\ g[0] = b
    /\ \A k \in 1..n : g[k] = st[k][g[k - 1]]

LEMMA IterationExists ==
    ASSUME NEW n \in Nat, NEW V, NEW b \in V, NEW st \in [1..n -> [V -> V]]
    PROVE  \E g : Iterates(g, n, V, b, st)
<1> DEFINE Upto(g, m) == /\ g \in [0..m -> V]
                         /\ g[0] = b
                         /\ \A k \in 1..m : g[k] = st[k][g[k - 1]]
           P == {m \in 0..n : \E g : Upto(g, m)}
<1>1. 0 \in P
  <2> DEFINE z == [i \in 0..0 |-> b]
  <2>1. z \in [0..0 -> V] /\ z[0] = b /\ \A k \in 1..0 : z[k] = st[k][z[k - 1]]
    OBVIOUS
  <2>2. \E g : Upto(g, 0)
    <3> HIDE DEF z
    <3> QED BY <2>1
  <2> QED BY <2>2
<1>2. ASSUME NEW m \in 0..(n - 1), m \in P
      PROVE  m + 1 \in P
  <2>1. PICK g : Upto(g, m)
    BY <1>2
  <2> DEFINE v == st[m + 1][g[m]]
             h == [i \in 0..(m + 1) |-> IF i = m + 1 THEN v ELSE g[i]]
  <2>2. m \in Nat /\ m + 1 \in 0..n /\ m + 1 \in 1..n /\ m \in 0..m
    OBVIOUS
  <2>3. v \in V
    BY <2>1, <2>2
  <2>4. h \in [0..(m + 1) -> V] /\ h[0] = b
    <3> HIDE DEF v
    <3> QED BY <2>1, <2>2, <2>3
  <2>5. ASSUME NEW k \in 1..(m + 1)
        PROVE  h[k] = st[k][h[k - 1]]
    <3>1. CASE k = m + 1
      <4>1. k - 1 = m /\ m # m + 1 /\ k \in 0..(m + 1) /\ m \in 0..(m + 1)
        BY <2>2, <3>1
      <4>2. h[k] = v /\ h[k - 1] = g[m]
        <5> HIDE DEF v
        <5> QED BY <3>1, <4>1
      <4> QED BY <3>1, <4>2
    <3>2. CASE k \in 1..m
      <4>1. /\ k \in 0..(m + 1) /\ k - 1 \in 0..(m + 1)
            /\ k # m + 1 /\ k - 1 # m + 1
        BY <2>2, <3>2
      <4>2. h[k] = g[k] /\ h[k - 1] = g[k - 1]
        BY <4>1
      <4> QED BY <2>1, <3>2, <4>2
    <3> QED BY <2>2, <3>1, <3>2
  <2>6. \E f : Upto(f, m + 1)
    <3> HIDE DEF h
    <3> QED BY <2>4, <2>5
  <2> QED BY <2>2, <2>6
<1>3. n \in P
  <2>1. n \in 0..n
    OBVIOUS
  <2> HIDE DEF P
  <2> QED BY <1>1, <1>2, <2>1, InductionTo
<1> QED BY <1>3 DEF Iterates

LEMMA IterationIsUnique ==
    ASSUME NEW n \in Nat, NEW V, NEW b, NEW st, NEW g, Iterates(g, n, V, b, st),
           NEW h, h[0] = b,
           \A k \in 1..n : h[k - 1] \in V => h[k] = st[k][h[k - 1]]
    PROVE  \A k \in 0..n : h[k] = g[k]
<1> DEFINE P == {k \in 0..n : h[k] = g[k]}
<1>1. 0 \in P
  BY DEF Iterates
<1>2. ASSUME NEW k \in 0..(n - 1), k \in P
      PROVE  k + 1 \in P
  <2>1. k + 1 \in 1..n /\ k + 1 \in 0..n /\ (k + 1) - 1 = k
    OBVIOUS
  <2>2. h[k] = g[k] /\ g[k] \in V
    BY <1>2 DEF Iterates
  <2>3. h[k + 1] = st[k + 1][h[k]] /\ g[k + 1] = st[k + 1][g[k]]
    BY <2>1, <2>2 DEF Iterates
  <2> QED BY <2>1, <2>2, <2>3
<1>3. \A k \in 0..n : k \in P
  <2> HIDE DEF P
  <2> QED BY <1>1, <1>2, InductionTo
<1> QED BY <1>3

----------------------------------------------------------------------------
\* The sort of the oracle.

Reports(n) == [1..n -> Int]

LEMMA ReportsAreLists ==
    ASSUME NEW n \in Nat, NEW s \in Reports(n)
    PROVE  s \in Seq(Int) /\ Len(s) = n /\ DOMAIN s = 1..n
BY DEF Reports

\* The two entries are in order, and none else was touched.
InOrder(t, s, i, j, n) ==
    /\ t \in Reports(n)
    /\ t[i] <= t[j]
    /\ \/ t = s /\ s[i] <= s[j]
       \/ s[j] < s[i] /\ t[i] = s[j] /\ t[j] = s[i]
    /\ \A k \in 1..n : k # i /\ k # j => t[k] = s[k]

LEMMA Exchanged ==
    ASSUME NEW n \in Nat, NEW s \in Reports(n), NEW i \in 1..n, NEW j \in 1..n, i # j,
           NEW t, t = Exchange(s, i, j)
    PROVE  InOrder(t, s, i, j, n)
<1>1. s[i] \in Int /\ s[j] \in Int
  BY DEF Reports
<1>2. CASE s[i] > s[j]
  <2>1. t = [s EXCEPT ![i] = s[j], ![j] = s[i]]
    BY <1>2 DEF Exchange
  <2> QED BY <1>1, <1>2, <2>1 DEF Reports, InOrder
<1>3. CASE ~ (s[i] > s[j])
  <2>1. t = s
    BY <1>3 DEF Exchange
  <2> QED BY <1>1, <1>3, <2>1 DEF InOrder
<1> QED BY <1>2, <1>3

\* A pass exchanges its entry with each later one in turn.
PassRuns(g, s, i, n) ==
    /\ g \in [0..(n - i) -> Reports(n)]
    /\ g[0] = s
    /\ \A k \in 1..(n - i) : g[k] = Exchange(g[k - 1], i, i + k)
    /\ Pass(s, i) = g[n - i]

LEMMA PassUnwinds ==
    ASSUME NEW n \in Nat, NEW s \in Reports(n), NEW i \in 1..n
    PROVE  \E g : PassRuns(g, s, i, n)
<1> DEFINE m == n - i
           V == Reports(n)
           st == [k \in 1..m |-> [t \in V |-> Exchange(t, i, i + k)]]
           Step(h) == [k \in 0..(Len(s) - i) |->
                          IF k = 0 THEN s ELSE Exchange(h[k - 1], i, i + k)]
           upTo == CHOOSE h : h = Step(h)
<1>1. m \in Nat /\ Len(s) - i = m /\ \A k \in 1..m : i + k \in 1..n /\ i + k # i
  BY ReportsAreLists
<1>2. st \in [1..m -> [V -> V]]
  BY <1>1, Exchanged DEF InOrder
<1>3. PICK g : Iterates(g, m, V, s, st)
  <2> HIDE DEF st, m, V
  <2>1. s \in V
    BY DEF V
  <2> QED BY <1>1, <1>2, <2>1, IterationExists
<1>4. \A k \in 1..m : k - 1 \in 0..m /\ g[k - 1] \in V /\ g[k] = Exchange(g[k - 1], i, i + k)
  <2>1. \A k \in 1..m : k - 1 \in 0..m
    BY <1>1
  <2>2. \A k \in 1..m : g[k - 1] \in V
    BY <1>3, <2>1 DEF Iterates
  <2>3. \A k \in 1..m : \A t \in V : st[k][t] = Exchange(t, i, i + k)
    OBVIOUS
  <2> HIDE DEF st, V, m
  <2> QED BY <1>3, <2>1, <2>2, <2>3 DEF Iterates
<1>5. g = Step(g)
  <2>1. \A k \in 0..m : k = 0 \/ k \in 1..m
    BY <1>1
  <2>2. g = [k \in 0..m |-> g[k]] /\ g[0] = s
    BY <1>3 DEF Iterates
  <2> HIDE DEF m
  <2> QED BY <1>1, <1>4, <2>1, <2>2
<1>6. upTo = Step(upTo)
  <2> HIDE DEF Step
  <2> QED BY <1>5
<1>7. Pass(s, i) = upTo[m]
  BY <1>1 DEF Pass
<1>8. \A k \in 0..m : upTo[k] = IF k = 0 THEN s ELSE Exchange(upTo[k - 1], i, i + k)
  <2> HIDE DEF upTo, m
  <2> QED BY <1>1, <1>6
<1> HIDE DEF upTo
<1>9. \A k \in 0..m : upTo[k] = g[k]
  <2>1. upTo[0] = s
    BY <1>1, <1>8
  <2>2. \A k \in 1..m : upTo[k - 1] \in V => upTo[k] = st[k][upTo[k - 1]]
    <3>1. \A k \in 1..m : k \in 0..m /\ k # 0
      BY <1>1
    <3> QED BY <1>8, <3>1
  <2> HIDE DEF st, V, m
  <2> QED BY <1>1, <1>3, <2>1, <2>2, IterationIsUnique
<1>10. Pass(s, i) = g[m]
  <2>1. m \in 0..m
    BY <1>1
  <2> QED BY <1>7, <1>9, <2>1
<1> QED BY <1>3, <1>4, <1>10 DEF PassRuns, Iterates

\* The first i entries are in their places.
InPlace(t, i, n) == \A a \in 1..i, b \in 1..n : a < b => t[a] <= t[b]

\* The entries below x; two lists with as many for every x hold the same reports.
Below(s, x, n) == {k \in 1..n : s[k] < x}

SameReports(t, s, n) ==
    \A x \in Int : Cardinality(Below(t, x, n)) = Cardinality(Below(s, x, n))

LEMMA BelowIsFinite ==
    ASSUME NEW n \in Nat, NEW s, NEW x
    PROVE  IsFiniteSet(Below(s, x, n)) /\ Cardinality(Below(s, x, n)) \in 0..n
<1>1. IsFiniteSet(1..n) /\ Cardinality(1..n) = n
  BY FS_Interval
<1>2. Below(s, x, n) \in SUBSET (1..n)
  BY DEF Below
<1>3. /\ IsFiniteSet(Below(s, x, n)) /\ Cardinality(Below(s, x, n)) <= n
      /\ Cardinality(Below(s, x, n)) \in Nat
  BY <1>1, <1>2, FS_Subset, FS_CardinalityType
<1> QED BY <1>3

LEMMA ExchangeKeepsReports ==
    ASSUME NEW n \in Nat, NEW s \in Reports(n), NEW i \in 1..n, NEW j \in 1..n, i # j,
           NEW t, t = Exchange(s, i, j)
    PROVE  SameReports(t, s, n)
<1> SUFFICES ASSUME NEW x \in Int
             PROVE  Cardinality(Below(t, x, n)) = Cardinality(Below(s, x, n))
  BY DEF SameReports
<1>1. /\ t \in Reports(n)
      /\ \/ t = s /\ s[i] <= s[j]
         \/ s[j] < s[i] /\ t[i] = s[j] /\ t[j] = s[i]
      /\ \A k \in 1..n : k # i /\ k # j => t[k] = s[k]
  <2>1. InOrder(t, s, i, j, n)
    BY Exchanged
  <2> QED BY <2>1 DEF InOrder
<1>2. s[i] \in Int /\ s[j] \in Int
  BY DEF Reports
<1>3. CASE s[j] < x /\ ~ (s[i] < x) /\ t # s
  <2>1. t[i] = s[j] /\ t[j] = s[i] /\ i # j
    BY <1>1, <1>3
  <2> DEFINE rest == Below(s, x, n) \ {j}
  <2>2. /\ j \in Below(s, x, n) /\ i \notin rest
        /\ Below(t, x, n) = rest \cup {i}
    BY <1>1, <1>3, <2>1 DEF Below
  <2>3. IsFiniteSet(Below(s, x, n)) /\ Cardinality(Below(s, x, n)) \in Nat
    BY BelowIsFinite
  <2>4. IsFiniteSet(rest) /\ Cardinality(rest) = Cardinality(Below(s, x, n)) - 1
    BY <2>2, <2>3, FS_RemoveElement
  <2>5. Cardinality(rest \cup {i}) = Cardinality(rest) + 1
    <3> HIDE DEF rest
    <3> QED BY <2>2, <2>4, FS_AddElement
  <2> HIDE DEF rest
  <2> QED BY <2>2, <2>3, <2>4, <2>5
<1>4. CASE ~ (s[j] < x /\ ~ (s[i] < x) /\ t # s)
  <2>1. \A k \in 1..n : t[k] < x <=> s[k] < x
    BY <1>1, <1>2, <1>4
  <2>2. Below(t, x, n) = Below(s, x, n)
    BY <2>1 DEF Below
  <2> QED BY <2>2
<1> QED BY <1>3, <1>4

\* A pass puts the smallest of what is left into its place, and keeps the reports.
LEMMA PassPutsInPlace ==
    ASSUME NEW n \in Nat, NEW s \in Reports(n), NEW i \in 1..n, InPlace(s, i - 1, n)
    PROVE  /\ Pass(s, i) \in Reports(n)
           /\ InPlace(Pass(s, i), i, n)
           /\ SameReports(Pass(s, i), s, n)
<1>1. PICK g : PassRuns(g, s, i, n)
  BY PassUnwinds
<1> DEFINE m == n - i
           Least(t, k) == \A b \in (i + 1)..(i + k) : t[i] <= t[b]
           P == {k \in 0..m : /\ InPlace(g[k], i - 1, n)
                              /\ Least(g[k], k)
                              /\ SameReports(g[k], s, n)}
<1>2. m \in Nat /\ \A k \in 0..m : g[k] \in Reports(n)
  BY <1>1 DEF PassRuns
<1>3. 0 \in P
  <2>1. g[0] = s
    BY <1>1 DEF PassRuns
  <2>2. Least(s, 0)
    OBVIOUS
  <2>3. SameReports(s, s, n)
    BY DEF SameReports
  <2> QED BY <1>2, <2>1, <2>2, <2>3
<1>4. ASSUME NEW k \in 0..(m - 1), k \in P
      PROVE  k + 1 \in P
  <2> DEFINE j == i + (k + 1)
             u == g[k + 1]
             t == g[k]
  <2>1. k + 1 \in 1..m /\ k + 1 \in 0..m /\ (k + 1) - 1 = k /\ j \in 1..n /\ i < j
    BY <1>2
  <2>2. t \in Reports(n) /\ u = Exchange(t, i, j)
    BY <1>1, <1>2, <2>1 DEF PassRuns
  <2>3. /\ u \in Reports(n)
        /\ u[i] <= u[j]
        /\ \/ u = t /\ t[i] <= t[j]
           \/ t[j] < t[i] /\ u[i] = t[j] /\ u[j] = t[i]
        /\ \A b \in 1..n : b # i /\ b # j => u[b] = t[b]
        /\ SameReports(u, t, n)
    <3> HIDE DEF u, t, j
    <3> QED BY <2>1, <2>2, Exchanged, ExchangeKeepsReports DEF InOrder
  <2>4. InPlace(t, i - 1, n) /\ Least(t, k) /\ SameReports(t, s, n)
    BY <1>4
  <2>5. \A b \in 1..n : t[b] \in Int /\ u[b] \in Int
    BY <2>2, <2>3 DEF Reports
  <2>6. InPlace(u, i - 1, n)
    <3> SUFFICES ASSUME NEW a \in 1..(i - 1), NEW b \in 1..n, a < b
                 PROVE  u[a] <= u[b]
      BY DEF InPlace
    <3>1. a \in 1..n /\ a # i /\ a # j /\ a < i /\ a < j
      BY <2>1
    <3>2. t[a] <= t[b] /\ t[a] <= t[i] /\ t[a] <= t[j]
      BY <2>1, <2>4, <3>1 DEF InPlace
    <3>3. u[a] = t[a]
      BY <2>3, <3>1
    <3> HIDE DEF u, t, j
    <3> QED BY <2>3, <3>2, <3>3
  <2>7. Least(u, k + 1)
    <3> SUFFICES ASSUME NEW b \in (i + 1)..(i + (k + 1))
                 PROVE  u[i] <= u[b]
      OBVIOUS
    <3>1. b = j \/ b \in (i + 1)..(i + k)
      BY <2>1
    <3>2. CASE b = j
      BY <2>3, <3>2
    <3>3. CASE b \in (i + 1)..(i + k)
      <4>1. b \in 1..n /\ b # i /\ b # j /\ t[i] <= t[b]
        BY <2>1, <2>4, <3>3
      <4>2. u[b] = t[b]
        BY <2>3, <4>1
      <4> HIDE DEF u, t, j
      <4> QED BY <2>1, <2>3, <2>5, <4>1, <4>2
    <3> QED BY <3>1, <3>2, <3>3
  <2>8. SameReports(u, s, n)
    BY <2>3, <2>4 DEF SameReports
  <2> QED BY <2>1, <2>6, <2>7, <2>8
<1>5. m \in P
  <2>1. m \in 0..m
    BY <1>2
  <2> HIDE DEF P
  <2> QED BY <1>2, <1>3, <1>4, <2>1, InductionTo
<1>6. Pass(s, i) = g[m]
  BY <1>1 DEF PassRuns
<1>7. InPlace(g[m], i, n)
  <2> SUFFICES ASSUME NEW a \in 1..i, NEW b \in 1..n, a < b
               PROVE  g[m][a] <= g[m][b]
    BY DEF InPlace
  <2>1. CASE a = i
    <3>1. b \in (i + 1)..(i + m)
      BY <2>1
    <3> QED BY <1>5, <2>1, <3>1
  <2>2. CASE a \in 1..(i - 1)
    BY <1>5, <2>2 DEF InPlace
  <2> QED BY <2>1, <2>2
<1> QED BY <1>2, <1>5, <1>6, <1>7

\* The passes one after another sort.
LEMMA SortPutsInPlace ==
    ASSUME NEW n \in Nat, NEW s \in Reports(n)
    PROVE  /\ ExchangeSort(s) \in Reports(n)
           /\ InPlace(ExchangeSort(s), n, n)
           /\ SameReports(ExchangeSort(s), s, n)
<1> DEFINE V == Reports(n)
           \* Outside of the lists a pass is used on, any list will do.
           Safe(t, i) == IF Pass(t, i) \in V THEN Pass(t, i) ELSE t
           st == [i \in 1..n |-> [t \in V |-> Safe(t, i)]]
           Step(h) == [i \in 0..Len(s) |-> IF i = 0 THEN s ELSE Pass(h[i - 1], i)]
           after == CHOOSE h : h = Step(h)
<1>1. Len(s) = n
  BY ReportsAreLists
<1>2. st \in [1..n -> [V -> V]]
  OBVIOUS
<1>3. PICK g : Iterates(g, n, V, s, st)
  <2> HIDE DEF st, V
  <2>1. s \in V
    BY DEF V
  <2> QED BY <1>2, <2>1, IterationExists
<1> DEFINE Q == {i \in 0..n : /\ InPlace(g[i], i, n)
                              /\ SameReports(g[i], s, n)
                              /\ i # 0 => g[i] = Pass(g[i - 1], i)}
<1>4. \A i \in 0..n : g[i] \in V
  <2> HIDE DEF V
  <2> QED BY <1>3 DEF Iterates
<1>5. 0 \in Q
  <2>1. g[0] = s
    BY <1>3 DEF Iterates
  <2>2. InPlace(s, 0, n) /\ SameReports(s, s, n)
    BY DEF InPlace, SameReports
  <2> QED BY <2>1, <2>2
<1>6. ASSUME NEW i \in 0..(n - 1), i \in Q
      PROVE  i + 1 \in Q
  <2>1. i + 1 \in 1..n /\ i + 1 \in 0..n /\ (i + 1) - 1 = i
    OBVIOUS
  <2>2. g[i] \in Reports(n) /\ InPlace(g[i], i, n) /\ SameReports(g[i], s, n)
    BY <1>4, <1>6
  <2>3. /\ Pass(g[i], i + 1) \in Reports(n)
        /\ InPlace(Pass(g[i], i + 1), i + 1, n)
        /\ SameReports(Pass(g[i], i + 1), g[i], n)
    BY <2>1, <2>2, PassPutsInPlace
  <2>4. g[i + 1] = st[i + 1][g[i]]
    <3> HIDE DEF st, V
    <3> QED BY <1>3, <2>1 DEF Iterates
  <2>5. g[i + 1] = Pass(g[i], i + 1)
    BY <2>1, <2>2, <2>3, <2>4
  <2>6. SameReports(g[i + 1], s, n)
    BY <2>2, <2>3, <2>5 DEF SameReports
  <2>7. i + 1 # 0
    OBVIOUS
  <2> QED BY <2>1, <2>3, <2>5, <2>6, <2>7
<1>7. \A i \in 0..n : i \in Q
  <2> HIDE DEF Q
  <2> QED BY <1>5, <1>6, InductionTo
<1>8. g = Step(g)
  <2>1. g = [i \in 0..n |-> g[i]] /\ g[0] = s
    <3> HIDE DEF V, st
    <3> QED BY <1>3 DEF Iterates
  <2>2. \A i \in 0..n : i # 0 => g[i] = Pass(g[i - 1], i)
    BY <1>7
  <2> QED BY <1>1, <2>1, <2>2
<1>9. after = Step(after)
  <2> HIDE DEF Step
  <2> QED BY <1>8
<1>10. ExchangeSort(s) = after[n]
  BY <1>1 DEF ExchangeSort
<1>11. \A i \in 0..n : after[i] = IF i = 0 THEN s ELSE Pass(after[i - 1], i)
  <2> HIDE DEF after
  <2> QED BY <1>1, <1>9
<1> HIDE DEF after
<1>12. \A i \in 0..n : after[i] = g[i]
  <2> DEFINE R == {i \in 0..n : after[i] = g[i]}
  <2>1. 0 \in R
    BY <1>3, <1>11 DEF Iterates
  <2>2. ASSUME NEW i \in 0..(n - 1), i \in R
        PROVE  i + 1 \in R
    <3>1. i + 1 \in 0..n /\ i + 1 # 0 /\ (i + 1) - 1 = i
      OBVIOUS
    <3>2. after[i + 1] = Pass(after[i], i + 1)
      BY <1>11, <3>1
    <3>3. g[i + 1] = Pass(g[i], i + 1)
      BY <1>7, <3>1
    <3> QED BY <2>2, <3>1, <3>2, <3>3
  <2>3. \A i \in 0..n : i \in R
    <3> HIDE DEF R
    <3> QED BY <2>1, <2>2, InductionTo
  <2> QED BY <2>3
<1>13. n \in 0..n
  OBVIOUS
<1> QED BY <1>4, <1>7, <1>10, <1>12, <1>13

\* What stands in the middle of the sorted list is the median of the unsorted one.
LEMMA MiddleIsMedian ==
    ASSUME NEW n \in Nat \ {0}, NEW s \in Reports(n),
           NEW x, x = ExchangeSort(s)[(n - 1) \div 2 + 1]
    PROVE  /\ x \in Int
           /\ 2 * Cardinality(Below(s, x, n)) < n
           /\ 2 * Cardinality(Below(s, x + 1, n)) >= n
           /\ \E i \in 1..n : s[i] = x
<1> DEFINE t == ExchangeSort(s)
           mid == (n - 1) \div 2 + 1
<1>1. t \in Reports(n) /\ InPlace(t, n, n) /\ SameReports(t, s, n)
  BY SortPutsInPlace
<1>2. mid \in 1..n /\ 2 * (mid - 1) < n /\ 2 * mid >= n
  OBVIOUS
<1>3. x = t[mid] /\ \A k \in 1..n : t[k] \in Int
  BY <1>1 DEF Reports
<1> HIDE DEF t, mid
<1>4. x \in Int /\ x + 1 \in Int
  BY <1>2, <1>3
<1>5. Cardinality(Below(t, x, n)) <= mid - 1
  <2>1. Below(t, x, n) \in SUBSET (1..(mid - 1))
    <3> SUFFICES ASSUME NEW k \in 1..n, t[k] < x, ~ (k \in 1..(mid - 1))
                 PROVE  FALSE
      BY DEF Below
    <3>1. CASE k = mid
      BY <1>3, <1>4, <3>1
    <3>2. CASE mid < k
      <4>1. t[mid] <= t[k]
        BY <1>1, <1>2, <3>2 DEF InPlace
      <4> QED BY <1>3, <1>4, <4>1
    <3> QED BY <1>2, <3>1, <3>2
  <2>2. IsFiniteSet(1..(mid - 1)) /\ Cardinality(1..(mid - 1)) = mid - 1
    BY <1>2, FS_Interval
  <2> QED BY <2>1, <2>2, FS_Subset
<1>6. Cardinality(Below(t, x + 1, n)) >= mid
  <2>1. (1..mid) \in SUBSET Below(t, x + 1, n)
    <3> SUFFICES ASSUME NEW k \in 1..mid
                 PROVE  k \in Below(t, x + 1, n)
      OBVIOUS
    <3>1. k \in 1..n /\ (k = mid \/ k < mid)
      BY <1>2
    <3>2. t[k] <= x
      <4>1. CASE k < mid
        BY <1>1, <1>2, <1>3, <3>1, <4>1 DEF InPlace
      <4> QED BY <1>3, <1>4, <3>1, <4>1
    <3> QED BY <1>3, <1>4, <3>1, <3>2 DEF Below
  <2>2. Cardinality(1..mid) = mid
    BY <1>2, FS_Interval
  <2>3. IsFiniteSet(Below(t, x + 1, n)) /\ Cardinality(Below(t, x + 1, n)) \in Nat
    BY BelowIsFinite
  <2>4. Cardinality(1..mid) <= Cardinality(Below(t, x + 1, n))
    BY <2>1, <2>3, FS_Subset
  <2> QED BY <1>2, <2>2, <2>3, <2>4
<1>7. /\ Cardinality(Below(s, x, n)) = Cardinality(Below(t, x, n))
      /\ Cardinality(Below(s, x + 1, n)) = Cardinality(Below(t, x + 1, n))
  BY <1>1, <1>4 DEF SameReports
<1>8. /\ Cardinality(Below(s, x, n)) \in Nat /\ Cardinality(Below(s, x + 1, n)) \in Nat
      /\ IsFiniteSet(Below(s, x, n))
  BY BelowIsFinite
<1>9. \E i \in 1..n : s[i] = x
  <2> SUFFICES ASSUME \A i \in 1..n : s[i] # x
               PROVE  FALSE
    OBVIOUS
  <2>1. \A i \in 1..n : s[i] < x + 1 <=> s[i] < x
    BY <1>4 DEF Reports
  <2>2. Below(s, x + 1, n) = Below(s, x, n)
    BY <2>1 DEF Below
  <2> QED BY <1>2, <1>5, <1>6, <1>7, <1>8, <2>2
<1> QED BY <1>2, <1>4, <1>5, <1>6, <1>7, <1>8, <1>9

----------------------------------------------------------------------------
\* What is gathered from the list.

FreshRuns(g) ==
    /\ g \in [0..Len(list) -> Seq(Publishers)]
    /\ g[0] = <<>>
    /\ \A k \in 1..Len(list) :
          g[k] = IF HasFreshPrice(list[k]) THEN Append(g[k - 1], list[k]) ELSE g[k - 1]
    /\ FreshEntries = g[Len(list)]

LEMMA FreshUnwinds ==
    ASSUME list \in Seq(Publishers)
    PROVE  \E g : FreshRuns(g)
<1>1. PICK n \in Nat : n = Len(list) /\ \A k \in 1..n : list[k] \in Publishers
  OBVIOUS
<1> DEFINE V == Seq(Publishers)
           Taken(q, k) == IF HasFreshPrice(list[k]) THEN Append(q, list[k]) ELSE q
           st == [k \in 1..n |-> [q \in V |-> Taken(q, k)]]
           Step(h) == [k \in 0..Len(list) |->
                          IF k = 0 THEN <<>>
                          ELSE IF HasFreshPrice(list[k]) THEN Append(h[k - 1], list[k])
                          ELSE h[k - 1]]
           among == CHOOSE h : h = Step(h)
<1>2. st \in [1..n -> [V -> V]]
  <2>1. ASSUME NEW k \in 1..n, NEW q \in V
        PROVE  Taken(q, k) \in V
    BY <1>1
  <2> HIDE DEF Taken, V
  <2> QED BY <2>1
<1>3. PICK g : Iterates(g, n, V, <<>>, st)
  <2>1. <<>> \in V
    OBVIOUS
  <2> HIDE DEF st, V
  <2> QED BY <1>2, <2>1, IterationExists
<1>4. \A k \in 1..n : k - 1 \in 0..n /\ g[k - 1] \in V /\ g[k] = Taken(g[k - 1], k)
  <2>1. \A k \in 1..n : k - 1 \in 0..n
    OBVIOUS
  <2>2. \A k \in 1..n : g[k - 1] \in V
    <3> HIDE DEF V, st
    <3> QED BY <1>3, <2>1 DEF Iterates
  <2>3. \A k \in 1..n : \A q \in V : st[k][q] = Taken(q, k)
    <3> HIDE DEF Taken, V
    <3> QED OBVIOUS
  <2> HIDE DEF st, V, Taken
  <2> QED BY <1>3, <2>1, <2>2, <2>3 DEF Iterates
<1>5. g = Step(g)
  <2>1. g = [k \in 0..n |-> g[k]] /\ g[0] = <<>>
    <3> HIDE DEF V, st
    <3> QED BY <1>3 DEF Iterates
  <2>2. \A k \in 0..n : k = 0 \/ k \in 1..n
    OBVIOUS
  <2>3. \A k \in 0..n : g[k] = IF k = 0 THEN <<>>
                               ELSE IF HasFreshPrice(list[k]) THEN Append(g[k - 1], list[k])
                               ELSE g[k - 1]
    BY <1>4, <2>1, <2>2, Zenon
  <2> QED BY <1>1, <2>1, <2>3
<1>6. among = Step(among)
  <2> HIDE DEF Step
  <2> QED BY <1>5
<1>7. FreshEntries = among[n]
  BY <1>1 DEF FreshEntries
<1>8. \A k \in 0..n : among[k] = IF k = 0 THEN <<>> ELSE Taken(among[k - 1], k)
  <2>1. among = [k \in 0..n |-> IF k = 0 THEN <<>>
                                ELSE IF HasFreshPrice(list[k]) THEN Append(among[k - 1], list[k])
                                ELSE among[k - 1]]
    <3> HIDE DEF among
    <3> QED BY <1>1, <1>6
  <2> HIDE DEF among
  <2> QED BY <2>1
<1> HIDE DEF among
<1>9. \A k \in 0..n : among[k] = g[k]
  <2>1. among[0] = <<>>
    BY <1>8
  <2>2. \A k \in 1..n : among[k - 1] \in V => among[k] = st[k][among[k - 1]]
    <3>1. \A k \in 1..n : k \in 0..n /\ k # 0
      OBVIOUS
    <3> HIDE DEF Taken, V
    <3> QED BY <1>8, <3>1
  <2> HIDE DEF st, V, Taken
  <2> QED BY <1>3, <2>1, <2>2, IterationIsUnique
<1>10. FreshEntries = g[n]
  <2>1. n \in 0..n
    OBVIOUS
  <2> QED BY <1>7, <1>9, <2>1
<1>11. g \in [0..n -> V] /\ g[0] = <<>>
  <2> HIDE DEF V, st
  <2> QED BY <1>3 DEF Iterates
<1> QED BY <1>1, <1>4, <1>10, <1>11, Zenon DEF FreshRuns

LEMMA ListGrows ==
    ASSUME NEW S, NEW q \in Seq(S), NEW e \in S, NEW r, r = Append(q, e)
    PROVE  /\ Len(r) = Len(q) + 1
           /\ \A p : (\E i \in 1..Len(r) : r[i] = p) <=> (\E i \in 1..Len(q) : q[i] = p) \/ p = e
<1>1. PICK m \in Nat : m = Len(q)
  OBVIOUS
<1>2. Len(r) = m + 1 /\ (\A i \in 1..m : r[i] = q[i]) /\ r[m + 1] = e
  BY <1>1
<1>3. \A i \in 1..(m + 1) : i = m + 1 \/ i \in 1..m
  OBVIOUS
<1>4. (\A i \in 1..m : i \in 1..(m + 1)) /\ m + 1 \in 1..(m + 1)
  OBVIOUS
<1> QED BY <1>1, <1>2, <1>3, <1>4

\* The entries with a fresh price, and only they, as often as they are listed.
LEMMA FreshAreListed ==
    ASSUME list \in Seq(Publishers)
    PROVE  /\ FreshEntries \in Seq(Publishers)
           /\ \A p : (\E i \in DOMAIN FreshEntries : FreshEntries[i] = p)
                         <=> (\E i \in DOMAIN list : list[i] = p /\ HasFreshPrice(p))
           /\ Len(FreshEntries) = Cardinality({i \in DOMAIN list : HasFreshPrice(list[i])})
<1>1. PICK n \in Nat : n = Len(list) /\ DOMAIN list = 1..n /\ \A k \in 1..n : list[k] \in Publishers
  OBVIOUS
<1>2. PICK g : FreshRuns(g)
  BY FreshUnwinds
<1>3. /\ g \in [0..n -> Seq(Publishers)] /\ g[0] = <<>> /\ FreshEntries = g[n]
      /\ \A k \in 1..n :
            g[k] = IF HasFreshPrice(list[k]) THEN Append(g[k - 1], list[k]) ELSE g[k - 1]
  BY <1>1, <1>2 DEF FreshRuns
<1> DEFINE Fresh(k) == {i \in 1..k : HasFreshPrice(list[i])}
           Has(q, p) == \E i \in 1..Len(q) : q[i] = p
           P == {k \in 0..n : /\ IsFiniteSet(Fresh(k))
                              /\ Len(g[k]) = Cardinality(Fresh(k))
                              /\ \A p : Has(g[k], p) <=> \E i \in Fresh(k) : list[i] = p}
<1>4. 0 \in P
  <2>1. Fresh(0) = {} /\ Len(g[0]) = 0
    BY <1>3
  <2>2. IsFiniteSet(Fresh(0)) /\ Cardinality(Fresh(0)) = 0
    <3> HIDE DEF Fresh
    <3> QED BY <2>1, FS_EmptySet
  <2>3. \A p : ~ Has(g[0], p)
    BY <2>1
  <2> HIDE DEF Has
  <2> QED BY <2>1, <2>2, <2>3
<1>5. ASSUME NEW k \in 0..(n - 1), k \in P
      PROVE  k + 1 \in P
  <2>1. /\ k + 1 \in 1..n /\ k + 1 \in 0..n /\ (k + 1) - 1 = k /\ k \in 0..n
        /\ \A i \in 1..(k + 1) : i = k + 1 \/ i \in 1..k
        /\ \A i \in 1..k : i # k + 1 /\ i \in 1..(k + 1)
    OBVIOUS
  <2>2. /\ IsFiniteSet(Fresh(k)) /\ Len(g[k]) = Cardinality(Fresh(k))
        /\ \A p : Has(g[k], p) <=> \E i \in Fresh(k) : list[i] = p
        /\ g[k] \in Seq(Publishers)
    BY <1>3, <1>5, <2>1
  <2>3. CASE HasFreshPrice(list[k + 1])
    <3>1. Fresh(k + 1) = Fresh(k) \cup {k + 1} /\ k + 1 \notin Fresh(k)
      BY <2>1, <2>3
    <3>2. g[k + 1] = Append(g[k], list[k + 1]) /\ list[k + 1] \in Publishers
      BY <1>1, <1>3, <2>1, <2>3
    <3>3. IsFiniteSet(Fresh(k + 1)) /\ Cardinality(Fresh(k + 1)) = Cardinality(Fresh(k)) + 1
      <4> HIDE DEF Fresh
      <4> QED BY <2>2, <3>1, FS_AddElement
    <3>4. /\ Len(g[k + 1]) = Len(g[k]) + 1
          /\ \A p : Has(g[k + 1], p) <=> Has(g[k], p) \/ p = list[k + 1]
      <4>1. PICK q \in Seq(Publishers), e \in Publishers : q = g[k] /\ e = list[k + 1]
        BY <2>2, <3>2
      <4>2. PICK r : r = g[k + 1] /\ r = Append(q, e)
        BY <3>2, <4>1
      <4>3. /\ Len(r) = Len(q) + 1
            /\ \A p : (\E i \in 1..Len(r) : r[i] = p) <=> (\E i \in 1..Len(q) : q[i] = p) \/ p = e
        BY <4>2, ListGrows
      <4> QED BY <4>1, <4>2, <4>3
    <3>5. \A p : (\E i \in Fresh(k + 1) : list[i] = p)
                     <=> (\E i \in Fresh(k) : list[i] = p) \/ p = list[k + 1]
      <4> HIDE DEF Fresh
      <4> QED BY <3>1
    <3> HIDE DEF Fresh, Has
    <3> QED BY <2>1, <2>2, <3>3, <3>4, <3>5
  <2>4. CASE ~ HasFreshPrice(list[k + 1])
    <3>1. Fresh(k + 1) = Fresh(k)
      BY <2>1, <2>4
    <3>2. g[k + 1] = g[k]
      BY <1>3, <2>1, <2>4
    <3> HIDE DEF Fresh, Has
    <3> QED BY <2>1, <2>2, <3>1, <3>2
  <2> QED BY <2>3, <2>4
<1>6. n \in P
  <2>1. n \in 0..n
    OBVIOUS
  <2> HIDE DEF P
  <2> QED BY <1>4, <1>5, <2>1, InductionTo
<1>7. FreshEntries \in Seq(Publishers)
  BY <1>3
<1>8. DOMAIN FreshEntries = 1..Len(FreshEntries)
  BY <1>7
<1>9. \A p : Has(FreshEntries, p) <=> \E i \in Fresh(n) : list[i] = p
  BY <1>3, <1>6
<1>10. Len(FreshEntries) = Cardinality(Fresh(n))
  <2> HIDE DEF Fresh, Has
  <2> QED BY <1>3, <1>6
<1> QED BY <1>1, <1>7, <1>8, <1>9, <1>10

----------------------------------------------------------------------------
\* The inductive invariant of the oracle: a configuration in use was passed to
\* set_asset_config, and who has no price has no update either.

OracleInv ==
    /\ OracleTypeOK
    /\ config.heartbeat \in Heartbeats \cup {0}
    /\ config.min_publishers = 0 => config = NoConfig
    /\ ledger \in Nat /\ ledger >= FirstLedger
    /\ \A p \in Publishers : price[p] = 0 => updated[p] = 0

LEMMA OracleInitInv == OracleInit => OracleInv
<1> SUFFICES ASSUME OracleInit PROVE OracleInv
  OBVIOUS
<1>1. OracleTypeOK
  BY OracleAssumption DEF OracleInit, OracleTypeOK, NoConfig, AssetConfig
<1> QED BY <1>1, OracleAssumption DEF OracleInit, OracleInv, NoConfig

\* The least of the indices that satisfy a condition is one of them.
LEMMA LeastIndex ==
    ASSUME NEW S \in SUBSET Nat, S # {}
    PROVE  Min(S) \in S
<1>1. \E m \in S : \A k \in S : m <= k
  BY LeastNatural
<1> QED BY <1>1 DEF Min

\* The list without its entry f: the last one moved there.
Moved(r, q, f) == r = Front([q EXCEPT ![f] = Last(q)])

\* It is a list, with an entry of every other publisher.
KeepsOthers(r, q, f) ==
    /\ r \in Seq(Publishers)
    /\ \A i \in 1..Len(q) : i # f => \E j \in 1..Len(r) : r[j] = q[i]

\* Taking a publisher from the list keeps an entry of every other one.
LEMMA UnlistedKeepsOthers ==
    ASSUME NEW q \in Seq(Publishers), NEW f \in 1..Len(q),
           NEW r, Moved(r, q, f)
    PROVE  KeepsOthers(r, q, f)
<1>1. PICK n \in Nat : n = Len(q) /\ f \in 1..n /\ n \in 1..n
  OBVIOUS
<1> DEFINE t == [q EXCEPT ![f] = q[n]]
<1>2. /\ t \in Seq(Publishers) /\ Len(t) = n
      /\ \A i \in 1..n : t[i] = IF i = f THEN q[n] ELSE q[i]
  BY <1>1
<1>3. r = SubSeq(t, 1, n - 1)
  BY <1>1, <1>2 DEF Moved, Front, Last
<1> HIDE DEF t
<1>4. r \in Seq(Publishers) /\ Len(r) = n - 1 /\ \A i \in 1..(n - 1) : r[i] = t[i]
  <2>1. \A i \in 1..(n - 1) : t[i] \in Publishers /\ 1 + i - 1 = i
    BY <1>1, <1>2
  <2>2. (n - 1) - 1 + 1 = n - 1 /\ n - 1 \in Int
    BY <1>1
  <2>3. /\ SubSeq(t, 1, n - 1) \in Seq(Publishers)
        /\ Len(SubSeq(t, 1, n - 1)) = IF 1 <= n - 1 THEN (n - 1) - 1 + 1 ELSE 0
        /\ \A i \in 1..((n - 1) - 1 + 1) : SubSeq(t, 1, n - 1)[i] = t[1 + i - 1]
    BY <2>1, <2>2, SubSeqProperties
  <2>4. Len(r) = n - 1
    BY <1>1, <1>3, <2>3
  <2> QED BY <1>3, <2>1, <2>2, <2>3, <2>4
<1>5. ASSUME NEW i \in 1..n, i # f
      PROVE  \E j \in 1..(n - 1) : r[j] = q[i]
  <2>1. CASE i = n
    <3>1. f \in 1..(n - 1)
      BY <1>1, <1>5, <2>1
    <3>2. r[f] = q[i]
      BY <1>1, <1>2, <1>4, <2>1, <3>1
    <3> QED BY <3>1, <3>2
  <2>2. CASE i # n
    <3>1. i \in 1..(n - 1)
      BY <1>1, <1>5, <2>2
    <3>2. r[i] = q[i]
      BY <1>2, <1>4, <1>5, <3>1
    <3> QED BY <3>1, <3>2
  <2> QED BY <2>1, <2>2
<1> QED BY <1>1, <1>4, <1>5 DEF KeepsOthers

LEMMA AddPublisherInv ==
    ASSUME OracleInv, NEW p \in Publishers, AddPublisher(p), UNCHANGED ledger
    PROVE  OracleInv'
<1>1. /\ list \in Seq(Publishers) /\ whitelist \subseteq Publishers
      /\ \A q \in whitelist : \E i \in 1..Len(list) : list[i] = q
  BY DEF OracleInv, OracleTypeOK
<1>2. /\ list' = Append(list, p) /\ whitelist' = whitelist \cup {p}
      /\ UNCHANGED <<price, updated, config, ledger>>
  BY DEF AddPublisher
<1>3. list' \in Seq(Publishers) /\ DOMAIN list' = 1..Len(list')
  BY <1>1, <1>2
<1>4. \A q : (\E i \in 1..Len(list') : list'[i] = q)
                 <=> (\E i \in 1..Len(list) : list[i] = q) \/ q = p
  BY <1>1, <1>2, ListGrows
<1>5. \A q \in whitelist' : \E i \in DOMAIN list' : list'[i] = q
  BY <1>1, <1>2, <1>3, <1>4
<1>6. OracleTypeOK'
  BY <1>1, <1>2, <1>3, <1>5 DEF OracleInv, OracleTypeOK
<1> QED BY <1>2, <1>6 DEF OracleInv

LEMMA RemovePublisherInv ==
    ASSUME OracleInv, NEW p \in Publishers, RemovePublisher(p), UNCHANGED ledger
    PROVE  OracleInv'
<1> DEFINE at == {i \in DOMAIN list : list[i] = p}
<1>1. /\ list \in Seq(Publishers) /\ DOMAIN list = 1..Len(list)
      /\ whitelist \subseteq Publishers
      /\ \A q \in whitelist : \E i \in 1..Len(list) : list[i] = q
  BY DEF OracleInv, OracleTypeOK
<1>2. /\ list' = Unlisted(p) /\ whitelist' = whitelist \ {p}
      /\ UNCHANGED <<price, updated, config, ledger>>
  BY DEF RemovePublisher
<1>3. /\ list' \in Seq(Publishers)
      /\ \A q \in whitelist' : \E i \in 1..Len(list') : list'[i] = q
  <2>1. CASE at = {}
    <3>1. list' = list
      BY <1>2, <2>1 DEF Unlisted
    <3> QED BY <1>1, <1>2, <3>1
  <2>2. CASE at # {}
    <3>1. Min(at) \in at
      <4>1. at \in SUBSET Nat
        BY <1>1
      <4> QED BY <2>2, <4>1, LeastIndex
    <3>2. PICK f \in 1..Len(list) : f = Min(at) /\ list[f] = p
      BY <1>1, <3>1
    <3>3. list' = Front([list EXCEPT ![f] = Last(list)])
      BY <1>2, <2>2, <3>2 DEF Unlisted
    <3>4. /\ list' \in Seq(Publishers)
          /\ \A i \in 1..Len(list) : i # f => \E j \in 1..Len(list') : list'[j] = list[i]
      <4>1. PICK q \in Seq(Publishers) : q = list /\ f \in 1..Len(q)
        BY <1>1, <3>2
      <4>2. PICK r : r = list' /\ Moved(r, q, f)
        BY <3>3, <4>1 DEF Moved
      <4>3. KeepsOthers(r, q, f)
        BY <4>1, <4>2, UnlistedKeepsOthers
      <4> QED BY <4>1, <4>2, <4>3 DEF KeepsOthers
    <3>5. ASSUME NEW q \in whitelist'
          PROVE  \E i \in 1..Len(list') : list'[i] = q
      <4>1. q # p /\ q \in whitelist
        BY <1>2
      <4>2. PICK i \in 1..Len(list) : list[i] = q
        BY <1>1, <4>1
      <4> QED BY <3>2, <3>4, <4>1, <4>2
    <3> QED BY <3>4, <3>5
  <2> QED BY <2>1, <2>2
<1>4. OracleTypeOK'
  <2>1. DOMAIN list' = 1..Len(list')
    BY <1>3
  <2> QED BY <1>1, <1>2, <1>3, <2>1 DEF OracleInv, OracleTypeOK
<1> QED BY <1>2, <1>4 DEF OracleInv

LEMMA SetPriceInv ==
    ASSUME OracleInv, NEW p \in Publishers, NEW newPrice \in Prices,
           SetPrice(p, newPrice), UNCHANGED ledger
    PROVE  OracleInv'
<1>1. /\ price \in [Publishers -> Nat] /\ updated \in [Publishers -> 0..ledger]
      /\ ledger \in Nat
  BY DEF OracleInv, OracleTypeOK
<1>2. newPrice \in Nat /\ newPrice # 0
  BY OracleAssumption DEF SetPrice
<1>3. /\ price' = [price EXCEPT ![p] = newPrice]
      /\ updated' = [updated EXCEPT ![p] = ledger]
      /\ UNCHANGED <<whitelist, list, config, ledger>>
  BY DEF SetPrice
<1>4. price' \in [Publishers -> Nat] /\ updated' \in [Publishers -> 0..ledger]
  BY <1>1, <1>2, <1>3
<1>5. OracleTypeOK'
  BY <1>3, <1>4 DEF OracleInv, OracleTypeOK
<1>6. \A q \in Publishers : price'[q] = 0 => updated'[q] = 0
  BY <1>1, <1>2, <1>3 DEF OracleInv
<1> QED BY <1>3, <1>5, <1>6 DEF OracleInv

LEMMA SetAssetConfigInv ==
    ASSUME OracleInv, NEW heartbeat \in Heartbeats, NEW min_publishers \in Quorums,
           SetAssetConfig(heartbeat, min_publishers), UNCHANGED ledger
    PROVE  OracleInv'
<1>1. /\ config' = [heartbeat |-> heartbeat, min_publishers |-> min_publishers]
      /\ min_publishers >= 1 /\ UNCHANGED <<whitelist, list, price, updated, ledger>>
  BY DEF SetAssetConfig
<1>2. min_publishers \in Nat /\ heartbeat \in Nat
  BY OracleAssumption
<1>3. OracleTypeOK'
  BY <1>1, <1>2 DEF OracleInv, OracleTypeOK, AssetConfig
<1> QED BY <1>1, <1>2, <1>3 DEF OracleInv

LEMMA CloseOracleLedgerInv ==
    ASSUME OracleInv, CloseOracleLedger
    PROVE  OracleInv'
<1>1. /\ ledger' = ledger + 1 /\ ledger \in Nat /\ FirstLedger \in Nat
      /\ UNCHANGED <<whitelist, list, price, updated, config>>
  BY OracleAssumption DEF OracleInv, CloseOracleLedger, oracleStorage
<1>2. updated \in [Publishers -> 0..ledger']
  BY <1>1 DEF OracleInv, OracleTypeOK
<1>3. OracleTypeOK'
  BY <1>1, <1>2 DEF OracleInv, OracleTypeOK
<1> QED BY <1>1, <1>3 DEF OracleInv

LEMMA OracleNextInv == OracleInv /\ [OracleNext]_oracleVars => OracleInv'
<1> SUFFICES ASSUME OracleInv, [OracleNext]_oracleVars PROVE OracleInv'
  OBVIOUS
<1>1. CASE UNCHANGED oracleVars
  BY <1>1 DEF oracleVars, oracleStorage, OracleInv, OracleTypeOK
<1>2. CASE CloseOracleLedger
  BY <1>2, CloseOracleLedgerInv
<1>3. CASE OracleCall /\ UNCHANGED ledger
  BY <1>3, AddPublisherInv, RemovePublisherInv, SetPriceInv, SetAssetConfigInv DEF OracleCall
<1> QED BY <1>1, <1>2, <1>3 DEF OracleNext

LEMMA OracleSpecInv == OracleSpec => []OracleInv
BY OracleInitInv, OracleNextInv, PTL DEF OracleSpec

----------------------------------------------------------------------------
\* What a read sees.

LEMMA TtlIsOneOfTwo ==
    ASSUME OracleInv
    PROVE  /\ Ttl \in Nat /\ Ttl < FirstLedger
<1> DEFINE S == {config.heartbeat, DEFAULT_TTL}
<1>1. config.heartbeat \in Nat /\ DEFAULT_TTL \in Nat /\ FirstLedger \in Nat
  BY OracleAssumption DEF OracleInv, OracleTypeOK, AssetConfig
<1>2. DEFAULT_TTL < FirstLedger /\ config.heartbeat < FirstLedger
  BY <1>1, DeploymentAssumption DEF OracleInv
<1>3. \E x \in S : \A y \in S : x >= y
  <2>1. CASE config.heartbeat >= DEFAULT_TTL
    BY <1>1, <2>1
  <2>2. CASE ~ (config.heartbeat >= DEFAULT_TTL)
    BY <1>1, <2>2
  <2> QED BY <2>1, <2>2
<1>4. Ttl \in S
  BY <1>3 DEF Ttl, Max
<1> QED BY <1>1, <1>2, <1>4

\* A report that never came is too old, since the network is older than it may be.
LEMMA FreshHavePrices ==
    ASSUME OracleInv, NEW p \in Publishers
    PROVE  IsFresh(p) <=> HasFreshPrice(p)
<1>1. Ttl \in Nat /\ Ttl < FirstLedger
  BY TtlIsOneOfTwo
<1>2. PICK ttl \in Nat : ttl = Ttl /\ ttl < FirstLedger
  BY <1>1
<1>3. /\ price[p] \in Nat /\ (price[p] = 0 => updated[p] = 0)
      /\ ledger \in Nat /\ ledger >= FirstLedger /\ FirstLedger \in Nat
  BY OracleAssumption DEF OracleInv, OracleTypeOK
<1>4. price[p] = 0 => ~ (ledger - updated[p] <= ttl)
  BY <1>2, <1>3
<1> QED BY <1>2, <1>3, <1>4 DEF IsFresh, HasFreshPrice

LEMMA GatheredAreReports ==
    ASSUME OracleInv
    PROVE  \E n \in Nat :
              /\ n = Len(FreshEntries) /\ DOMAIN FreshEntries = 1..n
              /\ FreshEntries \in [1..n -> Publishers]
              /\ Gathered \in Reports(n) /\ Len(Gathered) = n /\ DOMAIN Gathered = 1..n
              /\ \A i \in 1..n : Gathered[i] = price[FreshEntries[i]]
<1>1. list \in Seq(Publishers) /\ price \in [Publishers -> Nat]
  BY DEF OracleInv, OracleTypeOK
<1>2. FreshEntries \in Seq(Publishers)
  BY <1>1, FreshAreListed
<1>3. PICK n \in Nat : n = Len(FreshEntries)
  BY <1>2
<1>4. FreshEntries \in [1..n -> Publishers] /\ DOMAIN FreshEntries = 1..n
  BY <1>2, <1>3
<1>5. Gathered = [i \in 1..n |-> price[FreshEntries[i]]]
  BY <1>4 DEF Gathered
<1>6. Gathered \in Reports(n) /\ \A i \in 1..n : Gathered[i] = price[FreshEntries[i]]
  BY <1>1, <1>4, <1>5 DEF Reports
<1>7. Len(Gathered) = n /\ DOMAIN Gathered = 1..n
  BY <1>6, ReportsAreLists
<1> QED BY <1>3, <1>4, <1>6, <1>7

\* x divides the n reports of s in the middle.
Divides(x, s, n) ==
    /\ x \in Int
    /\ 2 * Cardinality(Below(s, x, n)) < n
    /\ 2 * Cardinality(Below(s, x + 1, n)) >= n
    /\ \E i \in 1..n : s[i] = x

\* A price is answered only from reports, of which it is the median.
LEMMA AnswerIsMedian ==
    ASSUME OracleInv, Answers
    PROVE  \E n \in Nat \ {0} :
              /\ n = Len(FreshEntries) /\ DOMAIN FreshEntries = 1..n
              /\ FreshEntries \in [1..n -> Publishers]
              /\ Gathered \in Reports(n) /\ Len(Gathered) = n /\ DOMAIN Gathered = 1..n
              /\ \A i \in 1..n : Gathered[i] = price[FreshEntries[i]]
              /\ Divides(Median, Gathered, n)
<1>1. PICK n \in Nat :
              /\ n = Len(FreshEntries) /\ DOMAIN FreshEntries = 1..n
              /\ FreshEntries \in [1..n -> Publishers]
              /\ Gathered \in Reports(n) /\ Len(Gathered) = n /\ DOMAIN Gathered = 1..n
              /\ \A i \in 1..n : Gathered[i] = price[FreshEntries[i]]
  BY GatheredAreReports
<1>2. n # 0
  <2>1. config.min_publishers \in Nat /\ config.min_publishers # 0
    BY DEF OracleInv, OracleTypeOK, AssetConfig, Answers
  <2>2. n >= config.min_publishers
    BY <1>1 DEF Answers
  <2> QED BY <2>1, <2>2
<1>3. Median = ExchangeSort(Gathered)[(n - 1) \div 2 + 1]
  <2>1. ExchangeSort(Gathered) \in Reports(n)
    BY <1>1, SortPutsInPlace
  <2>2. Len(ExchangeSort(Gathered)) = n
    BY <2>1, ReportsAreLists
  <2> QED BY <2>2 DEF Median
<1>4. Divides(Median, Gathered, n)
  BY <1>1, <1>2, <1>3, MiddleIsMedian DEF Divides
<1> QED BY <1>1, <1>2, <1>4

\* What divides all reports lies within those of any majority of the entries.
LEMMA MajorityEncloses ==
    ASSUME NEW n \in Nat \ {0}, NEW s \in Reports(n), NEW x, Divides(x, s, n),
           NEW T \in SUBSET (1..n), 2 * Cardinality(T) < n
    PROVE  /\ \E i \in (1..n) \ T : s[i] <= x
           /\ \E i \in (1..n) \ T : s[i] >= x
<1>1. /\ IsFiniteSet(1..n) /\ Cardinality(1..n) = n
      /\ IsFiniteSet(T) /\ Cardinality(T) \in Nat
  <2>1. IsFiniteSet(1..n) /\ Cardinality(1..n) = n
    BY FS_Interval
  <2>2. IsFiniteSet(T)
    BY <2>1, FS_Subset
  <2> QED BY <2>1, <2>2, FS_CardinalityType
<1>2. x \in Int /\ \A i \in 1..n : s[i] \in Int
  BY DEF Divides, Reports
<1>3. /\ IsFiniteSet(Below(s, x, n)) /\ Cardinality(Below(s, x, n)) \in Nat
      /\ IsFiniteSet(Below(s, x + 1, n)) /\ Cardinality(Below(s, x + 1, n)) \in Nat
  BY BelowIsFinite
<1>4. \E i \in (1..n) \ T : s[i] <= x
  <2> SUFFICES ASSUME \A i \in (1..n) \ T : ~ (s[i] <= x)
               PROVE  FALSE
    OBVIOUS
  <2>1. Below(s, x + 1, n) \in SUBSET T
    BY <1>2 DEF Below
  <2>2. Cardinality(Below(s, x + 1, n)) <= Cardinality(T)
    BY <1>1, <2>1, FS_Subset
  <2> QED BY <1>1, <1>3, <2>2 DEF Divides
<1>5. \E i \in (1..n) \ T : s[i] >= x
  <2> SUFFICES ASSUME \A i \in (1..n) \ T : ~ (s[i] >= x)
               PROVE  FALSE
    OBVIOUS
  <2>1. (1..n) \ T \in SUBSET Below(s, x, n)
    BY <1>2 DEF Below
  <2>2. Cardinality((1..n) \ T) <= Cardinality(Below(s, x, n))
    BY <1>3, <2>1, FS_Subset
  <2>3. PICK all : all = 1..n /\ IsFiniteSet(all) /\ all \cap T = T
    BY <1>1
  <2>4. Cardinality(all \ T) = Cardinality(all) - Cardinality(all \cap T)
    BY <2>3, FS_Difference
  <2>5. Cardinality((1..n) \ T) = n - Cardinality(T)
    BY <1>1, <2>3, <2>4
  <2>6. PICK c \in Nat, d \in Nat : c = Cardinality(T) /\ d = Cardinality(Below(s, x, n))
    BY <1>1, <1>3
  <2>7. 2 * c < n /\ 2 * d < n /\ n - c <= d
    BY <2>2, <2>5, <2>6 DEF Divides
  <2> QED BY <2>7
<1> QED BY <1>4, <1>5

----------------------------------------------------------------------------
\* The theorems about the oracle.

\* The types, and every whitelisted publisher stays listed, for every history
\* of publishers added, added twice and removed.
THEOREM OracleTypes == OracleSpec => []OracleTypeOK
<1>1. OracleInv => OracleTypeOK
  BY DEF OracleInv
<1> QED BY <1>1, OracleSpecInv, PTL

\* get_price answers a median of the fresh reports, however many there are.
THEOREM AnswersAreMedians == OracleSpec => []MedianIsReference
<1>1. OracleInv => MedianIsReference
  <2> SUFFICES ASSUME OracleInv, Answers
               PROVE  /\ \E i \in DOMAIN Gathered : Gathered[i] = Median
                      /\ 2 * Cardinality({i \in DOMAIN Gathered : Gathered[i] < Median})
                           < Cardinality(DOMAIN Gathered)
                      /\ 2 * Cardinality({i \in DOMAIN Gathered : Gathered[i] <= Median})
                           >= Cardinality(DOMAIN Gathered)
    BY DEF MedianIsReference
  <2>1. PICK n, s, x :
              /\ n \in Nat \ {0} /\ s = Gathered /\ x = Median
              /\ s \in Reports(n) /\ DOMAIN s = 1..n /\ Divides(x, s, n)
    BY AnswerIsMedian
  <2>2. Cardinality(1..n) = n
    BY <2>1, FS_Interval
  <2>3. {i \in 1..n : s[i] < x} = Below(s, x, n)
    BY DEF Below
  <2>4. {i \in 1..n : s[i] <= x} = Below(s, x + 1, n)
    BY <2>1 DEF Below, Divides, Reports
  <2> QED BY <2>1, <2>2, <2>3, <2>4 DEF Divides
<1> QED BY <1>1, OracleSpecInv, PTL

\* No set of publishers with less than half of the entries moves the answer
\* out of the range of the others' reports.
THEOREM MinoritiesCannotStray == OracleSpec => []MinorityCannotStray
<1>1. OracleInv => MinorityCannotStray
  <2> DEFINE Theirs(some) == {i \in DOMAIN FreshEntries : FreshEntries[i] \in some}
             Others(some) == {price[FreshEntries[i]] :
                                 i \in DOMAIN FreshEntries \ Theirs(some)}
  <2> SUFFICES ASSUME OracleInv, Answers, NEW some \in SUBSET Publishers,
                      2 * Cardinality(Theirs(some)) < Len(FreshEntries)
               PROVE  /\ \E v \in Others(some) : v <= Median
                      /\ \E v \in Others(some) : v >= Median
    BY DEF MinorityCannotStray
  <2>1. PICK n, s, x :
              /\ n \in Nat \ {0} /\ s = Gathered /\ x = Median
              /\ n = Len(FreshEntries) /\ DOMAIN FreshEntries = 1..n
              /\ \A i \in 1..n : s[i] = price[FreshEntries[i]]
              /\ s \in Reports(n) /\ Divides(x, s, n)
    BY AnswerIsMedian
  <2>2. PICK T \in SUBSET (1..n) : T = Theirs(some) /\ 2 * Cardinality(T) < n
    BY <2>1
  <2>3. (\E i \in (1..n) \ T : s[i] <= x) /\ (\E i \in (1..n) \ T : s[i] >= x)
    BY <2>1, <2>2, MajorityEncloses
  <2>4. \A i \in (1..n) \ T : s[i] \in Others(some)
    BY <2>1, <2>2
  <2> HIDE DEF Others
  <2> QED BY <2>1, <2>3, <2>4
<1> QED BY <1>1, OracleSpecInv, PTL

\* publisher_count counts the reports behind an answered price, and a peek
\* into a list that fits the slots shows one of them.
THEOREM ViewsAgreeWithAnswers == OracleSpec => []ViewsAgree
<1>1. OracleInv => ViewsAgree
  <2> SUFFICES ASSUME OracleInv, Answers
               PROVE  /\ PublisherCount = Len(Gathered)
                      /\ Len(list) <= Slots => \E i \in DOMAIN Gathered : Gathered[i] = PeekPrice
    BY DEF ViewsAgree
  <2>1. PICK n \in Nat \ {0} :
              /\ n = Len(FreshEntries) /\ DOMAIN FreshEntries = 1..n
              /\ Len(Gathered) = n /\ DOMAIN Gathered = 1..n
              /\ \A i \in 1..n : Gathered[i] = price[FreshEntries[i]]
    BY AnswerIsMedian
  <2>2. list \in Seq(Publishers) /\ DOMAIN list = 1..Len(list)
    BY DEF OracleInv, OracleTypeOK
  <2>3. /\ \A p : (\E i \in 1..n : FreshEntries[i] = p)
                      <=> (\E i \in 1..Len(list) : list[i] = p /\ HasFreshPrice(p))
        /\ n = Cardinality({i \in 1..Len(list) : HasFreshPrice(list[i])})
    BY <2>1, <2>2, FreshAreListed
  <2>4. PublisherCount = Len(Gathered)
    <3>1. \A i \in 1..Len(list) : IsFresh(list[i]) <=> HasFreshPrice(list[i])
      BY <2>2, FreshHavePrices
    <3>2. {i \in DOMAIN list : IsFresh(list[i])} = {i \in 1..Len(list) : HasFreshPrice(list[i])}
      BY <2>2, <3>1
    <3> QED BY <2>1, <2>3, <3>2 DEF PublisherCount
  <2>5. ASSUME Len(list) <= Slots
        PROVE  \E i \in 1..n : Gathered[i] = PeekPrice
    <3> DEFINE found == {i \in 1..Len(list) : i <= Slots /\ HasFreshPrice(list[i])}
    <3>1. \A i \in 1..Len(list) : HasFreshPrice(list[i]) => i \in found
      BY <2>2, <2>5, OracleAssumption
    <3>2. found # {}
      <4>1. PICK i \in 1..Len(list) : list[i] = FreshEntries[1] /\ HasFreshPrice(FreshEntries[1])
        <5>1. 1 \in 1..n
          OBVIOUS
        <5> QED BY <2>3, <5>1
      <4> QED BY <3>1, <4>1
    <3>3. PICK k \in 1..Len(list) : k = Min(found) /\ HasFreshPrice(list[k])
      <4>1. found \in SUBSET Nat
        OBVIOUS
      <4>2. Min(found) \in found
        <5> HIDE DEF found
        <5> QED BY <3>2, <4>1, LeastIndex
      <4> QED BY <4>2
    <3>4. PeekPrice = price[list[k]]
      BY <3>2, <3>3 DEF PeekPrice
    <3>5. PICK i \in 1..n : FreshEntries[i] = list[k]
      BY <2>3, <3>3
    <3> QED BY <2>1, <3>4, <3>5
  <2> QED BY <2>1, <2>4, <2>5
<1> QED BY <1>1, OracleSpecInv, PTL

============================================================================
