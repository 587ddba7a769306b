----------------------------- MODULE Governance -----------------------------
(***************************************************************************)
(* The governance contract (contracts/governance/soroban): proposals with  *)
(* a voting period, one vote per account, an execution that records the    *)
(* outcome (it invokes nothing) and a cancellation.  A call that would     *)
(* panic is an action that is not enabled.  Title, description, target and *)
(* calldata are only stored, and left out.  TimelockPeriod and             *)
(* GovernanceToken are stored by initialize and read by no call.           *)
(***************************************************************************)
EXTENDS Integers, Sequences, FiniteSets

CONSTANTS
    Accounts,       \* who may call
    Admin,          \* the account initialize was called with
    VOTING_PERIOD,  \* DEFAULT_VOTING_PERIOD, 86400 ledgers
    QUORUM_BPS,     \* DEFAULT_QUORUM_BPS, 500
    MaxProposals,   \* bound on the proposals made
    MaxLedger       \* bound on the ledgers that close

ASSUME GovernanceAssumption ==
    /\ IsFiniteSet(Accounts)
    /\ Admin \in Accounts
    /\ VOTING_PERIOD \in Nat
    /\ QUORUM_BPS \in Nat
    /\ MaxProposals \in Nat
    /\ MaxLedger \in Nat

VARIABLES
    proposals,  \* Proposal(id) for the ids 1..ProposalCount
    ballots,    \* Vote(id, voter) => support, as a set of records
    now         \* the ledger's sequence number

storage == <<proposals, ballots>>
vars == <<storage, now>>

Proposal == [proposer : Accounts, start_ledger : Nat, end_ledger : Nat,
             for_votes : Nat, against_votes : Nat,
             executed : BOOLEAN, cancelled : BOOLEAN]

Ballot == [id : Nat, voter : Accounts, support : BOOLEAN]

----------------------------------------------------------------------------
\* Views.

ProposalCount == Len(proposals)

GetProposal(id) == proposals[id]

HasVoted(voter, id) == \E b \in ballots : b.id = id /\ b.voter = voter

----------------------------------------------------------------------------
\* Entry points.

Propose(proposer) ==
    /\ proposals' = Append(proposals,
                        [proposer |-> proposer,
                         start_ledger |-> now, end_ledger |-> now + VOTING_PERIOD,
                         for_votes |-> 0, against_votes |-> 0,
                         executed |-> FALSE, cancelled |-> FALSE])
    /\ UNCHANGED ballots

\* An account's vote weighs 1, whatever it holds of the token.
Counted(p, support) ==
    IF support THEN [p EXCEPT !.for_votes = @ + 1]
               ELSE [p EXCEPT !.against_votes = @ + 1]

Cast(voter, id, support) ==
    /\ proposals' = [proposals EXCEPT ![id] = Counted(@, support)]
    /\ ballots' = ballots \cup {[id |-> id, voter |-> voter, support |-> support]}

VoteAgain(voter, id, support) ==  \* variant: only the same vote is refused twice
    /\ now <= GetProposal(id).end_ledger
    /\ ~GetProposal(id).executed /\ ~GetProposal(id).cancelled
    /\ [id |-> id, voter |-> voter, support |-> support] \notin ballots
    /\ Cast(voter, id, support)

VoteLate(voter, id, support) ==  \* variant: votes are taken until the execution
    /\ ~GetProposal(id).executed /\ ~GetProposal(id).cancelled
    /\ ~HasVoted(voter, id)
    /\ Cast(voter, id, support)

Vote(voter, id, support) ==
    /\ now <= GetProposal(id).end_ledger
    /\ ~GetProposal(id).executed /\ ~GetProposal(id).cancelled
    /\ ~HasVoted(voter, id)
    /\ Cast(voter, id, support)

\* The quorum is a share of the votes cast.
Quorum(p) == ((p.for_votes + p.against_votes) * QUORUM_BPS) \div 10000

ExecuteOnQuorum(id) ==  \* variant: the majority is not asked for
    /\ ~GetProposal(id).executed /\ ~GetProposal(id).cancelled
    /\ now > GetProposal(id).end_ledger
    /\ GetProposal(id).for_votes > Quorum(GetProposal(id))
    /\ proposals' = [proposals EXCEPT ![id].executed = TRUE]
    /\ UNCHANGED ballots

Execute(id) ==
    /\ ~GetProposal(id).executed /\ ~GetProposal(id).cancelled
    /\ now > GetProposal(id).end_ledger
    /\ GetProposal(id).for_votes > Quorum(GetProposal(id))
    /\ GetProposal(id).for_votes > GetProposal(id).against_votes
    /\ proposals' = [proposals EXCEPT ![id].executed = TRUE]
    /\ UNCHANGED ballots

\* The proposer or the admin, at any time before the execution, and again.
Cancel(caller, id) ==
    /\ caller \in {GetProposal(id).proposer, Admin}
    /\ ~GetProposal(id).executed
    /\ proposals' = [proposals EXCEPT ![id].cancelled = TRUE]
    /\ UNCHANGED ballots

----------------------------------------------------------------------------

CloseLedger ==
    /\ now < MaxLedger
    /\ now' = now + 1
    /\ UNCHANGED storage

Init ==
    /\ proposals = <<>>
    /\ ballots = {}
    /\ now = 0

Call ==
    \/ \E account \in Accounts : ProposalCount < MaxProposals /\ Propose(account)
    \/ \E id \in 1..ProposalCount :
          \/ \E voter \in Accounts, support \in BOOLEAN : Vote(voter, id, support)
          \/ Execute(id)
          \/ \E caller \in Accounts : Cancel(caller, id)

Next == (Call /\ UNCHANGED now) \/ CloseLedger

Spec == Init /\ [][Next]_vars

----------------------------------------------------------------------------
\* Properties.

\* The types; a proposal's period starts no later than now, and a ballot
\* belongs to a proposal that exists.
GovernanceTypeOK ==
    /\ proposals \in Seq(Proposal)
    /\ ballots \subseteq Ballot
    /\ now \in Nat
    /\ \A id \in 1..ProposalCount : GetProposal(id).start_ledger <= now
    /\ \A b \in ballots : b.id \in 1..ProposalCount

\* The ballots of a proposal, counted.
BallotsFor(id) == Cardinality({b \in ballots : b.id = id /\ b.support = TRUE})

BallotsAgainst(id) == Cardinality({b \in ballots : b.id = id /\ b.support = FALSE})

\* The running tallies are the stored votes, and no account has two of them on
\* one proposal, however votes on several proposals interleave (vote keeps the
\* vote and the tally under two keys).
TallyCountsBallots ==
    /\ \A b, c \in ballots : b.id = c.id /\ b.voter = c.voter => b = c
    /\ \A id \in 1..ProposalCount :
          /\ GetProposal(id).for_votes = BallotsFor(id)
          /\ GetProposal(id).against_votes = BallotsAgainst(id)

\* Whatever is executed had its full period, was not cancelled, and has among
\* the ballots cast more than the quorum and more than those against it; the
\* quorum is compared without the rounding of execute.
ExecutedByMajority ==
    \A id \in 1..ProposalCount :
        LET p   == GetProposal(id)
            yes == BallotsFor(id)
            no  == BallotsAgainst(id)
        IN  p.executed =>
                /\ ~p.cancelled
                /\ now > p.start_ledger + VOTING_PERIOD
                /\ yes > no
                /\ 10000 * yes > QUORUM_BPS * (yes + no)

\* When its period has ended nothing changes a proposal's tally any more, and an
\* execution or a cancellation is the last thing that happens to it.
VerdictIsFinal ==
    [][\A id \in 1..ProposalCount :
          LET p == GetProposal(id)
              q == GetProposal(id)'
          IN  /\ now > p.end_ledger =>
                    q.for_votes = p.for_votes /\ q.against_votes = p.against_votes
              /\ p.executed \/ p.cancelled => q = p]_vars

============================================================================
