---------------------------- MODULE PriceOracle ----------------------------
(***************************************************************************)
(* The price oracle (contracts/oracle/soroban) for one asset; assets share *)
(* only the publishers.  The admin keeps a whitelist and, beside it, a     *)
(* list of publishers for enumeration; each publisher has a last report;   *)
(* a read takes the median of the fresh reports of the list's entries.  A  *)
(* call that would panic is an action that is not enabled.  LendingMarket  *)
(* takes what get_price answers as an input; this is where it comes from.  *)
(***************************************************************************)
EXTENDS Integers, SequencesExt

CONSTANTS
    Publishers,     \* accounts the admin may make publishers
    Prices,         \* prices passed to set_price
    Heartbeats,     \* heartbeats passed to set_asset_config
    Quorums,        \* min_publishers passed to set_asset_config
    DEFAULT_TTL,    \* 300 in the code
    Slots,          \* 16: the length of collect_median's array
    FirstLedger,    \* the ledger the contract is deployed in
    LastLedger,     \* bound on the ledgers that close
    MaxListed       \* bound on the entries of the list

ASSUME OracleAssumption ==
    /\ IsFiniteSet(Publishers)
    /\ Prices \subseteq Int
    /\ Heartbeats \subseteq Nat
    /\ Quorums \subseteq Nat
    /\ DEFAULT_TTL \in Nat
    /\ Slots \in Nat
    /\ {FirstLedger, LastLedger, MaxListed} \subseteq Nat

\* The network is older than a report may be, or publisher_count would count
\* publishers that never reported (their update defaults to ledger 0).
ASSUME DeploymentAssumption == \A ttl \in Heartbeats \cup {DEFAULT_TTL} : FirstLedger > ttl

NoConfig == [heartbeat |-> 0, min_publishers |-> 0]
AssetConfig == [heartbeat : Nat, min_publishers : Nat]

VARIABLES
    whitelist,  \* the addresses with a Publisher flag
    list,       \* PublisherList(0) .. PublisherList(PublisherListLen - 1)
    price,      \* PublisherPrice, 0 when there is none
    updated,    \* PublisherUpdated, 0 when there is none
    config,     \* AssetConfig
    ledger      \* env.ledger().sequence()

oracleStorage == <<whitelist, list, price, updated, config>>
oracleVars == <<oracleStorage, ledger>>

----------------------------------------------------------------------------
\* Reading.

Ttl == Max({config.heartbeat, DEFAULT_TTL})

IsPublisher(p) == p \in whitelist

IsFresh(p) == ledger - updated[p] <= Ttl

\* publisher_count counts entries of the list, whether they have a price or not.
PublisherCount == Cardinality({i \in DOMAIN list : IsFresh(list[i])})

\* The prices collect_median gathers, in the order of the list.
HasPrice(p) == price[p] > 0  \* variant: old reports count

HasFreshPrice(p) == IsFresh(p) /\ price[p] > 0

FreshEntries ==
    LET among[k \in 0..Len(list)] ==
            IF k = 0 THEN <<>>
            ELSE IF HasFreshPrice(list[k]) THEN Append(among[k - 1], list[k])
            ELSE among[k - 1]
    IN  among[Len(list)]

Gathered == [i \in DOMAIN FreshEntries |-> price[FreshEntries[i]]]

\* Its sort: for each i, exchange with every later one that is smaller.
ExchangeDescending(s, i, j) ==  \* variant: the larger price comes first
    IF s[i] < s[j] THEN [s EXCEPT ![i] = s[j], ![j] = s[i]] ELSE s

Exchange(s, i, j) == IF s[i] > s[j] THEN [s EXCEPT ![i] = s[j], ![j] = s[i]] ELSE s

Pass(s, i) ==
    LET upTo[k \in 0..Len(s) - i] == IF k = 0 THEN s ELSE Exchange(upTo[k - 1], i, i + k)
    IN  upTo[Len(s) - i]

ExchangeSort(s) ==
    LET after[i \in 0..Len(s)] == IF i = 0 THEN s ELSE Pass(after[i - 1], i)
    IN  after[Len(s)]

\* get_price answers with enough fresh prices, and no more than the array holds.
Answers ==
    /\ config # NoConfig
    /\ Len(Gathered) >= config.min_publishers
    /\ Len(Gathered) <= Slots

\* The lower middle (indices from 1 here).
MedianUpper ==  \* variant: the entry after the lower middle, when there is one
    LET s == ExchangeSort(Gathered)
    IN  s[IF Len(s) = 1 THEN 1 ELSE (Len(s) - 1) \div 2 + 2]

Median ==
    LET s == ExchangeSort(Gathered) IN s[(Len(s) - 1) \div 2 + 1]

\* peek_price: the first fresh price of the first slots, 0 for None.  Without a
\* configuration it takes a heartbeat of DEFAULT_TTL, which is the same Ttl.
PeekPrice ==
    LET found == {i \in 1..Len(list) : i <= Slots /\ HasFreshPrice(list[i])}
    IN  IF found = {} THEN 0 ELSE price[list[Min(found)]]

----------------------------------------------------------------------------
\* Entry points of the admin.

\* append_publisher_list does not look whether the publisher is listed.
AddPublisher(p) ==
    /\ whitelist' = whitelist \cup {p}
    /\ list' = Append(list, p)
    /\ UNCHANGED <<price, updated, config>>

UnlistedLast(p) ==  \* variant: the last entry is dropped, whosever it is
    IF \E i \in DOMAIN list : list[i] = p THEN Front(list) ELSE list

\* remove_from_publisher_list: the last entry moves into the first one of p.
Unlisted(p) ==
    LET at == {i \in DOMAIN list : list[i] = p}
    IN  IF at = {} THEN list
        ELSE Front([list EXCEPT ![Min(at)] = Last(list)])

RemovePublisher(p) ==
    /\ whitelist' = whitelist \ {p}
    /\ list' = Unlisted(p)
    /\ UNCHANGED <<price, updated, config>>

SetAssetConfig(heartbeat, min_publishers) ==
    /\ min_publishers >= 1
    /\ config' = [heartbeat |-> heartbeat, min_publishers |-> min_publishers]
    /\ UNCHANGED <<whitelist, list, price, updated>>

----------------------------------------------------------------------------
\* Entry point of the publishers.

SetPrice(p, newPrice) ==
    /\ IsPublisher(p)
    /\ newPrice > 0
    /\ price' = [price EXCEPT ![p] = newPrice]
    /\ updated' = [updated EXCEPT ![p] = ledger]
    /\ UNCHANGED <<whitelist, list, config>>

----------------------------------------------------------------------------

CloseOracleLedger ==
    /\ ledger < LastLedger
    /\ ledger' = ledger + 1
    /\ UNCHANGED oracleStorage

OracleInit ==
    /\ whitelist = {} /\ list = <<>>
    /\ price = [p \in Publishers |-> 0]
    /\ updated = [p \in Publishers |-> 0]
    /\ config = NoConfig
    /\ ledger = FirstLedger

OracleCall ==
    \/ \E p \in Publishers :
          \/ Len(list) < MaxListed /\ AddPublisher(p)
          \/ RemovePublisher(p)
          \/ \E newPrice \in Prices : SetPrice(p, newPrice)
    \/ \E heartbeat \in Heartbeats, min_publishers \in Quorums :
          SetAssetConfig(heartbeat, min_publishers)

OracleNext == (OracleCall /\ UNCHANGED ledger) \/ CloseOracleLedger

OracleSpec == OracleInit /\ [][OracleNext]_oracleVars

----------------------------------------------------------------------------
\* Properties.

\* The types; every whitelisted publisher has an entry, so that its reports
\* count, whatever was added twice, removed and moved within the list.
OracleTypeOK ==
    /\ whitelist \subseteq Publishers
    /\ list \in Seq(Publishers)
    /\ price \in [Publishers -> Nat]
    /\ updated \in [Publishers -> 0..ledger]
    /\ config \in AssetConfig
    /\ \A p \in whitelist : \E i \in DOMAIN list : list[i] = p

\* What get_price answers against the definition of a (lower) median: fewer
\* than half of the gathered prices lie below it, at least half not above it.
MedianIsReference ==
    Answers =>
        LET prices == Gathered
            median == Median
            all == DOMAIN prices
            below == {i \in all : prices[i] < median}
            notAbove == {i \in all : prices[i] <= median}
        IN  /\ \E i \in all : prices[i] = median
            /\ 2 * Cardinality(below) < Cardinality(all)
            /\ 2 * Cardinality(notAbove) >= Cardinality(all)

\* The purpose of the median (lib.rs:10-13): publishers who together hold fewer
\* than half of the entries cannot move it outside of what the others report.
\* Entries are counted, not publishers: one added twice holds two.
MinorityCannotStray ==
    Answers =>
        LET entries == FreshEntries
            median == Median
            Theirs(some) == {i \in DOMAIN entries : entries[i] \in some}
        IN  \A some \in SUBSET Publishers :
                2 * Cardinality(Theirs(some)) < Len(entries) =>
                    LET others == {price[entries[i]] : i \in DOMAIN entries \ Theirs(some)}
                    IN  (\E x \in others : x <= median) /\ (\E x \in others : x >= median)

\* The two lenient views agree with a price that is answered: publisher_count is
\* the number of reports behind it, and a peek into a list that fits the slots
\* finds one of them.
ViewsAgree ==
    Answers =>
        /\ PublisherCount = Len(Gathered)
        /\ Len(list) <= Slots => \E i \in DOMAIN Gathered : Gathered[i] = PeekPrice

============================================================================
