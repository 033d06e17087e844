----------------------------- MODULE Referrals -----------------------------
(***************************************************************************)
(* Referrals in the factory: who referred whom, how many referees each     *)
(* referrer has, and the leaderboard, which lists referrers by that        *)
(* number, with two readers that fetch the lists page by page while new    *)
(* referrals arrive.  Wallets are numbers, in the order of their addresses.*)
(***************************************************************************)
EXTENDS Integers, Sequences, FiniteSets, SequencesExt

CONSTANTS
  NumWallets,  \* wallets are 1..NumWallets
  Limit        \* the page size the readers ask for

NumWalletsNat == NumWallets \in Nat \ {0}
LimitNat == Limit \in Nat
ConstantsOK == NumWalletsNat /\ LimitNat

VARIABLES
  referrer,  \* ref__<referee>: the referrer of each wallet, 0 when none
  reverse,   \* REFEREES_REVERSE_MAP: pairs of referrer and referee
  count,     \* refcount__<referrer>: 0 when the key is missing
  board,     \* REFEREE_COUNT_REVERSE_MAP: pairs of count and referrer
  list,      \* the reader of one referrer's referees
  ranks      \* the reader of the leaderboard

vars == <<referrer, reverse, count, board, list, ranks>>

Addresses == 1..NumWallets

\* A reader: what it has read, the key its next page starts after, the size of
\* the last page, what was there when it began, whether it was told the end.
Reader(from, there) ==
  [read |-> <<>>, after |-> from, page |-> 0, there |-> there, done |-> FALSE]

Init ==
  /\ referrer = [w \in Addresses |-> 0]
  /\ reverse = {}
  /\ count = [w \in Addresses |-> 0]
  /\ board = {}
  /\ list = [of |-> 0]
  /\ ranks = [of |-> 0]

SetReferrerForKeep(referee, r) ==
  /\ referrer[referee] = 0
  /\ referrer' = [referrer EXCEPT ![referee] = r]
  /\ reverse' = reverse \union {<<r, referee>>}
  /\ count' = [count EXCEPT ![r] = @ + 1]
  /\ board' = board \union {<<count[r] + 1, r>>}

SetReferrerForOld(referee, r) ==
  /\ referrer[referee] = 0
  /\ referrer' = [referrer EXCEPT ![referee] = r]
  /\ reverse' = reverse \union {<<r, referee>>}
  /\ count' = [count EXCEPT ![r] = @ + 1]
  /\ board' = (board \ {<<count[r], r>>}) \union {<<count[r], r>>}

\* Done once for a referee; the referrer moves up on the leaderboard.
SetReferrerFor(referee, r) ==
  /\ referrer[referee] = 0
  /\ referrer' = [referrer EXCEPT ![referee] = r]
  /\ reverse' = reverse \union {<<r, referee>>}
  /\ count' = [count EXCEPT ![r] = @ + 1]
  /\ board' = (board \ {<<count[r], r>>}) \union {<<count[r] + 1, r>>}

RegisterReferrer(sender, r) ==
  /\ sender # r
  /\ SetReferrerFor(sender, r)
  /\ UNCHANGED <<list, ranks>>

\* The loop of both queries pushes items while at most `limit` are there; the
\* next key to start after is the last item when more follow, and else none.
PageOf(items) ==
  IF Len(items) <= Limit + 1 THEN items ELSE SubSeq(items, 1, Limit + 1)

MoreAfterPage(items) == Len(items) > Limit + 2

MoreAfter(items) == Len(items) > Limit + 1

Fetch(reader, items) ==
  LET page == PageOf(items)
  IN [reader EXCEPT !.read = @ \o page,
                    !.page = Len(page),
                    !.after = IF MoreAfter(items) THEN Last(page) ELSE @,
                    !.done = ~MoreAfter(items)]

Before(a, b) == a[1] < b[1] \/ (a[1] = b[1] /\ a[2] < b[2])

\* The keys of the two maps a query goes through, in its order.
Referees(r, after) ==
  SetToSortSeq({w \in Addresses : <<r, w>> \in reverse /\ w > after},
               LAMBDA a, b : a < b)
Ranks(after) ==
  SetToSortSeq({k \in board : Before(k, after)}, LAMBDA a, b : Before(b, a))

Top == <<NumWallets + 1, 0>>

StartList(r) ==
  /\ list.of = 0 /\ ranks.of = 0  \* one reader at a time
  /\ list' = [of |-> r] @@ Reader(0, {w \in Addresses : <<r, w>> \in reverse})
  /\ UNCHANGED <<referrer, reverse, count, board, ranks>>

ListReferees ==
  /\ list.of # 0 /\ ~list.done
  /\ list' = Fetch(list, Referees(list.of, list.after))
  /\ UNCHANGED <<referrer, reverse, count, board, ranks>>

StartRanks ==
  /\ ranks.of = 0 /\ list.of = 0
  /\ ranks' = [of |-> 1] @@ Reader(Top, board)
  /\ UNCHANGED <<referrer, reverse, count, board, list>>

ListRefereeCount ==
  /\ ranks.of # 0 /\ ~ranks.done
  /\ ranks' = Fetch(ranks, Ranks(ranks.after))
  /\ UNCHANGED <<referrer, reverse, count, board, list>>

Next ==
  \/ \E sender, r \in Addresses : RegisterReferrer(sender, r)
  \/ \E r \in Addresses : StartList(r)
  \/ ListReferees
  \/ StartRanks
  \/ ListRefereeCount

Spec == Init /\ [][Next]_vars

(***************************************************************************)
(* Properties.                                                             *)
(***************************************************************************)

\* The types of the referral maps and of the readers.
TypeOK ==
  /\ referrer \in [Addresses -> 0..NumWallets]
  /\ reverse \subseteq Addresses \X Addresses
  /\ count \in [Addresses -> 0..NumWallets]
  /\ board \subseteq (1..NumWallets) \X Addresses

\* The three indexes of one fact agree: the reverse map is the inverse of the
\* referrers, each count is the number of referees, and the leaderboard holds
\* every referrer once, under its present count.
IndexesAgree ==
  /\ reverse = {<<referrer[w], w>> : w \in {x \in Addresses : referrer[x] # 0}}
  /\ \A r \in Addresses :
       count[r] = Cardinality({w \in Addresses : referrer[w] = r})
  /\ board = {<<count[r], r>> : r \in {x \in Addresses : count[x] > 0}}

\* A reader of ListReferees that was told there is no more has read every
\* referee there was when it began, and none twice, whatever was registered
\* between its pages.
ListComplete ==
  list.of # 0 /\ list.done =>
    /\ list.there \subseteq ToSet(list.read)
    /\ IsInjective(list.read)

\* A reader of ListRefereeCount that was told there is no more has read every
\* entry of the leaderboard that did not move since it began, and no referrer
\* twice.
RanksComplete ==
  ranks.of # 0 /\ ranks.done =>
    /\ ranks.there \cap board \subseteq ToSet(ranks.read)
    /\ \A i, j \in DOMAIN ranks.read : ranks.read[i][2] = ranks.read[j][2] => i = j

\* What does not hold: that every referrer there was is read. One that gains a
\* referee between two pages may move up past the key the next page starts after.
EveryReferrerRead ==
  ranks.of # 0 /\ ranks.done =>
    \A k \in ranks.there : \E i \in DOMAIN ranks.read : ranks.read[i][2] = k[2]

\* What `limit` says of both queries: at most that many items come at once. A page
\* holds one more.
PageWithinLimit ==
  /\ list.of # 0 => list.page <= Limit
  /\ ranks.of # 0 => ranks.page <= Limit
=============================================================================
