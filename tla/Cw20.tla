-------------------------------- MODULE Cw20 --------------------------------
(***************************************************************************)
(* The CW20 token contract that serves as collateral: balances, supply and *)
(* cap, allowances with an expiration, sends that call the receiving       *)
(* contract, the marketing record, and the mode for a trading competition, *)
(* in which tokens move only to and from one market.                       *)
(***************************************************************************)
EXTENDS Allowances, FiniteSets, FiniteSums

CONSTANTS
  Wallets,         \* accounts of users; one of them is the first minter
  Market,          \* the account of a contract that takes part in sends
  Cap,             \* MINTER_CAP
  MaxAmount,       \* bound: the amount of one message
  MaxTime,         \* bound: the clock
  MaxGranted,      \* bound: the sum of all allowances ever granted
  Marketers        \* the marketing accounts a token may start with

None == "none"

MarketApart == Market \notin Wallets
BoundsNat == {Cap, MaxAmount, MaxTime, MaxGranted} \subseteq Nat
ConstantsOK == IsFiniteSet(Wallets) /\ MarketApart /\ BoundsNat

ASSUME Cw20Constants == ConstantsOK

VARIABLES
  balance,    \* BALANCES
  supply,     \* the total supply in TOKEN_INFO
  minter,     \* MINTER
  allow,      \* ALLOWANCES, by owner and spender
  bySpender,  \* ALLOWANCES_SPENDER, by spender and owner
  competition,\* is MARKET_ADDRESS set?
  hook,       \* the Receive call the running transaction still has to make
  books,      \* what the market holds by its own books: told of, less sent
  granted,    \* history: what each owner ever allowed each spender
  spent,      \* history: what each spender moved of each owner's tokens
  now,        \* block time
  marketing   \* MARKETING_INFO and LOGO

vars == <<balance, supply, minter, allow, bySpender, competition, hook, books,
          granted, spent, now, marketing>>
tokenVars == <<balance, supply>>
allowVars == <<allow, bySpender, granted, spent>>
miscVars == <<minter, competition, now, marketing>>

Accounts == Wallets \union {Market}
Pairs == Accounts \X Accounts
Amounts == 0..MaxAmount

\* A call of the market's Receive with the sender and the amount.
NoHook == [sender |-> None, amount |-> 0]

Init ==
  /\ balance \in {b \in [Accounts -> 0..1] : b[Market] = 0}
  /\ supply = Total(balance, Accounts)
  /\ supply <= Cap
  /\ minter \in Wallets
  /\ allow = [p \in Pairs |-> NoEntry]
  /\ bySpender = [p \in Pairs |-> NoEntry]
  /\ competition = FALSE
  /\ hook = NoHook
  /\ books = 0
  /\ granted = [p \in Pairs |-> 0]
  /\ spent = [p \in Pairs |-> 0]
  /\ now = 0
  /\ \E m \in Marketers :
       marketing = [stored |-> TRUE, account |-> m, filled |-> {}, logo |-> FALSE]

Idle == hook = NoHook

CompetitionChecksWallets(sender, recipient) ==
  competition => Market \in {sender, recipient} \/ recipient = minter

\* The trading competition: a message with a recipient or a spender is taken
\* only from the market or for it.
AssertTradingCompetition(sender, recipient) ==
  competition => Market \in {sender, recipient}

MoveAtOnce(from, to, x) ==
  /\ x <= balance[from]
  /\ balance' = [balance EXCEPT ![from] = balance[from] - x, ![to] = balance[to] + x]

\* Taken from one balance first and added to the other then, so that a
\* transfer to oneself changes nothing.
Move(from, to, x) ==
  /\ x <= balance[from]
  /\ balance' = [[balance EXCEPT ![from] = @ - x] EXCEPT ![to] = @ + x]

Deduct(owner, spender, x) ==
  /\ MayDeduct(allow[<<owner, spender>>], x, now)
  /\ MayDeduct(bySpender[<<spender, owner>>], x, now)
  /\ allow' = [allow EXCEPT ![<<owner, spender>>] = Deducted(@, x)]
  /\ bySpender' = [bySpender EXCEPT ![<<spender, owner>>] = Deducted(@, x)]
  /\ spent' = [spent EXCEPT ![<<owner, spender>>] = @ + x]
  /\ UNCHANGED granted

\* The market sends no more than its books hold.
Transfer(sender, to, x) ==
  /\ Idle /\ AssertTradingCompetition(sender, to)
  /\ x > 0
  /\ Move(sender, to, x)
  /\ sender = Market => x <= books
  /\ books' = IF sender = Market THEN books - x ELSE books
  /\ UNCHANGED <<supply, hook, allowVars, miscVars>>

SendUnmoved(sender, x) ==
  /\ Idle /\ AssertTradingCompetition(sender, Market)
  /\ x > 0
  /\ Move(sender, sender, x)
  /\ hook' = [sender |-> sender, amount |-> x]
  /\ UNCHANGED <<supply, books, allowVars, miscVars>>

\* A send moves the tokens and then calls the contract, here the market.
Send(sender, x) ==
  /\ Idle /\ AssertTradingCompetition(sender, Market)
  /\ x > 0
  /\ Move(sender, Market, x)
  /\ hook' = [sender |-> sender, amount |-> x]
  /\ UNCHANGED <<supply, books, allowVars, miscVars>>

TransferFrom(sender, owner, to, x) ==
  /\ Idle /\ AssertTradingCompetition(sender, to)
  /\ Deduct(owner, sender, x)
  /\ Move(owner, to, x)
  /\ UNCHANGED <<supply, hook, books, miscVars>>

\* The sender the contract is told of is the spender, not the owner.
SendFrom(sender, owner, x) ==
  /\ Idle /\ AssertTradingCompetition(sender, Market)
  /\ Deduct(owner, sender, x)
  /\ Move(owner, Market, x)
  /\ hook' = [sender |-> sender, amount |-> x]
  /\ UNCHANGED <<supply, books, miscVars>>

\* The contract takes the tokens it was told of.  (A contract that refuses
\* undoes the transaction, which leaves the state from before the send.)
Receive ==
  /\ ~Idle
  /\ books' = books + hook.amount
  /\ hook' = NoHook
  /\ UNCHANGED <<tokenVars, allowVars, miscVars>>

BurnTokens(owner, x) ==
  /\ x <= balance[owner] /\ x <= supply
  /\ balance' = [balance EXCEPT ![owner] = @ - x]
  /\ supply' = supply - x

Burn(sender, x) ==
  /\ Idle /\ x > 0
  /\ BurnTokens(sender, x)
  /\ UNCHANGED <<hook, books, allowVars, miscVars>>

BurnFrom(sender, owner, x) ==
  /\ Idle
  /\ Deduct(owner, sender, x)
  /\ BurnTokens(owner, x)
  /\ UNCHANGED <<hook, books, miscVars>>

Mint(sender, to, x) ==
  /\ Idle /\ x > 0
  /\ sender = minter
  /\ supply + x <= Cap
  /\ supply' = supply + x
  /\ balance' = [balance EXCEPT ![to] = @ + x]
  /\ UNCHANGED <<hook, books, allowVars, miscVars>>

IncreaseAllowance(owner, spender, x, expires) ==
  /\ Idle /\ AssertTradingCompetition(owner, spender)
  /\ spender # owner
  /\ Total(granted, Pairs) + x <= MaxGranted
  /\ allow' = [allow EXCEPT ![<<owner, spender>>] = Increased(@, x, expires)]
  /\ bySpender' = [bySpender EXCEPT ![<<spender, owner>>] = Increased(@, x, expires)]
  /\ granted' = [granted EXCEPT ![<<owner, spender>>] = @ + x]
  /\ UNCHANGED <<spent, hook, books, tokenVars, miscVars>>

DecreaseAllowanceOnce(owner, spender, x, expires) ==
  /\ Idle /\ AssertTradingCompetition(owner, spender)
  /\ spender # owner
  /\ allow[<<owner, spender>>] # NoEntry
  /\ allow' = [allow EXCEPT ![<<owner, spender>>] = Decreased(@, x, expires)]
  /\ UNCHANGED <<bySpender, granted, spent, hook, books, tokenVars, miscVars>>

\* Both maps get the entry computed from the one by owner.
DecreaseAllowance(owner, spender, x, expires) ==
  LET e == Decreased(allow[<<owner, spender>>], x, expires)
  IN /\ Idle /\ AssertTradingCompetition(owner, spender)
     /\ spender # owner
     /\ allow[<<owner, spender>>] # NoEntry
     /\ allow' = [allow EXCEPT ![<<owner, spender>>] = e]
     /\ bySpender' = [bySpender EXCEPT ![<<spender, owner>>] = e]
     /\ UNCHANGED <<granted, spent, hook, books, tokenVars, miscVars>>

UpdateMinter(sender, new) ==
  /\ Idle
  /\ sender = minter
  /\ minter' = new
  /\ UNCHANGED <<competition, now, marketing, hook, books, tokenVars, allowVars>>

SetMarket(sender) ==
  /\ Idle
  /\ sender = minter
  /\ ~competition
  /\ competition' = TRUE
  /\ UNCHANGED <<minter, now, marketing, hook, books, tokenVars, allowVars>>

\* Is there nothing left to keep in MARKETING_INFO?
MarketingEmptyBesidesLogo(filled, account) ==
  filled \ {"logo"} = {} /\ account = None

MarketingEmpty(filled, account) == filled = {} /\ account = None

\* Each field is left alone, cleared or set; what is left of the record is
\* stored, or the record is removed.
UpdateMarketing(sender, texts, account) ==
  /\ Idle
  /\ marketing.stored /\ sender = marketing.account
  /\ LET filled == (marketing.filled \cap {"logo"}) \union texts
     IN marketing' = [marketing EXCEPT
          !.stored = ~MarketingEmpty(filled, account),
          !.filled = IF MarketingEmpty(filled, account) THEN {} ELSE filled,
          !.account = IF MarketingEmpty(filled, account) THEN None ELSE account]
  /\ UNCHANGED <<minter, competition, now, hook, books, tokenVars, allowVars>>

UploadLogo(sender) ==
  /\ Idle
  /\ marketing.stored /\ sender = marketing.account
  /\ marketing' = [marketing EXCEPT !.logo = TRUE, !.filled = @ \union {"logo"}]
  /\ UNCHANGED <<minter, competition, now, hook, books, tokenVars, allowVars>>

Tick ==
  /\ Idle /\ now < MaxTime
  /\ now' = now + 1
  /\ UNCHANGED <<minter, competition, marketing, hook, books, tokenVars, allowVars>>

\* The market sends transfers only; it never spends an allowance.
Next ==
  \/ \E x \in Amounts, to \in Accounts :
       \/ \E sender \in Accounts : Transfer(sender, to, x)
       \/ \E sender \in Wallets :
            \/ Mint(sender, to, x)
            \/ \E owner \in Wallets : TransferFrom(sender, owner, to, x)
  \/ \E x \in Amounts, sender \in Wallets :
       \/ Send(sender, x)
       \/ Burn(sender, x)
       \/ \E owner \in Wallets : SendFrom(sender, owner, x)
       \/ \E owner \in Wallets : BurnFrom(sender, owner, x)
       \/ \E spender \in Accounts, expires \in {Unchanged, Never} \union 1..MaxTime :
            \/ IncreaseAllowance(sender, spender, x, expires)
            \/ DecreaseAllowance(sender, spender, x, expires)
  \/ \E sender, new \in Wallets : UpdateMinter(sender, new)
  \/ \E sender \in Wallets :
       \/ SetMarket(sender)
       \/ UploadLogo(sender)
       \/ \E texts \in SUBSET {"project", "description"},
             account \in Wallets \union {None} :
            UpdateMarketing(sender, texts, account)
  \/ Receive
  \/ Tick

Spec == Init /\ [][Next]_vars

\* Queries: the allowances an owner gave, and the ones a spender got.
OwnerAllowances(a) == [s \in Accounts |-> allow[<<a, s>>]]

SpenderAllowances(s) == [a \in Accounts |-> bySpender[<<s, a>>]]

(***************************************************************************)
(* Properties.                                                             *)
(***************************************************************************)

Entries == [amount : Nat, expires : Int]

\* The stored state has its type.
TypeOK ==
  /\ balance \in [Accounts -> Nat] /\ supply \in Nat /\ minter \in Wallets
  /\ allow \in [Pairs -> Entries] /\ bySpender \in [Pairs -> Entries]
  /\ competition \in BOOLEAN
  /\ hook \in [sender : Wallets \cup {None}, amount : Nat]
  /\ books \in Nat /\ now \in 0..MaxTime
  /\ granted \in [Pairs -> Nat] /\ spent \in [Pairs -> Nat]

\* The balances add up to the supply that TokenInfo reports, which stays within
\* the cap, through transfers to oneself, burns of allowances and new minters.
SupplyAddsUp ==
  /\ supply = Total(balance, Accounts)
  /\ supply <= Cap

\* The two maps of allowances hold the same entries: what AllSpenderAllowances
\* lists is what a spender can use.
AllowancesMirrored ==
  \A p \in Pairs : OwnerAllowances(p[1])[p[2]] = SpenderAllowances(p[2])[p[1]]

\* Over any sequence of increases, decreases, expirations and spending, a
\* spender never moves more of an owner's tokens than the owner ever granted.
SpentWithinGranted ==
  \A p \in Pairs : allow[p].amount + spent[p] <= granted[p]

\* An allowance is not used at or after its expiration.
NoSpendingExpiredStep ==
  \A p \in Pairs : spent'[p] # spent[p] => allow[p].expires > now
NoSpendingExpired == [][NoSpendingExpiredStep]_vars

\* The tokens a Receive tells the market of are there when it is called: the
\* market always has what its books say, so its payments never fail.
ReceiveBacked == books + hook.amount <= balance[Market]

\* The supply of a token is the sum of the balances; the two indexes of
\* allowances agree, nobody spends more than was granted, and a contract that
\* is told of tokens holds them.
AllowancesKept ==
  TypeOK /\ SupplyAddsUp /\ AllowancesMirrored /\ SpentWithinGranted /\ ReceiveBacked

\* In a trading competition tokens do not pass from one wallet to another.
CompetitionConfinedStep ==
  competition /\ supply' = supply =>
    \A a, b \in Wallets : ~(balance'[a] < balance[a] /\ balance'[b] > balance[b])
CompetitionConfined == [][CompetitionConfinedStep]_vars

\* A logo that was stored is known to MarketingInfo.
LogoKnown == marketing.logo => marketing.stored /\ "logo" \in marketing.filled

------------------------------------------------------------------------------
(* The invariant, in parts: every operation disturbs one or two of them.   *)

AllowInv ==
  /\ allow \in [Pairs -> Entries] /\ bySpender \in [Pairs -> Entries]
  /\ granted \in [Pairs -> Nat] /\ spent \in [Pairs -> Nat]
  /\ \A a, s \in Accounts :
       /\ allow[<<a, s>>] = bySpender[<<s, a>>]
       /\ allow[<<a, s>>].amount + spent[<<a, s>>] <= granted[<<a, s>>]

CoinInv ==
  /\ balance \in [Accounts -> Nat] /\ supply \in Nat
  /\ supply = Total(balance, Accounts) /\ supply <= Cap

BookInv ==
  /\ hook \in [sender : Wallets \cup {None}, amount : Nat] /\ books \in Nat
  /\ books + hook.amount <= balance[Market]

MiscInv == minter \in Wallets /\ competition \in BOOLEAN /\ now \in 0..MaxTime

TokenInv == AllowInv /\ CoinInv /\ BookInv /\ MiscInv

LEMMA AccountFacts ==
  /\ IsFiniteSet(Accounts) /\ Market \in Accounts /\ Market \notin Wallets
  /\ \A w \in Wallets : w \in Accounts /\ w # Market
  /\ \A a \in Accounts : a = Market \/ a \in Wallets
  /\ MaxTime \in Nat /\ Cap \in Nat
  /\ \A x \in Amounts : x \in Nat
<1>1. IsFiniteSet(Wallets) /\ Market \notin Wallets /\ MaxTime \in Nat /\ MaxAmount \in Nat
      /\ Cap \in Nat
  BY Cw20Constants DEF ConstantsOK, MarketApart, BoundsNat
<1>2. IsFiniteSet(Accounts)
  BY <1>1, FS_AddElement DEF Accounts
<1> QED BY <1>1, <1>2 DEF Accounts, Amounts

------------------------------------------------------------------------------
(* Allowances.                                                             *)

LEMMA EntryIncreased ==
  ASSUME NEW e \in Entries, NEW x \in Nat, NEW expires \in Int
  PROVE  Increased(e, x, expires) \in Entries /\ Increased(e, x, expires).amount = e.amount + x
<1>1. Default(e) \in Entries /\ Default(e).amount = e.amount
  BY DEF Default, NoEntry, Entries, Never
<1>2. /\ WithExpiry(Default(e), expires) \in Entries
      /\ WithExpiry(Default(e), expires).amount = e.amount
  BY <1>1 DEF WithExpiry, Entries
<1> QED BY <1>2 DEF Increased, Entries

LEMMA EntryDecreased ==
  ASSUME NEW e \in Entries, NEW x \in Nat, NEW expires \in Int
  PROVE  Decreased(e, x, expires) \in Entries /\ Decreased(e, x, expires).amount <= e.amount
<1>0. e.amount \in Nat
  BY DEF Entries
<1>1. CASE x < e.amount
  <2>1. /\ WithExpiry(e, expires) \in Entries
        /\ WithExpiry(e, expires).amount = e.amount
    BY DEF WithExpiry, Entries
  <2>2. Decreased(e, x, expires) = [WithExpiry(e, expires) EXCEPT !.amount = @ - x]
    BY <1>1 DEF Decreased
  <2> QED BY <1>0, <1>1, <2>1, <2>2 DEF Entries
<1>2. CASE ~(x < e.amount)
  BY <1>0, <1>2 DEF Decreased, NoEntry, Entries
<1> QED BY <1>1, <1>2

LEMMA EntryDeducted ==
  ASSUME NEW e \in Entries, NEW x \in Nat, MayDeduct(e, x, now)
  PROVE  /\ Deducted(e, x) \in Entries /\ Deducted(e, x).amount = e.amount - x
<1>1. x <= e.amount /\ e.amount \in Nat
  BY DEF MayDeduct, Entries
<1> QED BY <1>1 DEF Deducted, Entries

\* One entry of a map by pairs is set.
WithPair(f, a, s, v) == [f EXCEPT ![<<a, s>>] = v]

LEMMA PairTypes ==
  ASSUME AllowInv, NEW a \in Accounts, NEW s \in Accounts
  PROVE  /\ allow[<<a, s>>] \in Entries /\ bySpender[<<s, a>>] \in Entries
         /\ granted[<<a, s>>] \in Nat /\ spent[<<a, s>>] \in Nat
         /\ allow[<<a, s>>].amount \in Nat
<1>1. <<a, s>> \in Pairs /\ <<s, a>> \in Pairs
  BY DEF Pairs
<1> QED BY <1>1 DEF AllowInv, Entries

\* Both maps get the same entry, and the history follows.
LEMMA AllowStep ==
  ASSUME AllowInv, NEW a \in Accounts, NEW s \in Accounts, NEW e \in Entries,
         NEW g \in Nat, NEW u \in Nat,
         allow' = WithPair(allow, a, s, e), bySpender' = WithPair(bySpender, s, a, e),
         granted' = WithPair(granted, a, s, g), spent' = WithPair(spent, a, s, u),
         e.amount + u <= g
  PROVE  AllowInv'
<1>0. \A b, t \in Accounts : <<b, t>> \in Pairs
  BY DEF Pairs
<1>1. /\ allow \in [Pairs -> Entries] /\ bySpender \in [Pairs -> Entries]
      /\ granted \in [Pairs -> Nat] /\ spent \in [Pairs -> Nat]
  BY DEF AllowInv
<1>2. /\ allow' \in [Pairs -> Entries]
      /\ \A b, t \in Accounts : allow'[<<b, t>>] = IF b = a /\ t = s THEN e ELSE allow[<<b, t>>]
  <2>1. allow \in [Pairs -> Entries]
    BY <1>1
  <2>2. /\ WithPair(allow, a, s, e) \in [Pairs -> Entries]
        /\ \A b, t \in Accounts :
             WithPair(allow, a, s, e)[<<b, t>>] =
               IF b = a /\ t = s THEN e ELSE allow[<<b, t>>]
    BY <2>1, <1>0 DEF WithPair
  <2> QED BY <2>2
<1>3. /\ bySpender' \in [Pairs -> Entries]
      /\ \A t, b \in Accounts :
           bySpender'[<<t, b>>] = IF t = s /\ b = a THEN e ELSE bySpender[<<t, b>>]
  <2>1. bySpender \in [Pairs -> Entries]
    BY <1>1
  <2>2. /\ WithPair(bySpender, s, a, e) \in [Pairs -> Entries]
        /\ \A t, b \in Accounts :
             WithPair(bySpender, s, a, e)[<<t, b>>] =
               IF t = s /\ b = a THEN e ELSE bySpender[<<t, b>>]
    BY <2>1, <1>0 DEF WithPair
  <2> QED BY <2>2
<1>4. /\ granted' \in [Pairs -> Nat]
      /\ \A b, t \in Accounts : granted'[<<b, t>>] = IF b = a /\ t = s THEN g ELSE granted[<<b, t>>]
  <2>1. granted \in [Pairs -> Nat]
    BY <1>1
  <2>2. /\ WithPair(granted, a, s, g) \in [Pairs -> Nat]
        /\ \A b, t \in Accounts :
             WithPair(granted, a, s, g)[<<b, t>>] =
               IF b = a /\ t = s THEN g ELSE granted[<<b, t>>]
    BY <2>1, <1>0 DEF WithPair
  <2> QED BY <2>2
<1>5. /\ spent' \in [Pairs -> Nat]
      /\ \A b, t \in Accounts : spent'[<<b, t>>] = IF b = a /\ t = s THEN u ELSE spent[<<b, t>>]
  <2>1. spent \in [Pairs -> Nat]
    BY <1>1
  <2>2. /\ WithPair(spent, a, s, u) \in [Pairs -> Nat]
        /\ \A b, t \in Accounts :
             WithPair(spent, a, s, u)[<<b, t>>] =
               IF b = a /\ t = s THEN u ELSE spent[<<b, t>>]
    BY <2>1, <1>0 DEF WithPair
  <2> QED BY <2>2
<1>6. ASSUME NEW b \in Accounts, NEW t \in Accounts
      PROVE  /\ allow'[<<b, t>>] = bySpender'[<<t, b>>]
             /\ allow'[<<b, t>>].amount + spent'[<<b, t>>] <= granted'[<<b, t>>]
  <2>1. CASE b = a /\ t = s
    BY <1>2, <1>3, <1>4, <1>5, <2>1
  <2>2. CASE ~(b = a /\ t = s)
    <3>1. /\ allow'[<<b, t>>] = allow[<<b, t>>] /\ bySpender'[<<t, b>>] = bySpender[<<t, b>>]
          /\ spent'[<<b, t>>] = spent[<<b, t>>] /\ granted'[<<b, t>>] = granted[<<b, t>>]
      BY <1>2, <1>3, <1>4, <1>5, <2>2
    <3>2. allow[<<b, t>>] = bySpender[<<t, b>>] /\ allow[<<b, t>>].amount + spent[<<b, t>>] <= granted[<<b, t>>]
      BY DEF AllowInv
    <3> QED BY <3>1, <3>2
  <2> QED BY <2>1, <2>2
<1> QED BY <1>2, <1>3, <1>4, <1>5, <1>6 DEF AllowInv, Entries, Pairs, Accounts

\* Setting an entry to what it is changes nothing.
LEMMA PairSame ==
  ASSUME NEW V, NEW f \in [Pairs -> V], NEW a \in Accounts, NEW s \in Accounts
  PROVE  WithPair(f, a, s, f[<<a, s>>]) = f
<1>1. <<a, s>> \in Pairs
  BY DEF Pairs
<1> QED BY <1>1 DEF WithPair

LEMMA DeductStep ==
  ASSUME AllowInv, MiscInv, NEW owner \in Accounts, NEW spender \in Accounts,
         NEW x \in Nat, Deduct(owner, spender, x)
  PROVE  /\ AllowInv'
         /\ \A p \in Pairs : spent'[p] # spent[p] => allow[p].expires > now
<1> DEFINE e == Deducted(allow[<<owner, spender>>], x)
           u == spent[<<owner, spender>>] + x
           g == granted[<<owner, spender>>]
<1>1. /\ allow[<<owner, spender>>] \in Entries /\ granted[<<owner, spender>>] \in Nat
      /\ spent[<<owner, spender>>] \in Nat /\ allow[<<owner, spender>>].amount \in Nat
      /\ bySpender[<<spender, owner>>] = allow[<<owner, spender>>]
      /\ allow[<<owner, spender>>].amount + spent[<<owner, spender>>] <= granted[<<owner, spender>>]
  BY PairTypes DEF AllowInv
<1>2. MayDeduct(allow[<<owner, spender>>], x, now)
  BY DEF Deduct
<1>3. e \in Entries /\ e.amount = allow[<<owner, spender>>].amount - x
  BY <1>1, <1>2, EntryDeducted
<1>4. /\ allow' = WithPair(allow, owner, spender, e)
      /\ bySpender' = WithPair(bySpender, spender, owner, e)
      /\ spent' = WithPair(spent, owner, spender, u)
  BY <1>1 DEF Deduct, WithPair
<1>5. granted' = WithPair(granted, owner, spender, g)
  <2>1. granted \in [Pairs -> Nat] /\ granted' = granted
    BY DEF Deduct, AllowInv
  <2>2. WithPair(granted, owner, spender, granted[<<owner, spender>>]) = granted
    BY <2>1, PairSame
  <2> QED BY <2>1, <2>2
<1> HIDE DEF e
<1>6. e.amount + u <= g /\ u \in Nat /\ g \in Nat
  BY <1>1, <1>3
<1> HIDE DEF u, g
<1>7. AllowInv'
  BY <1>3, <1>4, <1>5, <1>6, AllowStep
<1>8. ASSUME NEW p \in Pairs, spent'[p] # spent[p]
      PROVE  allow[p].expires > now
  <2>0. spent \in [Pairs -> Nat] /\ spent' = WithPair(spent, owner, spender, u)
    BY <1>4 DEF AllowInv
  <2>1. p = <<owner, spender>>
    <3>1. SUFFICES ASSUME p # <<owner, spender>> PROVE FALSE
      OBVIOUS
    <3>2. spent'[p] = spent[p]
      BY <2>0, <3>1 DEF WithPair
    <3> QED BY <1>8, <3>2
  <2>2. ~Expired(allow[<<owner, spender>>], now)
    BY <1>2 DEF MayDeduct
  <2>3. allow[<<owner, spender>>].expires \in Int /\ now \in Int
    BY <1>1, AccountFacts DEF Entries, MiscInv
  <2> QED BY <2>1, <2>2, <2>3 DEF Expired
<1> QED BY <1>7, <1>8

------------------------------------------------------------------------------
(* Balances.                                                               *)

LEMMA BalanceSet ==
  ASSUME NEW b \in [Accounts -> Nat], NEW a \in Accounts, NEW v \in Nat
  PROVE  /\ [b EXCEPT ![a] = v] \in [Accounts -> Nat]
         /\ \A c \in Accounts : [b EXCEPT ![a] = v][c] = IF c = a THEN v ELSE b[c]
         /\ Total(b, Accounts) \in Nat
         /\ Total([b EXCEPT ![a] = v], Accounts) = Total(b, Accounts) - b[a] + v
<1> DEFINE d == [b EXCEPT ![a] = v]
<1>1. /\ d \in [Accounts -> Nat]
      /\ \A c \in Accounts : d[c] = IF c = a THEN v ELSE b[c]
      /\ \A c \in Accounts : b[c] \in Nat /\ b[c] \in Int /\ d[c] \in Int
  OBVIOUS
<1> HIDE DEF d
<1>2. IsFiniteSet(Accounts)
  BY AccountFacts
<1>3. Total(d, Accounts) = Total(b, Accounts) - b[a] + d[a]
  BY <1>1, <1>2, TotalChange
<1>4. Total(b, Accounts) \in Nat
  BY <1>1, <1>2, TotalType
<1> QED BY <1>1, <1>3, <1>4 DEF d

\* What a move does to the balances: the sum stays.
LEMMA MoveStep ==
  ASSUME CoinInv, NEW from \in Accounts, NEW to \in Accounts, NEW x \in Nat,
         Move(from, to, x), supply' = supply
  PROVE  /\ CoinInv'
         /\ from # to => balance'[to] = balance[to] + x
         /\ from # to => balance'[from] = balance[from] - x
         /\ from = to => balance' = balance
         /\ \A c \in Accounts \ {from, to} : balance'[c] = balance[c]
         /\ x <= balance[from] /\ \A c \in Accounts : balance[c] \in Nat
<1> DEFINE v == balance[from] - x
           mid == [balance EXCEPT ![from] = v]
           t == mid[to] + x
<1>1. /\ balance \in [Accounts -> Nat] /\ x <= balance[from]
      /\ \A c \in Accounts : balance[c] \in Nat
      /\ v \in Nat
  BY DEF CoinInv, Move
<1>2. balance' = [mid EXCEPT ![to] = t]
  BY DEF Move
<1> HIDE DEF v
<1>3. /\ mid \in [Accounts -> Nat]
      /\ \A c \in Accounts : mid[c] = IF c = from THEN v ELSE balance[c]
      /\ Total(balance, Accounts) \in Nat
      /\ Total(mid, Accounts) = Total(balance, Accounts) - balance[from] + v
  BY <1>1, BalanceSet
<1> HIDE DEF mid
<1>4. mid[to] \in Nat /\ t \in Nat
  BY <1>3
<1>5. t = mid[to] + x
  OBVIOUS
<1> HIDE DEF t
<1>6. /\ balance' \in [Accounts -> Nat]
      /\ \A c \in Accounts : balance'[c] = IF c = to THEN t ELSE mid[c]
      /\ Total(mid, Accounts) \in Nat
      /\ Total(balance', Accounts) = Total(mid, Accounts) - mid[to] + t
  BY <1>2, <1>3, <1>4, BalanceSet
<1>7. Total(balance', Accounts) = Total(balance, Accounts)
  BY <1>1, <1>3, <1>4, <1>5, <1>6 DEF v
<1>8. CoinInv'
  BY <1>6, <1>7 DEF CoinInv
<1>9. \A c \in Accounts \ {from, to} : balance'[c] = balance[c]
  BY <1>3, <1>6
<1>10. ASSUME from # to
       PROVE  balance'[to] = balance[to] + x /\ balance'[from] = balance[from] - x
  BY <1>1, <1>3, <1>5, <1>6, <1>10 DEF v
<1>11. ASSUME from = to PROVE balance' = balance
  <2>1. balance'[to] = balance[to]
    BY <1>1, <1>3, <1>5, <1>6, <1>11 DEF v
  <2>2. \A c \in Accounts : balance'[c] = balance[c]
    BY <1>9, <1>11, <2>1
  <2> QED BY <1>1, <1>6, <2>2
<1> QED BY <1>1, <1>8, <1>9, <1>10, <1>11
\* A move into or out of the market takes from no wallet to give to another.
LEMMA MoveConfined ==
  ASSUME CoinInv, NEW from \in Accounts, NEW to \in Accounts, NEW x \in Nat,
         Move(from, to, x), supply' = supply, competition => Market \in {from, to}
  PROVE  CompetitionConfinedStep
<1>1. /\ from # to => balance'[to] = balance[to] + x
      /\ from # to => balance'[from] = balance[from] - x
      /\ from = to => balance' = balance
      /\ \A c \in Accounts \ {from, to} : balance'[c] = balance[c]
      /\ \A c \in Accounts : balance[c] \in Nat
  BY MoveStep
<1>2. SUFFICES ASSUME competition, NEW a \in Wallets, NEW b \in Wallets,
                      balance'[a] < balance[a], balance'[b] > balance[b]
               PROVE  FALSE
  BY DEF CompetitionConfinedStep
<1>3. a \in Accounts /\ b \in Accounts /\ a # Market /\ b # Market
  BY AccountFacts
<1>4. balance[a] \in Nat /\ balance[b] \in Nat
  BY <1>1, <1>3
<1>5. from # to
  BY <1>1, <1>2, <1>4
<1>6. a = from
  BY <1>1, <1>2, <1>3, <1>4, <1>5
<1>7. b = to
  BY <1>1, <1>2, <1>3, <1>4, <1>5
<1> QED BY <1>2, <1>3, <1>6, <1>7

\* Nobody gains in a step where nobody's balance grows, or nobody's falls.
LEMMA OneWayConfined ==
  ASSUME \/ \A c \in Accounts : ~(balance'[c] > balance[c])
         \/ \A c \in Accounts : ~(balance'[c] < balance[c])
  PROVE  CompetitionConfinedStep
BY AccountFacts DEF CompetitionConfinedStep

LEMMA BalancesSame ==
  ASSUME CoinInv, UNCHANGED tokenVars
  PROVE  CoinInv' /\ CompetitionConfinedStep
<1>1. balance' = balance /\ supply' = supply /\ \A c \in Accounts : balance[c] \in Nat
  BY DEF CoinInv, tokenVars
<1>2. CoinInv'
  BY <1>1 DEF CoinInv
<1>3. \A c \in Accounts : ~(balance'[c] > balance[c])
  BY <1>1
<1> QED BY <1>2, <1>3, OneWayConfined

LEMMA AllowancesSame ==
  ASSUME AllowInv, UNCHANGED allowVars
  PROVE  AllowInv' /\ NoSpendingExpiredStep
BY DEF AllowInv, allowVars, NoSpendingExpiredStep

\* The market's books stay, and its tokens do not become fewer.
LEMMA BooksSame ==
  ASSUME CoinInv, BookInv, UNCHANGED <<hook, books>>, balance' \in [Accounts -> Nat],
         balance'[Market] >= balance[Market]
  PROVE  BookInv'
<1>1. balance[Market] \in Nat /\ balance'[Market] \in Nat
  BY AccountFacts DEF CoinInv
<1>2. books \in Nat /\ hook.amount \in Nat
  BY DEF BookInv
<1> QED BY <1>1, <1>2 DEF BookInv

LEMMA MiscSame == ASSUME MiscInv, UNCHANGED miscVars PROVE MiscInv'
BY DEF MiscInv, miscVars

------------------------------------------------------------------------------
(* One lemma for each operation.                                           *)

StepOK == TokenInv' /\ NoSpendingExpiredStep /\ CompetitionConfinedStep

LEMMA TransferStep ==
  ASSUME TokenInv, NEW sender \in Accounts, NEW to \in Accounts, NEW x \in Nat,
         Transfer(sender, to, x)
  PROVE  StepOK
<1>1. /\ Move(sender, to, x) /\ supply' = supply /\ hook = NoHook /\ hook' = hook
      /\ competition => Market \in {sender, to}
      /\ sender = Market => x <= books
      /\ books' = IF sender = Market THEN books - x ELSE books
  BY DEF Transfer, Idle, AssertTradingCompetition
<1>2. CoinInv /\ BookInv /\ AllowInv /\ MiscInv
  BY DEF TokenInv
<1>3. /\ CoinInv'
      /\ sender # to => balance'[to] = balance[to] + x
      /\ sender # to => balance'[sender] = balance[sender] - x
      /\ sender = to => balance' = balance
      /\ \A c \in Accounts \ {sender, to} : balance'[c] = balance[c]
      /\ \A c \in Accounts : balance[c] \in Nat
  BY <1>1, <1>2, MoveStep
<1>4. CompetitionConfinedStep
  BY <1>1, <1>2, MoveConfined
<1>5. AllowInv' /\ NoSpendingExpiredStep /\ MiscInv'
  <2>1. UNCHANGED allowVars /\ UNCHANGED miscVars
    BY DEF Transfer
  <2> QED BY <1>2, <2>1, AllowancesSame, MiscSame
<1>6. balance' \in [Accounts -> Nat] /\ Market \in Accounts
  BY <1>3, AccountFacts DEF CoinInv
<1>7. BookInv'
  <2>1. CASE sender = Market
    <3>1. balance'[Market] >= balance[Market] - x /\ balance[Market] \in Nat
      BY <1>3, <1>6, <2>1
    <3>2. books \in Nat /\ books <= balance[Market] /\ hook.amount = 0
      BY <1>1, <1>2 DEF BookInv, NoHook
    <3>3. books' = books - x /\ x <= books
      BY <1>1, <2>1
    <3>4. hook' \in [sender : Wallets \cup {None}, amount : Nat] /\ hook'.amount = 0
      BY <1>1, <1>2, <3>2 DEF BookInv
    <3>5. balance'[Market] \in Nat
      BY <1>6
    <3> QED BY <3>1, <3>2, <3>3, <3>4, <3>5 DEF BookInv
  <2>2. CASE sender # Market
    <3>1. balance'[Market] >= balance[Market]
      BY <1>3, <1>6, <2>2
    <3>2. UNCHANGED <<hook, books>>
      BY <1>1, <2>2
    <3> QED BY <1>2, <1>6, <3>1, <3>2, BooksSame
  <2> QED BY <2>1, <2>2
<1> QED BY <1>3, <1>4, <1>5, <1>7 DEF StepOK, TokenInv

\* Tokens that reach the market before the market is told of them.
LEMMA ArrivalBooked ==
  ASSUME CoinInv, BookInv, Idle, NEW from \in Wallets, NEW sender \in Wallets,
         NEW x \in Nat, Move(from, Market, x), supply' = supply, UNCHANGED books,
         hook' = [sender |-> sender, amount |-> x]
  PROVE  BookInv' /\ CoinInv'
<1>1. from \in Accounts /\ Market \in Accounts /\ from # Market
  BY AccountFacts
<1>2. /\ CoinInv'
      /\ balance'[Market] = balance[Market] + x /\ balance[Market] \in Nat
  BY <1>1, MoveStep
<1>3. books \in Nat /\ books <= balance[Market]
  BY <1>2 DEF BookInv, Idle, NoHook
<1> QED BY <1>2, <1>3 DEF BookInv

LEMMA SendStep ==
  ASSUME TokenInv, NEW sender \in Wallets, NEW x \in Nat, Send(sender, x)
  PROVE  StepOK
<1>1. /\ Move(sender, Market, x) /\ supply' = supply /\ Idle /\ books' = books
      /\ hook' = [sender |-> sender, amount |-> x]
  BY DEF Send
<1>2. CoinInv /\ BookInv /\ AllowInv /\ MiscInv
  BY DEF TokenInv
<1>3. BookInv' /\ CoinInv'
  BY <1>1, <1>2, ArrivalBooked
<1>4. CompetitionConfinedStep
  <2>1. sender \in Accounts /\ Market \in Accounts
    BY AccountFacts
  <2> QED BY <1>1, <1>2, <2>1, MoveConfined
<1>5. AllowInv' /\ NoSpendingExpiredStep /\ MiscInv'
  <2>1. UNCHANGED allowVars /\ UNCHANGED miscVars
    BY DEF Send
  <2> QED BY <1>2, <2>1, AllowancesSame, MiscSame
<1> QED BY <1>3, <1>4, <1>5 DEF StepOK, TokenInv

LEMMA SendFromStep ==
  ASSUME TokenInv, NEW sender \in Wallets, NEW owner \in Wallets, NEW x \in Nat,
         SendFrom(sender, owner, x)
  PROVE  StepOK
<1>1. /\ Move(owner, Market, x) /\ supply' = supply /\ Idle /\ books' = books
      /\ hook' = [sender |-> sender, amount |-> x] /\ Deduct(owner, sender, x)
      /\ UNCHANGED miscVars
  BY DEF SendFrom
<1>2. CoinInv /\ BookInv /\ AllowInv /\ MiscInv
  BY DEF TokenInv
<1>3. BookInv' /\ CoinInv'
  BY <1>1, <1>2, ArrivalBooked
<1>4. sender \in Accounts /\ owner \in Accounts /\ Market \in Accounts
  BY AccountFacts
<1>5. CompetitionConfinedStep
  BY <1>1, <1>2, <1>4, MoveConfined
<1>6. AllowInv' /\ NoSpendingExpiredStep
  BY <1>1, <1>2, <1>4, DeductStep DEF NoSpendingExpiredStep
<1>7. MiscInv'
  BY <1>1, <1>2, MiscSame
<1> QED BY <1>3, <1>5, <1>6, <1>7 DEF StepOK, TokenInv

LEMMA TransferFromStep ==
  ASSUME TokenInv, NEW sender \in Wallets, NEW owner \in Wallets, NEW to \in Accounts,
         NEW x \in Nat, TransferFrom(sender, owner, to, x)
  PROVE  StepOK
<1>1. /\ Move(owner, to, x) /\ supply' = supply /\ UNCHANGED <<hook, books>>
      /\ competition => Market \in {sender, to}
      /\ Deduct(owner, sender, x) /\ UNCHANGED miscVars
  BY DEF TransferFrom, AssertTradingCompetition
<1>2. CoinInv /\ BookInv /\ AllowInv /\ MiscInv
  BY DEF TokenInv
<1>3. /\ sender \in Accounts /\ owner \in Accounts /\ Market \in Accounts
      /\ sender # Market /\ owner # Market
  BY AccountFacts
<1>4. CompetitionConfinedStep
  <2>1. competition => Market \in {owner, to}
    BY <1>1, <1>3
  <2> QED BY <1>1, <1>2, <1>3, <2>1, MoveConfined
<1>5. /\ CoinInv'
      /\ owner # to => balance'[to] = balance[to] + x
      /\ owner = to => balance' = balance
      /\ \A c \in Accounts \ {owner, to} : balance'[c] = balance[c]
      /\ \A c \in Accounts : balance[c] \in Nat
  BY <1>1, <1>2, <1>3, MoveStep
<1>6. balance'[Market] >= balance[Market] /\ balance' \in [Accounts -> Nat]
  BY <1>3, <1>5 DEF CoinInv
<1>7. BookInv'
  BY <1>1, <1>2, <1>6, BooksSame
<1>8. AllowInv' /\ NoSpendingExpiredStep
  BY <1>1, <1>2, <1>3, DeductStep DEF NoSpendingExpiredStep
<1>9. MiscInv'
  BY <1>1, <1>2, MiscSame
<1> QED BY <1>4, <1>5, <1>7, <1>8, <1>9 DEF StepOK, TokenInv

LEMMA ReceiveStep ==
  ASSUME TokenInv, Receive
  PROVE  StepOK
<1>1. /\ books' = books + hook.amount /\ hook' = NoHook
      /\ UNCHANGED tokenVars /\ UNCHANGED allowVars /\ UNCHANGED miscVars
  BY DEF Receive
<1>2. CoinInv /\ BookInv /\ AllowInv /\ MiscInv
  BY DEF TokenInv
<1>3. CoinInv' /\ CompetitionConfinedStep
  BY <1>1, <1>2, BalancesSame
<1>4. AllowInv' /\ NoSpendingExpiredStep /\ MiscInv'
  BY <1>1, <1>2, AllowancesSame, MiscSame
<1>5. BookInv'
  <2>1. books \in Nat /\ hook.amount \in Nat /\ books + hook.amount <= balance[Market]
    BY <1>2 DEF BookInv
  <2>2. NoHook \in [sender : Wallets \cup {None}, amount : Nat] /\ NoHook.amount = 0
    BY DEF NoHook
  <2>3. balance' = balance
    BY <1>1 DEF tokenVars
  <2> QED BY <1>1, <2>1, <2>2, <2>3 DEF BookInv
<1> QED BY <1>3, <1>4, <1>5 DEF StepOK, TokenInv

\* Tokens are burned from a wallet.
LEMMA BurnedStep ==
  ASSUME CoinInv, BookInv, NEW owner \in Wallets, NEW x \in Nat, BurnTokens(owner, x),
         UNCHANGED <<hook, books>>
  PROVE  CoinInv' /\ BookInv' /\ CompetitionConfinedStep
<1> DEFINE v == balance[owner] - x
<1>1. owner \in Accounts /\ Market \in Accounts /\ owner # Market
  BY AccountFacts
<1>2. /\ balance \in [Accounts -> Nat] /\ x <= balance[owner] /\ x <= supply
      /\ supply \in Nat /\ supply = Total(balance, Accounts) /\ supply <= Cap
      /\ supply' = supply - x /\ balance' = [balance EXCEPT ![owner] = v]
      /\ balance[owner] \in Nat /\ v \in Nat
  BY <1>1 DEF CoinInv, BurnTokens
<1>3. v = balance[owner] - x
  OBVIOUS
<1> HIDE DEF v
<1>4. /\ balance' \in [Accounts -> Nat]
      /\ \A c \in Accounts : balance'[c] = IF c = owner THEN v ELSE balance[c]
      /\ Total(balance', Accounts) = Total(balance, Accounts) - balance[owner] + v
  BY <1>1, <1>2, BalanceSet
<1>5. supply' \in Nat /\ supply' = Total(balance', Accounts) /\ supply' <= Cap
  BY <1>2, <1>3, <1>4, AccountFacts
<1>6. CoinInv'
  BY <1>4, <1>5 DEF CoinInv
<1>7. balance'[Market] >= balance[Market]
  BY <1>1, <1>2, <1>4
<1>8. BookInv'
  BY <1>4, <1>7, BooksSame
<1>9. \A c \in Accounts : ~(balance'[c] > balance[c])
  BY <1>2, <1>3, <1>4
<1> QED BY <1>6, <1>8, <1>9, OneWayConfined

LEMMA BurnStep ==
  ASSUME TokenInv, NEW sender \in Wallets, NEW x \in Nat, Burn(sender, x)
  PROVE  StepOK
<1>1. /\ BurnTokens(sender, x) /\ UNCHANGED <<hook, books>>
      /\ UNCHANGED allowVars /\ UNCHANGED miscVars
  BY DEF Burn
<1>2. CoinInv /\ BookInv /\ AllowInv /\ MiscInv
  BY DEF TokenInv
<1>3. CoinInv' /\ BookInv' /\ CompetitionConfinedStep
  BY <1>1, <1>2, BurnedStep
<1>4. AllowInv' /\ NoSpendingExpiredStep /\ MiscInv'
  BY <1>1, <1>2, AllowancesSame, MiscSame
<1> QED BY <1>3, <1>4 DEF StepOK, TokenInv

LEMMA BurnFromStep ==
  ASSUME TokenInv, NEW sender \in Wallets, NEW owner \in Wallets, NEW x \in Nat,
         BurnFrom(sender, owner, x)
  PROVE  StepOK
<1>1. /\ BurnTokens(owner, x) /\ UNCHANGED <<hook, books>>
      /\ Deduct(owner, sender, x) /\ UNCHANGED miscVars
  BY DEF BurnFrom
<1>2. CoinInv /\ BookInv /\ AllowInv /\ MiscInv
  BY DEF TokenInv
<1>3. CoinInv' /\ BookInv' /\ CompetitionConfinedStep
  BY <1>1, <1>2, BurnedStep
<1>4. AllowInv' /\ NoSpendingExpiredStep
  BY <1>1, <1>2, AccountFacts, DeductStep DEF NoSpendingExpiredStep
<1>5. MiscInv'
  BY <1>1, <1>2, MiscSame
<1> QED BY <1>3, <1>4, <1>5 DEF StepOK, TokenInv

LEMMA MintStep ==
  ASSUME TokenInv, NEW sender \in Wallets, NEW to \in Accounts, NEW x \in Nat,
         Mint(sender, to, x)
  PROVE  StepOK
<1> DEFINE v == balance[to] + x
<1>1. CoinInv /\ BookInv /\ AllowInv /\ MiscInv
  BY DEF TokenInv
<1>2. /\ balance \in [Accounts -> Nat] /\ supply \in Nat
      /\ supply = Total(balance, Accounts) /\ supply' = supply + x /\ supply + x <= Cap
      /\ balance' = [balance EXCEPT ![to] = v] /\ balance[to] \in Nat /\ v \in Nat
      /\ UNCHANGED <<hook, books>> /\ UNCHANGED allowVars /\ UNCHANGED miscVars
  BY <1>1 DEF Mint, CoinInv
<1>3. v = balance[to] + x
  OBVIOUS
<1> HIDE DEF v
<1>4. /\ balance' \in [Accounts -> Nat]
      /\ \A c \in Accounts : balance'[c] = IF c = to THEN v ELSE balance[c]
      /\ Total(balance', Accounts) = Total(balance, Accounts) - balance[to] + v
  BY <1>2, BalanceSet
<1>5. supply' \in Nat /\ supply' = Total(balance', Accounts) /\ supply' <= Cap
  BY <1>2, <1>3, <1>4
<1>6. CoinInv'
  BY <1>4, <1>5 DEF CoinInv
<1>7. Market \in Accounts /\ \A c \in Accounts : balance'[c] >= balance[c]
  BY <1>2, <1>3, <1>4, AccountFacts
<1>8. BookInv'
  BY <1>1, <1>2, <1>4, <1>7, BooksSame
<1>9. CompetitionConfinedStep
  <2>1. \A c \in Accounts : ~(balance'[c] < balance[c])
    BY <1>2, <1>4, <1>7
  <2> QED BY <2>1, OneWayConfined
<1>10. AllowInv' /\ NoSpendingExpiredStep /\ MiscInv'
  BY <1>1, <1>2, AllowancesSame, MiscSame
<1> QED BY <1>6, <1>8, <1>9, <1>10 DEF StepOK, TokenInv

\* What every operation that moves no tokens and no hook leaves alone.
LEMMA TokensSame ==
  ASSUME TokenInv, UNCHANGED <<hook, books>>, UNCHANGED tokenVars, MiscInv', AllowInv',
         NoSpendingExpiredStep
  PROVE  StepOK
<1>1. CoinInv' /\ CompetitionConfinedStep
  BY BalancesSame DEF TokenInv
<1>2. BookInv'
  BY DEF TokenInv, BookInv, tokenVars
<1> QED BY <1>1, <1>2 DEF StepOK, TokenInv

LEMMA IncreaseStep ==
  ASSUME TokenInv, NEW owner \in Accounts, NEW spender \in Accounts, NEW x \in Nat,
         NEW expires \in Int, IncreaseAllowance(owner, spender, x, expires)
  PROVE  StepOK
<1> DEFINE e == Increased(allow[<<owner, spender>>], x, expires)
           g == granted[<<owner, spender>>] + x
           u == spent[<<owner, spender>>]
<1>1. AllowInv /\ MiscInv
  BY DEF TokenInv
<1>2. /\ allow[<<owner, spender>>] \in Entries /\ granted[<<owner, spender>>] \in Nat
      /\ spent[<<owner, spender>>] \in Nat /\ allow[<<owner, spender>>].amount \in Nat
      /\ bySpender[<<spender, owner>>] = allow[<<owner, spender>>]
      /\ allow[<<owner, spender>>].amount + spent[<<owner, spender>>] <= granted[<<owner, spender>>]
  BY <1>1, PairTypes DEF AllowInv
<1>3. e \in Entries /\ e.amount = allow[<<owner, spender>>].amount + x
  BY <1>2, EntryIncreased
<1>4. /\ allow' = WithPair(allow, owner, spender, e)
      /\ bySpender' = WithPair(bySpender, spender, owner, e)
      /\ granted' = WithPair(granted, owner, spender, g)
      /\ spent' = spent
  BY <1>2 DEF IncreaseAllowance, WithPair
<1>5. spent' = WithPair(spent, owner, spender, u)
  <2>1. spent \in [Pairs -> Nat]
    BY <1>1 DEF AllowInv
  <2> QED BY <1>4, <2>1, PairSame
<1> HIDE DEF e
<1>6. e.amount + u <= g /\ u \in Nat /\ g \in Nat
  BY <1>2, <1>3
<1> HIDE DEF u, g
<1>7. AllowInv'
  BY <1>1, <1>3, <1>4, <1>5, <1>6, AllowStep
<1>8. UNCHANGED <<hook, books>> /\ UNCHANGED tokenVars /\ UNCHANGED miscVars
  BY DEF IncreaseAllowance
<1>9. NoSpendingExpiredStep
  BY <1>4 DEF NoSpendingExpiredStep
<1>10. MiscInv'
  BY <1>1, <1>8, MiscSame
<1> QED BY <1>7, <1>8, <1>9, <1>10, TokensSame

LEMMA DecreaseStep ==
  ASSUME TokenInv, NEW owner \in Accounts, NEW spender \in Accounts, NEW x \in Nat,
         NEW expires \in Int, DecreaseAllowance(owner, spender, x, expires)
  PROVE  StepOK
<1> DEFINE e == Decreased(allow[<<owner, spender>>], x, expires)
           g == granted[<<owner, spender>>]
           u == spent[<<owner, spender>>]
<1>1. AllowInv /\ MiscInv
  BY DEF TokenInv
<1>2. /\ allow[<<owner, spender>>] \in Entries /\ g \in Nat /\ u \in Nat
      /\ allow[<<owner, spender>>].amount \in Nat
      /\ allow[<<owner, spender>>].amount + u <= g
  BY <1>1, PairTypes DEF AllowInv
<1>3. e \in Entries /\ e.amount <= allow[<<owner, spender>>].amount
  BY <1>2, EntryDecreased
<1>4. /\ allow' = WithPair(allow, owner, spender, e)
      /\ bySpender' = WithPair(bySpender, spender, owner, e)
      /\ granted' = granted /\ spent' = spent
  BY DEF DecreaseAllowance, WithPair
<1>5. spent' = WithPair(spent, owner, spender, u)
  <2>1. spent \in [Pairs -> Nat]
    BY <1>1 DEF AllowInv
  <2> QED BY <1>4, <2>1, PairSame
<1>6. granted' = WithPair(granted, owner, spender, g)
  <2>1. granted \in [Pairs -> Nat]
    BY <1>1 DEF AllowInv
  <2> QED BY <1>4, <2>1, PairSame
<1> HIDE DEF e, u, g
<1>7. e.amount \in Nat /\ e.amount + u <= g
  BY <1>2, <1>3 DEF Entries
<1>8. AllowInv'
  BY <1>1, <1>2, <1>3, <1>4, <1>5, <1>6, <1>7, AllowStep
<1>9. UNCHANGED <<hook, books>> /\ UNCHANGED tokenVars /\ UNCHANGED miscVars
  BY DEF DecreaseAllowance
<1>10. NoSpendingExpiredStep
  BY <1>4 DEF NoSpendingExpiredStep
<1>11. MiscInv'
  BY <1>1, <1>9, MiscSame
<1> QED BY <1>8, <1>9, <1>10, <1>11, TokensSame

\* The minter, the market, the marketing record and the clock.
LEMMA MiscStep ==
  ASSUME TokenInv, UNCHANGED <<hook, books>>, UNCHANGED tokenVars, UNCHANGED allowVars,
         MiscInv'
  PROVE  StepOK
<1>1. AllowInv' /\ NoSpendingExpiredStep
  BY AllowancesSame DEF TokenInv
<1> QED BY <1>1, TokensSame

------------------------------------------------------------------------------
(* The specification.                                                      *)

LEMMA TokenInit == Init => TokenInv
<1> SUFFICES ASSUME Init PROVE TokenInv
  OBVIOUS
<1>1. balance \in [Accounts -> Nat] /\ balance[Market] = 0
  BY DEF Init
<1>2. CoinInv
  <2>1. IsFiniteSet(Accounts) /\ \A c \in Accounts : balance[c] \in Nat
    BY <1>1, AccountFacts
  <2>2. Total(balance, Accounts) \in Nat
    BY <2>1, TotalType
  <2> QED BY <1>1, <2>2 DEF Init, CoinInv
<1>3. BookInv
  BY <1>1 DEF Init, BookInv, NoHook
<1>4. MiscInv
  <2>1. MaxTime \in Nat
    BY AccountFacts
  <2>2. minter \in Wallets /\ competition = FALSE /\ now = 0
    BY DEF Init
  <2>3. competition \in BOOLEAN
    BY <2>2, Zenon
  <2>4. now \in 0..MaxTime
    BY <2>1, <2>2
  <2> QED BY <2>2, <2>3, <2>4, Zenon DEF MiscInv
<1>5. AllowInv
  <2>1. NoEntry \in Entries /\ NoEntry.amount = 0
    BY DEF NoEntry, Entries
  <2>2. \A a, s \in Accounts : <<a, s>> \in Pairs
    BY DEF Pairs
  <2> HIDE DEF NoEntry
  <2>3. /\ allow = [p \in Pairs |-> NoEntry] /\ bySpender = [p \in Pairs |-> NoEntry]
        /\ granted = [p \in Pairs |-> 0] /\ spent = [p \in Pairs |-> 0]
    BY DEF Init
  <2>4. /\ allow \in [Pairs -> Entries] /\ bySpender \in [Pairs -> Entries]
        /\ granted \in [Pairs -> Nat] /\ spent \in [Pairs -> Nat]
    BY <2>1, <2>3
  <2>5. ASSUME NEW a \in Accounts, NEW s \in Accounts
        PROVE  /\ allow[<<a, s>>] = bySpender[<<s, a>>]
               /\ allow[<<a, s>>].amount + spent[<<a, s>>] <= granted[<<a, s>>]
    <3>1. /\ allow[<<a, s>>] = NoEntry /\ bySpender[<<s, a>>] = NoEntry
          /\ spent[<<a, s>>] = 0 /\ granted[<<a, s>>] = 0
      BY <2>2, <2>3
    <3> QED BY <2>1, <3>1
  <2> QED BY <2>4, <2>5 DEF AllowInv
<1> QED BY <1>2, <1>3, <1>4, <1>5 DEF TokenInv

LEMMA TokenNext ==
  ASSUME TokenInv, [Next]_vars
  PROVE  StepOK
<1>0. /\ \A x \in Amounts : x \in Nat
      /\ \A w \in Wallets : w \in Accounts
      /\ \A t \in {Unchanged, Never} \union 1..MaxTime : t \in Int
      /\ MaxTime \in Nat
  BY AccountFacts DEF Unchanged, Never
<1>1. ASSUME NEW x \in Amounts, NEW to \in Accounts, NEW sender \in Accounts,
             Transfer(sender, to, x)
      PROVE  StepOK
  BY <1>0, <1>1, TransferStep
<1>2. ASSUME NEW x \in Amounts, NEW to \in Accounts, NEW sender \in Wallets,
             Mint(sender, to, x)
      PROVE  StepOK
  BY <1>0, <1>2, MintStep
<1>3. ASSUME NEW x \in Amounts, NEW to \in Accounts, NEW sender \in Wallets,
             NEW owner \in Wallets, TransferFrom(sender, owner, to, x)
      PROVE  StepOK
  BY <1>0, <1>3, TransferFromStep
<1>4. ASSUME NEW x \in Amounts, NEW sender \in Wallets,
             Send(sender, x) \/ Burn(sender, x)
      PROVE  StepOK
  BY <1>0, <1>4, SendStep, BurnStep
<1>5. ASSUME NEW x \in Amounts, NEW sender \in Wallets, NEW owner \in Wallets,
             SendFrom(sender, owner, x) \/ BurnFrom(sender, owner, x)
      PROVE  StepOK
  BY <1>0, <1>5, SendFromStep, BurnFromStep
<1>6. ASSUME NEW x \in Amounts, NEW sender \in Wallets, NEW spender \in Accounts,
             NEW expires \in {Unchanged, Never} \union 1..MaxTime,
             \/ IncreaseAllowance(sender, spender, x, expires)
             \/ DecreaseAllowance(sender, spender, x, expires)
      PROVE  StepOK
  <2>1. x \in Nat /\ sender \in Accounts /\ expires \in Int
    BY <1>0
  <2> QED BY <1>6, <2>1, IncreaseStep, DecreaseStep
<1>7. ASSUME NEW sender \in Wallets, NEW new \in Wallets, UpdateMinter(sender, new)
      PROVE  StepOK
  <2>1. /\ MiscInv' /\ UNCHANGED <<hook, books>> /\ UNCHANGED tokenVars
        /\ UNCHANGED allowVars
    BY <1>7 DEF UpdateMinter, TokenInv, MiscInv
  <2> QED BY <2>1, MiscStep
<1>8. ASSUME NEW sender \in Wallets, SetMarket(sender) PROVE StepOK
  <2>1. /\ MiscInv' /\ UNCHANGED <<hook, books>> /\ UNCHANGED tokenVars
        /\ UNCHANGED allowVars
    BY <1>8 DEF SetMarket, TokenInv, MiscInv
  <2> QED BY <2>1, MiscStep
<1>9. ASSUME NEW sender \in Wallets, UploadLogo(sender) PROVE StepOK
  <2>1. /\ MiscInv' /\ UNCHANGED <<hook, books>> /\ UNCHANGED tokenVars
        /\ UNCHANGED allowVars
    BY <1>9 DEF UploadLogo, TokenInv, MiscInv
  <2> QED BY <2>1, MiscStep
<1>10. ASSUME NEW sender \in Wallets, NEW texts, NEW account,
              UpdateMarketing(sender, texts, account)
       PROVE  StepOK
  <2>1. /\ MiscInv' /\ UNCHANGED <<hook, books>> /\ UNCHANGED tokenVars
        /\ UNCHANGED allowVars
    BY <1>10 DEF UpdateMarketing, TokenInv, MiscInv
  <2> QED BY <2>1, MiscStep
<1>11. ASSUME Receive PROVE StepOK
  BY <1>11, ReceiveStep
<1>12. ASSUME Tick PROVE StepOK
  <2>1. MiscInv'
    BY <1>0, <1>12 DEF Tick, TokenInv, MiscInv
  <2>2. UNCHANGED <<hook, books>> /\ UNCHANGED tokenVars /\ UNCHANGED allowVars
    BY <1>12 DEF Tick
  <2> QED BY <2>1, <2>2, MiscStep
<1>13. ASSUME UNCHANGED vars PROVE StepOK
  <2>1. /\ UNCHANGED <<hook, books>> /\ UNCHANGED tokenVars /\ UNCHANGED allowVars
        /\ UNCHANGED miscVars
    BY <1>13 DEF vars, tokenVars, allowVars, miscVars
  <2>2. MiscInv'
    BY <2>1, MiscSame DEF TokenInv
  <2> QED BY <2>1, <2>2, MiscStep
<1> QED
  BY <1>1, <1>2, <1>3, <1>4, <1>5, <1>6, <1>7, <1>8, <1>9, <1>10, <1>11, <1>12, <1>13
  DEF Next

\* The parts say what the properties say.
LEMMA InvGivesKept == ASSUME TokenInv PROVE AllowancesKept
<1>1. TypeOK
  BY DEF TokenInv, AllowInv, CoinInv, BookInv, MiscInv, TypeOK
<1>2. SupplyAddsUp /\ ReceiveBacked
  BY DEF TokenInv, CoinInv, BookInv, SupplyAddsUp, ReceiveBacked
<1>3. ASSUME NEW p \in Pairs
      PROVE  /\ OwnerAllowances(p[1])[p[2]] = SpenderAllowances(p[2])[p[1]]
             /\ allow[p].amount + spent[p] <= granted[p]
  <2>1. p[1] \in Accounts /\ p[2] \in Accounts /\ p = <<p[1], p[2]>>
    BY DEF Pairs
  <2>2. /\ allow[<<p[1], p[2]>>] = bySpender[<<p[2], p[1]>>]
        /\ allow[<<p[1], p[2]>>].amount + spent[<<p[1], p[2]>>] <= granted[<<p[1], p[2]>>]
    BY <2>1 DEF TokenInv, AllowInv
  <2>3. OwnerAllowances(p[1])[p[2]] = SpenderAllowances(p[2])[p[1]]
    BY <2>1, <2>2 DEF OwnerAllowances, SpenderAllowances
  <2> QED BY <2>1, <2>2, <2>3
<1> QED
  BY <1>1, <1>2, <1>3 DEF AllowancesKept, AllowancesMirrored, SpentWithinGranted

LEMMA TokenInvariant == Spec => []TokenInv
<1>1. TokenInv /\ [Next]_vars => TokenInv'
  BY TokenNext DEF StepOK
<1> QED BY <1>1, TokenInit, PTL DEF Spec

\* In every behaviour, of any number of wallets, with any cap and any grants:
\* balances add up to the supply, the two maps of allowances agree, no spender
\* moves more than was granted, and the market holds what a Receive told it.
THEOREM TokenKept == Spec => []AllowancesKept
<1>1. TokenInv => AllowancesKept
  BY InvGivesKept
<1> QED BY <1>1, TokenInvariant, PTL

\* No spender uses an allowance at or after its expiration.
THEOREM ExpiredUnspent == Spec => NoSpendingExpired
<1>1. TokenInv /\ [Next]_vars => [NoSpendingExpiredStep]_vars
  BY TokenNext DEF StepOK
<1> QED BY <1>1, TokenInvariant, PTL DEF Spec, NoSpendingExpired

\* While a trading competition runs, no step moves tokens from one wallet to
\* another: neither transfers nor sends, by the owner or with an allowance.
THEOREM CompetitionIsConfined == Spec => CompetitionConfined
<1>1. TokenInv /\ [Next]_vars => [CompetitionConfinedStep]_vars
  BY TokenNext DEF StepOK
<1> QED BY <1>1, TokenInvariant, PTL DEF Spec, CompetitionConfined

=============================================================================
