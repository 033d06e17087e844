------------------------------ MODULE Factory ------------------------------
(***************************************************************************)
(* The factory: the registry of markets and of the contracts around them,  *)
(* the roles, and the shutdown switches the markets obey.                  *)
(*                                                                         *)
(* Creating a market is one transaction of several steps.  The factory     *)
(* asks the chain to instantiate the market; the reply registers it and    *)
(* asks for its three token proxies; each further reply registers one.     *)
(* The chain runs the submessages depth first, and a submessage that fails *)
(* undoes the whole transaction: `saved` is what it then returns to.       *)
(*                                                                         *)
(* A market is modelled by what the switches decide: opens that wait in    *)
(* its deferred queue, its open positions and its DAO fees.                *)
(***************************************************************************)
EXTENDS Integers, Sequences, FiniteSets, SequencesExt

CONSTANTS
  Markets,      \* the market ids an owner may add
  Wallets,      \* addresses that send messages and hold roles
  ImpactLists,  \* the lists of impacts a Shutdown names; {} stands for all
  MaxCopies,    \* bound: copy trading contracts
  MaxTrades     \* bound: opens that wait in, or positions of, a market

None == "none"
Chain == "chain"   \* the chain's governance, which calls sudo

MarketsNotEmpty == Markets # {} /\ Wallets # {}
NamesDistinct == {None, Chain} \cap Wallets = {}
BoundsNat == MaxCopies \in Nat /\ MaxTrades \in Nat
ConstantsOK == MarketsNotEmpty /\ NamesDistinct /\ BoundsNat

VARIABLES
  roles,     \* owner (or None), migration admin, DAO, kill switch, wind down
  codes,     \* the optional code ids that are stored
  reg,       \* the registry and the three slots a reply reads
  created,   \* every contract the chain has instantiated, by address
  pending,   \* submessages the running transaction still has to run
  saved,     \* registry and contracts when the running transaction began
  disabled,  \* SHUTDOWNS: for each market the impacts switched off
  killUsed,  \* history: markets the kill switch wallet ever acted on
  trades,    \* for each market: opens and closes that wait, positions, DAO fees
  transfer   \* the answer the last TransferAllDaoFees got

vars == <<roles, codes, reg, created, pending, saved, disabled, killUsed,
          trades, transfer>>
txVars == <<reg, created, pending, saved>>
marketVars == <<disabled, killUsed, trades, transfer>>

(***************************************************************************)
(* Roles and permissions.                                                  *)
(***************************************************************************)
Roles == {"owner", "admin", "dao", "kill", "wind"}
OptionalCodes == {"CopyTrading", "CounterTrade"}

\* A message that requires the owner is taken from the owner by execute, and
\* from the chain by sudo once there is no owner.
OwnerSays(by) ==
  \/ by \in Wallets /\ roles["owner"] = by
  \/ by = Chain /\ roles["owner"] = None

Idle == pending = <<>>

Init ==
  /\ roles \in [Roles -> Wallets]
  /\ codes \in SUBSET OptionalCodes
  /\ reg = [market |-> [m \in Markets |-> 0], position |-> [m \in Markets |-> 0],
            lp |-> [m \in Markets |-> 0], xlp |-> [m \in Markets |-> 0],
            counter |-> [m \in Markets |-> 0],
            copyIds |-> {}, copies |-> <<>>,
            types |-> {<<1, "Factory">>},
            slotMarket |-> None, slotCopy |-> None, slotCounter |-> None]
  /\ created = <<[code |-> "Factory", for |-> None]>>
  /\ pending = <<>>
  /\ saved = <<>>
  /\ disabled = [m \in Markets |-> {}]
  /\ killUsed = {}
  /\ trades = [m \in Markets |-> [opens |-> 0, closes |-> 0, open |-> 0, fees |-> 0]]
  /\ transfer = None

SetRole(by, role, w) ==
  /\ Idle /\ OwnerSays(by)
  /\ roles' = [roles EXCEPT ![role] = w]
  /\ UNCHANGED <<codes, txVars, marketVars>>

RemoveOwner(by) ==
  /\ Idle /\ OwnerSays(by)
  /\ roles' = [roles EXCEPT !["owner"] = None]
  /\ UNCHANGED <<codes, txVars, marketVars>>

SetCodeId(by, code) ==
  /\ Idle /\ OwnerSays(by)
  /\ codes' = codes \union {code}
  /\ UNCHANGED <<roles, txVars, marketVars>>

(***************************************************************************)
(* Instantiation and replies.                                              *)
(***************************************************************************)
Registered == {m \in Markets : reg.market[m] # 0}

Ask(code, for) == [code |-> code, for |-> for]

\* The first step of a transaction that instantiates contracts.
Begin(newReg, msgs) ==
  /\ saved' = <<reg, created>>
  /\ reg' = newReg
  /\ pending' = msgs
  /\ UNCHANGED <<roles, codes, created, marketVars>>

AddMarket(by, m) ==
  /\ Idle /\ OwnerSays(by)
  /\ m \notin Registered
  /\ Begin([reg EXCEPT !.slotMarket = m], <<Ask("Market", m)>>)

AddCounterTradeUnchecked(m) ==
  /\ Idle
  /\ m \in Registered
  /\ "CounterTrade" \in codes
  /\ Begin([reg EXCEPT !.slotCounter = m], <<Ask("CounterTrade", m)>>)

AddCounterTrade(m) ==
  /\ Idle
  /\ m \in Registered
  /\ reg.counter[m] = 0
  /\ "CounterTrade" \in codes
  /\ Begin([reg EXCEPT !.slotCounter = m], <<Ask("CounterTrade", m)>>)

AddCopyTrading(leader) ==
  /\ Idle
  /\ Len(reg.copies) < MaxCopies
  /\ "CopyTrading" \in codes
  /\ Begin([reg EXCEPT !.slotCopy = leader], <<Ask("CopyTrading", leader)>>)

TypeOfCode(code) ==
  IF code \in {"Lp", "Xlp"} THEN "LiquidityToken"
  ELSE IF code = "Position" THEN "PositionToken" ELSE code

StoreNewCopyTradingSame(r, leader, addr) ==
  [r EXCEPT !.copyIds = @ \union {<<leader, addr, 0>>},
            !.copies = <<[leader |-> leader, addr |-> addr]>>]

\* The index is the number of contracts stored so far.
StoreNewCopyTrading(r, leader, addr) ==
  [r EXCEPT !.copyIds = @ \union {<<leader, addr, Len(r.copies)>>},
            !.copies = Append(@, [leader |-> leader, addr |-> addr])]

\* What the reply to an instantiation stores: the market of a proxy is the one
\* the slot holds, not one the reply carries.
Store(code, addr) ==
  LET m == reg.slotMarket
      r == [reg EXCEPT !.types = @ \union {<<addr, TypeOfCode(code)>>}]
  IN CASE code = "Market"       -> [r EXCEPT !.market[m] = addr]
       [] code = "Position"     -> [r EXCEPT !.position[m] = addr]
       [] code = "Lp"           -> [r EXCEPT !.lp[m] = addr]
       [] code = "Xlp"          -> [r EXCEPT !.xlp[m] = addr]
       [] code = "CopyTrading"  -> StoreNewCopyTrading(r, reg.slotCopy, addr)
       [] code = "CounterTrade" -> [r EXCEPT !.counter[reg.slotCounter] = addr]

FollowUpsNoXlp(code) ==
  IF code # "Market" THEN <<>>
  ELSE <<Ask("Position", reg.slotMarket), Ask("Lp", reg.slotMarket)>>

\* What the reply asks for next: the proxies of the new market.
FollowUps(code) ==
  IF code # "Market" THEN <<>>
  ELSE <<Ask("Position", reg.slotMarket), Ask("Lp", reg.slotMarket),
         Ask("Xlp", reg.slotMarket)>>

\* save_liquidity_token_addr refuses a second proxy.
ReplyFails(code) ==
  \/ code = "Lp" /\ reg.lp[reg.slotMarket] # 0
  \/ code = "Xlp" /\ reg.xlp[reg.slotMarket] # 0

\* The chain instantiates the next contract at a new address and calls reply.
Reply ==
  /\ pending # <<>>
  /\ LET sub == Head(pending)
         addr == Len(created) + 1
     IN /\ ~ReplyFails(sub.code)
        /\ created' = Append(created, sub)
        /\ reg' = Store(sub.code, addr)
        /\ pending' = FollowUps(sub.code) \o Tail(pending)
  /\ saved' = IF pending' = <<>> THEN <<>> ELSE saved
  /\ UNCHANGED <<roles, codes, marketVars>>

\* An instantiation or its reply fails: the transaction leaves no trace.
Revert ==
  /\ pending # <<>>
  /\ reg' = saved[1]
  /\ created' = saved[2]
  /\ pending' = <<>>
  /\ saved' = <<>>
  /\ UNCHANGED <<roles, codes, marketVars>>

(***************************************************************************)
(* Shutdown switches.                                                      *)
(***************************************************************************)
Impacts == {"NewTrades", "ClosePositions", "OwnerActions", "DepositLiquidity",
            "WithdrawLiquidity", "Staking", "Unstaking", "TransferPositions",
            "TransferLp", "SetPrice", "TransferDaoFees", "Crank",
            "SetManualPrice"}

CanPerformAny(wallet, impact) == TRUE

CanPerform(wallet, impact) ==
  wallet = "KillSwitch" \/ impact \in {"NewTrades", "DepositLiquidity", "Staking"}

\* The impact that gates each message of a market; the ones that are missing,
\* Receive, CloseAllPositions and PerformDeferredExec, are gated by none.
GateOf ==
  [Owner |-> "OwnerActions", OpenPosition |-> "NewTrades",
   UpdatePosition |-> "NewTrades", PlaceLimitOrder |-> "NewTrades",
   ClosePosition |-> "ClosePositions", CancelLimitOrder |-> "ClosePositions",
   DepositLiquidity |-> "DepositLiquidity", ReinvestYield |-> "DepositLiquidity",
   WithdrawLiquidity |-> "WithdrawLiquidity", ClaimYield |-> "WithdrawLiquidity",
   StakeLp |-> "Staking", UnstakeXlp |-> "Unstaking",
   StopUnstakingXlp |-> "Unstaking", CollectUnstakedLp |-> "Unstaking",
   NftProxy |-> "TransferPositions", LiquidityTokenProxy |-> "TransferLp",
   TransferDaoFees |-> "TransferDaoFees", SetManualPrice |-> "SetManualPrice",
   Crank |-> "Crank", ProvideCrankFunds |-> "Crank"]

EnsureNotShutDown(m, msg) == GateOf[msg] \notin disabled[m]

\* The kill switch wins when one wallet holds both roles.
ShutdownWallet(w) == IF w = roles["kill"] THEN "KillSwitch" ELSE "WindDown"

\* An impact that already is as asked needs no permission; one that may not be
\* changed makes the whole message fail.
Shutdown(w, markets, impacts, effect) ==
  LET ms == IF markets = {} THEN Registered ELSE markets
      is == IF impacts = {} THEN Impacts ELSE impacts
      changed(m) == IF effect = "Disable" THEN is \ disabled[m]
                    ELSE is \cap disabled[m]
  IN /\ Idle
     /\ w \in {roles["kill"], roles["wind"]}
     /\ ms \subseteq Registered
     /\ \A m \in ms : \A i \in changed(m) : CanPerform(ShutdownWallet(w), i)
     /\ disabled' = [m \in Markets |->
          IF m \notin ms THEN disabled[m]
          ELSE IF effect = "Disable" THEN disabled[m] \union is
          ELSE disabled[m] \ is]
     /\ killUsed' = IF ShutdownWallet(w) = "KillSwitch" THEN killUsed \union ms
                    ELSE killUsed
     /\ UNCHANGED <<roles, codes, txVars, trades, transfer>>

(***************************************************************************)
(* The markets, as far as the switches and the DAO fees go.                *)
(***************************************************************************)
OpenPosition(m) ==
  /\ Idle /\ m \in Registered
  /\ EnsureNotShutDown(m, "OpenPosition")
  /\ trades[m].opens + trades[m].open < MaxTrades
  /\ trades' = [trades EXCEPT ![m].opens = @ + 1]
  /\ UNCHANGED <<roles, codes, txVars, disabled, killUsed, transfer>>

ClosePosition(m) ==
  /\ Idle /\ m \in Registered
  /\ EnsureNotShutDown(m, "ClosePosition")
  /\ trades[m].closes < trades[m].open
  /\ trades' = [trades EXCEPT ![m].closes = @ + 1]
  /\ UNCHANGED <<roles, codes, txVars, disabled, killUsed, transfer>>

CrankAgain(m) ==
  /\ Idle /\ m \in Registered
  /\ EnsureNotShutDown(m, "Crank")
  /\ \/ trades[m].opens > 0 /\ trades' = [trades EXCEPT ![m].open = @ + 1]
     \/ trades[m].closes > 0 /\ trades' = [trades EXCEPT ![m].open = @ - 1]
  /\ UNCHANGED <<roles, codes, txVars, disabled, killUsed, transfer>>

\* The crank runs what waits with PerformDeferredExec, a message of the market
\* to itself: a position opens and pays its fees, or closes.
Crank(m) ==
  /\ Idle /\ m \in Registered
  /\ EnsureNotShutDown(m, "Crank")
  /\ \/ /\ trades[m].opens > 0
        /\ trades' = [trades EXCEPT ![m].opens = @ - 1, ![m].open = @ + 1,
                                    ![m].fees = 1]
     \/ /\ trades[m].closes > 0
        /\ trades' = [trades EXCEPT ![m].closes = @ - 1, ![m].open = @ - 1]
  /\ UNCHANGED <<roles, codes, txVars, disabled, killUsed, transfer>>

CanTransferDaoFees(m) ==
  EnsureNotShutDown(m, "TransferDaoFees") /\ trades[m].fees > 0

TransferDaoFees(m) ==
  /\ Idle /\ m \in Registered
  /\ CanTransferDaoFees(m)
  /\ trades' = [trades EXCEPT ![m].fees = 0]
  /\ UNCHANGED <<roles, codes, txVars, disabled, killUsed, transfer>>

\* One submessage for each market, without a reply: the first market that
\* refuses fails the transaction.
TransferAllDaoFees(by) ==
  /\ Idle /\ OwnerSays(by)
  /\ IF \A m \in Registered : CanTransferDaoFees(m)
     THEN /\ trades' = [m \in Markets |->
                          IF m \in Registered THEN [trades[m] EXCEPT !.fees = 0]
                          ELSE trades[m]]
          /\ transfer' = "ok"
     ELSE transfer' = "failed" /\ UNCHANGED trades
  /\ UNCHANGED <<roles, codes, txVars, disabled, killUsed>>

Next ==
  \/ \E by \in Wallets \union {Chain} :
       \/ \E role \in Roles, w \in Wallets : SetRole(by, role, w)
       \/ \E code \in OptionalCodes : SetCodeId(by, code)
       \/ \E m \in Markets : AddMarket(by, m)
       \/ RemoveOwner(by)
       \/ TransferAllDaoFees(by)
  \/ \E w \in Wallets : AddCopyTrading(w)
  \/ Reply
  \/ Revert
  \/ \E w \in Wallets, ms \in SUBSET Markets, is \in ImpactLists,
        effect \in {"Disable", "Enable"} : Shutdown(w, ms, is, effect)
  \/ \E m \in Markets :
       \/ AddCounterTrade(m)
       \/ OpenPosition(m)
       \/ Crank(m)
       \/ ClosePosition(m)
       \/ TransferDaoFees(m)

Spec == Init /\ [][Next]_vars

(***************************************************************************)
(* Properties.                                                             *)
(***************************************************************************)
Addrs == 0..(1 + 5 * Cardinality(Markets) + MaxCopies)

\* The types of the factory's roles, registry, switches and markets.
TypeOK ==
  /\ roles \in [Roles -> Wallets \union {None}]
  /\ \A role \in Roles \ {"owner"} : roles[role] # None
  /\ codes \subseteq OptionalCodes
  /\ \A f \in {"market", "position", "lp", "xlp", "counter"} :
       reg[f] \in [Markets -> Addrs]
  /\ disabled \in [Markets -> SUBSET Impacts]
  /\ trades \in [Markets -> [opens : 0..MaxTrades, closes : 0..MaxTrades,
                             open : 0..MaxTrades, fees : 0..1]]

Holds(addr, code, for) ==
  /\ addr \in DOMAIN created
  /\ created[addr] = Ask(code, for)
  /\ <<addr, TypeOfCode(code)>> \in reg.types

\* Between transactions a market the factory lists has its three proxies, each
\* the contract that was instantiated for this market and in this role, and
\* every contract the factory instantiated is known to AddrIsContract with one
\* type: whatever step of the creation failed, no half of a market remains.
RegistryComplete ==
  Idle =>
    /\ \A m \in Registered :
         /\ Holds(reg.market[m], "Market", m)
         /\ Holds(reg.position[m], "Position", m)
         /\ Holds(reg.lp[m], "Lp", m)
         /\ Holds(reg.xlp[m], "Xlp", m)
    /\ reg.types = {<<a, TypeOfCode(created[a].code)>> : a \in DOMAIN created}

\* A market has at most one counter trade contract, and it is the one the
\* factory lists.
OneCounterTrade ==
  Idle => \A a \in DOMAIN created :
    created[a].code = "CounterTrade" => reg.counter[created[a].for] = a

\* The pages of CopyTrading, which go by index, list each copy trading contract
\* once with the leader that asked for it, and the index of a leader's contract
\* leads back to it.
CopyTradingListed ==
  Idle =>
    /\ {a \in DOMAIN created : created[a].code = "CopyTrading"}
       = {reg.copies[i].addr : i \in DOMAIN reg.copies}
    /\ reg.copyIds = {<<reg.copies[i].leader, reg.copies[i].addr, i - 1>> :
                        i \in DOMAIN reg.copies}
    /\ \A i \in DOMAIN reg.copies :
         Holds(reg.copies[i].addr, "CopyTrading", reg.copies[i].leader)

\* The messages by which traders and providers get their funds out.
ExitMsgs == {"ClosePosition", "CancelLimitOrder", "WithdrawLiquidity",
             "ClaimYield", "UnstakeXlp", "CollectUnstakedLp", "Crank"}

\* Whatever the wind down wallet asks for, and however the roles move, a market
\* the kill switch never touched lets funds out.
WindDownLeavesExits ==
  \A m \in Markets \ killUsed : \A msg \in ExitMsgs : EnsureNotShutDown(m, msg)

\* What ShutdownImpact::NewTrades says: with new trades switched off no
\* position opens.
NoNewTrades ==
  [][\A m \in Markets :
       trades'[m].open > trades[m].open => "NewTrades" \notin disabled[m]]_vars

\* What TransferAllDaoFees says: it fails only when no market has fees to give.
AllDaoFees ==
  [][transfer' = "failed" /\ transfer # "failed" =>
       \A m \in Registered : ~CanTransferDaoFees(m)]_vars
=============================================================================
