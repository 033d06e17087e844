------------------------------ MODULE MCTokens -------------------------------
(* Registries and tokens: the factory, referrals, the CW20 token, the       *)
(* liquidity token proxy, the position NFTs, the faucet and the tracker.    *)
(* The parts share no state; the initial state chooses the one that runs.   *)
(* The CW20 token is the extended module itself, with the constants of the  *)
(* configuration file; the others are instances, with their constants here. *)
EXTENDS Cw20

CONSTANTS
  Holder,    \* one of the wallets
  Markets, FirstMarket

VARIABLES
  part,   \* the part that runs
  factoryRoles, factoryCodes, factoryReg, factoryCreated, factoryPending,
  factorySaved, factoryDisabled, factoryKillUsed, factoryTrades, factoryTransfer,
  refReferrer, refReverse, refCount, refBoard, refList, refRanks,
  lptBal, lptCooldown, lptAllow, lptBySpender, lptCalls, lptSaved, lptSigner,
  lptBooks, lptGranted, lptMoved, lptNow,
  nftOwner, nftUsed, nftTokenIds, nftOwnerIds, nftCount, nftApprovals, nftOperators,
  nftPending, nftEnabled, nftRefused, nftMover, nftNow,
  tapAdmins, tapLimit, tapAllowance, tapInfo, tapAmount, tapLastTap, tapTapped,
  tapHistory, tapGas, tapTotal, tapGot, tapTwice, tapTaps, tapNow,
  trackAdmins, trackById, trackByHash, trackByAddr, trackByFamily

factoryVars == <<factoryRoles, factoryCodes, factoryReg, factoryCreated,
                 factoryPending, factorySaved, factoryDisabled, factoryKillUsed,
                 factoryTrades, factoryTransfer>>
refVars == <<refReferrer, refReverse, refCount, refBoard, refList, refRanks>>
lptVars == <<lptBal, lptCooldown, lptAllow, lptBySpender, lptCalls, lptSaved,
             lptSigner, lptBooks, lptGranted, lptMoved, lptNow>>
nftVars == <<nftOwner, nftUsed, nftTokenIds, nftOwnerIds, nftCount, nftApprovals,
             nftOperators, nftPending, nftEnabled, nftRefused, nftMover, nftNow>>
tapVars == <<tapAdmins, tapLimit, tapAllowance, tapInfo, tapAmount, tapLastTap,
             tapTapped, tapHistory, tapGas, tapTotal, tapGot, tapTwice, tapTaps, tapNow>>
trackVars == <<trackAdmins, trackById, trackByHash, trackByAddr, trackByFamily>>
MCVars == <<part, vars, factoryVars, refVars, lptVars, nftVars, tapVars, trackVars>>

\* Two markets and their replies.
Registry == INSTANCE Factory WITH
  Markets <- Markets, Wallets <- {Holder}, ImpactLists <- {{}}, MaxCopies <- 1,
  MaxTrades <- 0, roles <- factoryRoles, codes <- factoryCodes, reg <- factoryReg,
  created <- factoryCreated, pending <- factoryPending, saved <- factorySaved,
  disabled <- factoryDisabled, killUsed <- factoryKillUsed, trades <- factoryTrades,
  transfer <- factoryTransfer

\* Roles, and a market with trades.
Shutdown == INSTANCE Factory WITH
  Markets <- {FirstMarket}, Wallets <- Wallets,
  ImpactLists <- {{}, {"NewTrades", "Crank"}}, MaxCopies <- 0, MaxTrades <- 1,
  roles <- factoryRoles, codes <- factoryCodes, reg <- factoryReg,
  created <- factoryCreated, pending <- factoryPending, saved <- factorySaved,
  disabled <- factoryDisabled, killUsed <- factoryKillUsed, trades <- factoryTrades,
  transfer <- factoryTransfer

Referral == INSTANCE Referrals WITH
  NumWallets <- 4, Limit <- 1, referrer <- refReferrer, reverse <- refReverse,
  count <- refCount, board <- refBoard, list <- refList, ranks <- refRanks

\* The token with a marketing record, in the same variables.
CoinMarketing == INSTANCE Cw20 WITH
  MaxTime <- 0, MaxGranted <- 0, Marketers <- {Holder, "none"}

Proxy == INSTANCE LpTokenProxy WITH
  Wallets <- Wallets, Dapp <- Market, Cooldown <- 1, Amounts <- {1}, MaxTokens <- 1,
  MaxGranted <- 1, MaxTime <- 1, bal <- lptBal, cooldown <- lptCooldown,
  allow <- lptAllow, bySpender <- lptBySpender, calls <- lptCalls, saved <- lptSaved,
  signer <- lptSigner, books <- lptBooks, granted <- lptGranted, moved <- lptMoved,
  now <- lptNow

Nft == INSTANCE PositionNft WITH
  Wallets <- Wallets, Contract <- Market, Positions <- {1}, MaxTime <- 1,
  owner <- nftOwner, used <- nftUsed, tokenIds <- nftTokenIds,
  ownerIds <- nftOwnerIds, count <- nftCount, approvals <- nftApprovals,
  operators <- nftOperators, pending <- nftPending, enabled <- nftEnabled,
  refused <- nftRefused, mover <- nftMover, now <- nftNow

\* Batches of two, with a tap limit.
Tap == INSTANCE Faucet WITH
  Wallets <- Wallets, Tokens <- {"token"}, GasCoin <- "gas", Limits <- {1},
  Allowances <- {2}, MaxAssets <- 1, MaxRecipients <- 2, MaxTaps <- 2, MaxTime <- 1,
  admins <- tapAdmins, limit <- tapLimit, allowance <- tapAllowance, info <- tapInfo,
  amount <- tapAmount, lastTap <- tapLastTap, tapped <- tapTapped,
  history <- tapHistory, gas <- tapGas, total <- tapTotal, got <- tapGot,
  twice <- tapTwice, taps <- tapTaps, now <- tapNow

\* Batches of two, without a tap limit.
TapUnlimited == INSTANCE Faucet WITH
  Wallets <- Wallets, Tokens <- {"token"}, GasCoin <- "gas", Limits <- {0},
  Allowances <- {2}, MaxAssets <- 1, MaxRecipients <- 2, MaxTaps <- 2, MaxTime <- 0,
  admins <- tapAdmins, limit <- tapLimit, allowance <- tapAllowance, info <- tapInfo,
  amount <- tapAmount, lastTap <- tapLastTap, tapped <- tapTapped,
  history <- tapHistory, gas <- tapGas, total <- tapTotal, got <- tapGot,
  twice <- tapTwice, taps <- tapTaps, now <- tapNow

\* Two assets in a request.
TapAssets == INSTANCE Faucet WITH
  Wallets <- Wallets, Tokens <- {"token"}, GasCoin <- "gas", Limits <- {0},
  Allowances <- {2}, MaxAssets <- 2, MaxRecipients <- 1, MaxTaps <- 2, MaxTime <- 0,
  admins <- tapAdmins, limit <- tapLimit, allowance <- tapAllowance, info <- tapInfo,
  amount <- tapAmount, lastTap <- tapLastTap, tapped <- tapTapped,
  history <- tapHistory, gas <- tapGas, total <- tapTotal, got <- tapGot,
  twice <- tapTwice, taps <- tapTaps, now <- tapNow

Tracking == INSTANCE Tracker WITH
  Admins <- Wallets, ChainAdmin <- Holder, Types <- {"market", "factory"},
  Hashes <- {"h1", "h2"}, Addresses <- {"c1"}, Families <- {"f1", "f2"}, MaxCode <- 2,
  MaxSequence <- 1, MaxMigrations <- 1, admins <- trackAdmins, byId <- trackById,
  byHash <- trackByHash, byAddr <- trackByAddr, byFamily <- trackByFamily

ASSUME ConstantsFit ==
  /\ Registry!ConstantsOK
  /\ Shutdown!ConstantsOK
  /\ Referral!ConstantsOK
  /\ CoinMarketing!ConstantsOK
  /\ Proxy!ConstantsOK
  /\ Nft!ConstantsOK
  /\ Tap!ConstantsOK
  /\ TapUnlimited!ConstantsOK
  /\ TapAssets!ConstantsOK
  /\ Tracking!ConstantsOK

Parts == {"factory", "shutdown", "referrals", "cw20", "marketing", "proxy", "nft",
          "faucet", "faucet unlimited", "faucet assets", "tracker"}

\* A part that does not run is off.
factoryOff ==
  /\ factoryRoles = 0 /\ factoryCodes = 0 /\ factoryReg = 0 /\ factoryCreated = 0
  /\ factoryPending = 0 /\ factorySaved = 0 /\ factoryDisabled = 0
  /\ factoryKillUsed = 0 /\ factoryTrades = 0 /\ factoryTransfer = 0
refOff ==
  /\ refReferrer = 0 /\ refReverse = 0 /\ refCount = 0 /\ refBoard = 0
  /\ refList = 0 /\ refRanks = 0
lptOff ==
  /\ lptBal = 0 /\ lptCooldown = 0 /\ lptAllow = 0 /\ lptBySpender = 0
  /\ lptCalls = 0 /\ lptSaved = 0 /\ lptSigner = 0 /\ lptBooks = 0 /\ lptGranted = 0
  /\ lptMoved = 0 /\ lptNow = 0
nftOff ==
  /\ nftOwner = 0 /\ nftUsed = 0 /\ nftTokenIds = 0 /\ nftOwnerIds = 0
  /\ nftCount = 0 /\ nftApprovals = 0 /\ nftOperators = 0 /\ nftPending = 0
  /\ nftEnabled = 0 /\ nftRefused = 0 /\ nftMover = 0 /\ nftNow = 0
tapOff ==
  /\ tapAdmins = 0 /\ tapLimit = 0 /\ tapAllowance = 0 /\ tapInfo = 0
  /\ tapAmount = 0 /\ tapLastTap = 0 /\ tapTapped = 0 /\ tapHistory = 0
  /\ tapGas = 0 /\ tapTotal = 0 /\ tapGot = 0 /\ tapTwice = 0 /\ tapTaps = 0 /\ tapNow = 0
trackOff ==
  /\ trackAdmins = 0 /\ trackById = 0 /\ trackByHash = 0 /\ trackByAddr = 0
  /\ trackByFamily = 0

MCInit ==
  /\ part \in Parts
  /\ CASE part = "factory" -> Registry!Init
       [] part = "shutdown" -> Shutdown!Init
       [] OTHER -> factoryOff
  /\ CASE part = "referrals" -> Referral!Init
       [] OTHER -> refOff
  /\ IF part = "marketing" THEN CoinMarketing!Init ELSE Init
  /\ part \in {"cw20", "marketing"} \/ (supply = 0 /\ minter = Holder)
  /\ CASE part = "proxy" -> Proxy!Init
       [] OTHER -> lptOff
  /\ CASE part = "nft" -> Nft!Init
       [] OTHER -> nftOff
  /\ CASE part = "faucet" -> Tap!Init
       [] part = "faucet unlimited" -> TapUnlimited!Init
       [] part = "faucet assets" -> TapAssets!Init
       [] OTHER -> tapOff
  /\ CASE part = "tracker" -> Tracking!Init
       [] OTHER -> trackOff

\* The variables of another part stand still.
Frozen(parts, v) == IF part \in parts THEN TRUE ELSE UNCHANGED v

Others ==
  /\ UNCHANGED part
  /\ Frozen({"factory", "shutdown"}, factoryVars)
  /\ Frozen({"referrals"}, refVars)
  /\ Frozen({"cw20", "marketing"}, vars)
  /\ Frozen({"proxy"}, lptVars)
  /\ Frozen({"nft"}, nftVars)
  /\ Frozen({"faucet", "faucet unlimited", "faucet assets"}, tapVars)
  /\ Frozen({"tracker"}, trackVars)

MCNext ==
  \/ part = "factory" /\ Registry!Next /\ Others
  \/ part = "shutdown" /\ Shutdown!Next /\ Others
  \/ part = "referrals" /\ Referral!Next /\ Others
  \/ part = "cw20" /\ Next /\ Others
  \/ part = "marketing" /\ CoinMarketing!Next /\ Others
  \/ part = "proxy" /\ Proxy!Next /\ Others
  \/ part = "nft" /\ Nft!Next /\ Others
  \/ part = "faucet" /\ Tap!Next /\ Others
  \/ part = "faucet unlimited" /\ TapUnlimited!Next /\ Others
  \/ part = "faucet assets" /\ TapAssets!Next /\ Others
  \/ part = "tracker" /\ Tracking!Next /\ Others

MCSpec == MCInit /\ [][MCNext]_MCVars

\* Between transactions a registry knows all contracts of each of its markets,
\* one counter trade contract per market and every copy trading contract, a
\* wind-down leaves the exits open, and every contract the tracker knows has a
\* code and keeps its type.
RegistryComplete ==
  /\ part = "factory" =>
       /\ Registry!RegistryComplete
       /\ Registry!OneCounterTrade
       /\ Registry!CopyTradingListed
  /\ part = "shutdown" => Shutdown!TypeOK /\ Shutdown!WindDownLeavesExits
  /\ part = "tracker" => Tracking!HashesResolve /\ Tracking!TypeKept

\* What is stored twice agrees: the referees of a referrer, the ranking and
\* the counts, and the tokens of an owner with the owners of tokens; approvals
\* are those of the owner; paging finds every referee, and every entry of the
\* ranking that does not move between the pages; the token proxy keeps its books
\* and moves no more than was granted; the logo a token shows is the one that is
\* stored.
IndexesAgree ==
  /\ part = "referrals" =>
       /\ Referral!TypeOK
       /\ Referral!IndexesAgree
       /\ Referral!ListComplete
       /\ Referral!RanksComplete
  /\ part = "nft" => Nft!IndexesExact /\ Nft!ApprovalsOfOwner
  /\ part = "marketing" => CoinMarketing!LogoKnown
  /\ part = "proxy" =>
       /\ Proxy!TypeOK
       /\ Proxy!BooksBacked
       /\ Proxy!MovedWithinGranted

\* Tokens move by right only: not by an expired allowance, among outsiders in
\* a competition, after a deposit within the cooldown, or by somebody the
\* owner has not approved; a receiver is told after it has been paid. The faucet
\* counts what it pays; it raises gas to the allowance only, but for a wallet that a
\* batch names twice when there is no tap limit (multitap.rs:58); and it pays a
\* competition token for one tap and one batch, as often as the batch names it
\* (trading_competition.rs:85, multitap.rs:51).
MovedByRight ==
  /\ [][part = "cw20" => NoSpendingExpiredStep]_vars
  /\ [][part = "cw20" => CompetitionConfinedStep]_vars
  /\ [][part = "proxy" => Proxy!ReceiveAfterTransferStep]_lptVars
  /\ [][part = "proxy" => Proxy!CooldownHeldStep]_lptVars
  /\ [][part = "nft" => Nft!MovedByRightStep]_nftVars
  /\ [][part = "faucet" => Tap!GasWithinAllowanceStep]_tapVars
  /\ [][part = "faucet" => Tap!OneTapOneBatchStep]_tapVars
  /\ [][part = "faucet" => Tap!HistoryExactStep]_tapVars
  /\ [][part = "faucet unlimited" => TapUnlimited!GasWithinAllowanceStep]_tapVars
  /\ [][part = "faucet unlimited" => TapUnlimited!OneTapOneBatchStep]_tapVars
  /\ [][part = "faucet assets" => TapAssets!OneTapOneBatchStep]_tapVars

==============================================================================
