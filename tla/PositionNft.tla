---------------------------- MODULE PositionNft ----------------------------
(***************************************************************************)
(* Positions as NFTs.  The owner of an NFT is the owner in the position;   *)
(* the market keeps the indexes, the approvals of each token and the       *)
(* operators of each owner beside it, and takes CW721 messages from the    *)
(* position token proxy only.  An NFT is minted when a position opens and  *)
(* burnt when it closes, by whatever message or crank step.                *)
(***************************************************************************)
EXTENDS Integers, FiniteSets, FiniteSetTheorems, TLAPS

CONSTANTS
  Wallets,     \* traders
  Contract,    \* a contract that takes NFTs by SendNft
  Positions,   \* the ids positions get, each at most once
  MaxTime      \* bound: the clock

None == "none"
Never == MaxTime + 1

ContractApart == Contract \notin Wallets /\ None \notin Wallets \union {Contract}
MaxTimeNat == MaxTime \in Nat
ConstantsOK == ContractApart /\ MaxTimeNat

VARIABLES
  owner,      \* the owner in each open position, None before it opens or after
  used,       \* ids that were given out
  tokenIds,   \* TOKEN_IDS
  ownerIds,   \* OWNER_TO_TOKEN_IDS: pairs of owner and id
  count,      \* TOKEN_COUNT
  approvals,  \* APPROVALS: for each token a set of spender, expiry and, as
              \* history, the owner it was given for
  operators,  \* OPERATORS: owner, operator and expiry
  pending,    \* positions with a deferred execution pending
  enabled,    \* ~disable_position_nft_exec
  refused,    \* history: a send was refused by the contract
  mover,      \* history: who sent the last transfer
  now

vars == <<owner, used, tokenIds, ownerIds, count, approvals, operators, pending,
          enabled, refused, mover, now>>

Accounts == Wallets \union {Contract}
Expiries == 0..Never

Init ==
  /\ owner = [p \in Positions |-> None]
  /\ used = {}
  /\ tokenIds = {}
  /\ ownerIds = {}
  /\ count = 0
  /\ approvals = [p \in Positions |-> {}]
  /\ operators = {}
  /\ pending = {}
  /\ enabled \in BOOLEAN
  /\ refused = FALSE
  /\ mover = None
  /\ now = 0

Open == {p \in Positions : owner[p] # None}

(***************************************************************************)
(* The market's side.                                                      *)
(***************************************************************************)
Mint(p, w) ==
  /\ tokenIds' = tokenIds \union {p}
  /\ ownerIds' = ownerIds \union {<<w, p>>}
  /\ approvals' = [approvals EXCEPT ![p] = {}]
  /\ count' = count + 1

OpenPosition(p, w) ==
  /\ p \notin used
  /\ used' = used \union {p}
  /\ owner' = [owner EXCEPT ![p] = w]
  /\ Mint(p, w)
  /\ UNCHANGED <<operators, pending, enabled, refused, mover, now>>

BurnKeepsOwner(p, w) ==
  /\ tokenIds' = tokenIds \ {p}
  /\ UNCHANGED ownerIds
  /\ approvals' = [approvals EXCEPT ![p] = {}]
  /\ count' = count - 1

Burn(p, w) ==
  /\ tokenIds' = tokenIds \ {p}
  /\ ownerIds' = ownerIds \ {<<w, p>>}
  /\ approvals' = [approvals EXCEPT ![p] = {}]
  /\ count' = count - 1

ClosePosition(p) ==
  /\ p \in Open
  /\ owner' = [owner EXCEPT ![p] = None]
  /\ Burn(p, owner[p])
  /\ pending' = pending \ {p}
  /\ UNCHANGED <<used, operators, enabled, refused, mover, now>>

\* The trader queues a message for the position; the crank ends it.
Defer(p) ==
  /\ p \in Open
  /\ pending' = IF p \in pending THEN pending \ {p} ELSE pending \union {p}
  /\ UNCHANGED <<owner, used, tokenIds, ownerIds, count, approvals, operators,
                 enabled, refused, mover, now>>

(***************************************************************************)
(* CW721 messages, from the proxy.                                         *)
(***************************************************************************)
Expired(expires) == now >= expires

OperatorFor(w, op) ==
  \E e \in Expiries : <<w, op, e>> \in operators /\ ~Expired(e)

\* What NftProxy and nft_handle_exec require of a message about a token.
TokenMsg(p) == enabled /\ p \in Open /\ p \notin pending

CheckCanApprove(sender, p) ==
  sender = owner[p] \/ OperatorFor(owner[p], sender)

CheckCanSendExpired(sender, p) ==
  \/ sender = owner[p]
  \/ \E a \in approvals[p] : a.spender = sender
  \/ OperatorFor(owner[p], sender)

CheckCanSend(sender, p) ==
  \/ sender = owner[p]
  \/ \E a \in approvals[p] : a.spender = sender /\ ~Expired(a.expires)
  \/ OperatorFor(owner[p], sender)

Others(p, spender) == {a \in approvals[p] : a.spender # spender}

Approve(sender, p, spender, expires) ==
  /\ TokenMsg(p)
  /\ CheckCanApprove(sender, p)
  /\ ~Expired(expires)
  /\ approvals' = [approvals EXCEPT ![p] = Others(p, spender) \union
       {[spender |-> spender, expires |-> expires, for |-> owner[p]]}]
  /\ UNCHANGED <<owner, used, tokenIds, ownerIds, count, operators, pending,
                 enabled, refused, mover, now>>

Revoke(sender, p, spender) ==
  /\ TokenMsg(p)
  /\ CheckCanApprove(sender, p)
  /\ approvals' = [approvals EXCEPT ![p] = Others(p, spender)]
  /\ UNCHANGED <<owner, used, tokenIds, ownerIds, count, operators, pending,
                 enabled, refused, mover, now>>

WithoutOperator(w, op) == {o \in operators : o[1] # w \/ o[2] # op}

ApproveAll(sender, op, expires) ==
  /\ enabled
  /\ ~Expired(expires)
  /\ operators' = WithoutOperator(sender, op) \union {<<sender, op, expires>>}
  /\ UNCHANGED <<owner, used, tokenIds, ownerIds, count, approvals, pending,
                 enabled, refused, mover, now>>

RevokeAll(sender, op) ==
  /\ enabled
  /\ operators' = WithoutOperator(sender, op)
  /\ UNCHANGED <<owner, used, tokenIds, ownerIds, count, approvals, pending,
                 enabled, refused, mover, now>>

TransferKeepsApprovals(p, to) ==
  /\ ownerIds' = (ownerIds \ {<<owner[p], p>>}) \union {<<to, p>>}
  /\ owner' = [owner EXCEPT ![p] = to]
  /\ UNCHANGED approvals

\* The approvals of a token end with its transfer.
TransferInner(p, to) ==
  /\ ownerIds' = (ownerIds \ {<<owner[p], p>>}) \union {<<to, p>>}
  /\ owner' = [owner EXCEPT ![p] = to]
  /\ approvals' = [approvals EXCEPT ![p] = {}]

TransferNft(sender, p, to) ==
  /\ TokenMsg(p)
  /\ CheckCanSend(sender, p)
  /\ TransferInner(p, to)
  /\ mover' = sender
  /\ UNCHANGED <<used, tokenIds, count, operators, pending, enabled, refused, now>>

\* The form in which nft_send serialises its call, and the one a contract that
\* takes NFTs parses: the struct alone, and the struct under a variant.
SentForm == "struct"
ParsedForm == "variant"

\* A send is a transfer and a call; a call that the contract cannot parse
\* undoes the transfer.
SendNft(sender, p) ==
  /\ TokenMsg(p)
  /\ CheckCanSend(sender, p)
  /\ IF SentForm = ParsedForm
     THEN TransferInner(p, Contract) /\ UNCHANGED refused
     ELSE refused' = TRUE /\ UNCHANGED <<owner, ownerIds, approvals>>
  /\ UNCHANGED <<used, tokenIds, count, operators, pending, enabled, mover, now>>

SetDisablePositionNftExec ==
  /\ enabled' = ~enabled
  /\ UNCHANGED <<owner, used, tokenIds, ownerIds, count, approvals, operators,
                 pending, refused, mover, now>>

Tick ==
  /\ now < MaxTime
  /\ now' = now + 1
  /\ UNCHANGED <<owner, used, tokenIds, ownerIds, count, approvals, operators,
                 pending, enabled, refused, mover>>

Next ==
  \/ \E p \in Positions :
       \/ \E w \in Wallets : OpenPosition(p, w)
       \/ ClosePosition(p)
       \/ Defer(p)
       \/ \E s \in Wallets :
            \/ SendNft(s, p)
            \/ \E w \in Accounts : TransferNft(s, p, w)
            \/ \E w \in Wallets : Revoke(s, p, w)
            \/ \E w \in Wallets, e \in 1..Never : Approve(s, p, w, e)
  \/ \E s, w \in Wallets :
       \/ RevokeAll(s, w)
       \/ \E e \in 1..Never : ApproveAll(s, w, e)
  \/ SetDisablePositionNftExec
  \/ Tick

Spec == Init /\ [][Next]_vars

(***************************************************************************)
(* Queries.                                                                *)
(***************************************************************************)
Tokens(w) == {p \in Positions : <<w, p>> \in ownerIds}

\* The approvals of a token that have not expired.
ListedApprovals(p) == {a \in approvals[p] : ~Expired(a.expires)}

\* The operators of an owner that have not expired.
AllOperators(w) == {op \in Wallets : OperatorFor(w, op)}

(***************************************************************************)
(* Properties.                                                             *)
(***************************************************************************)

\* The indexes behind Tokens, AllTokens and NumTokens list exactly the open
\* positions, each under the wallet that owns it now.
IndexesExact ==
  /\ tokenIds = Open
  /\ \A w \in Accounts : Tokens(w) = {p \in Open : owner[p] = w}
  /\ count = Cardinality(Open)

\* An approval speaks for the present owner of the token: what an earlier owner
\* or an operator of theirs allowed ended with the transfer, also when the
\* token comes back.
ApprovalsOfOwner ==
  \A p \in Positions : \A a \in approvals[p] : a.for = owner[p]

\* A position changes hands by the act of its owner, or of someone an approval
\* that this owner's side gave or an operator of the owner allows at that time,
\* and never while a message for it is pending.
MovedByRightStep ==
  \A p \in Open :
    owner'[p] \notin {None, owner[p]} =>
      /\ p \notin pending
      /\ \/ mover' = owner[p]
         \/ \E a \in ListedApprovals(p) : a.spender = mover' /\ a.for = owner[p]
         \/ mover' \in AllOperators(owner[p])
MovedByRight == [][MovedByRightStep]_vars

\* A contract that parses the call as the comment on Cw721ReceiveMsg says takes
\* the NFTs it is sent.
SendAccepted == ~refused

------------------------------------------------------------------------------
(* The invariant: the owner in the position decides what is listed.        *)

OwnersTyped ==
  /\ owner \in [Positions -> Accounts \union {None}]
  /\ Open \subseteq used /\ used \subseteq Positions

IndexInv ==
  /\ tokenIds = Open
  /\ ownerIds = {<<owner[p], p>> : p \in Open}
  /\ IsFiniteSet(Open) /\ count = Cardinality(Open)

\* Only open positions have approvals.
ApprovalInv ==
  /\ DOMAIN approvals = Positions
  /\ \A p \in Positions \ Open : approvals[p] = {}
  /\ ApprovalsOfOwner

NftInv == OwnersTyped /\ IndexInv /\ ApprovalInv

StepOK == NftInv' /\ MovedByRightStep

\* Who gets a position is never None.
LEMMA NobodyIsNone == ASSUME ConstantsOK PROVE \A w \in Accounts : w # None
BY DEF ConstantsOK, ContractApart, Accounts

\* A position opens, or changes hands: it becomes or stays open.
LEMMA OwnerSet ==
  ASSUME ConstantsOK, OwnersTyped, NEW p \in Positions, NEW w \in Accounts,
         owner' = [owner EXCEPT ![p] = w]
  PROVE  /\ owner' \in [Positions -> Accounts \union {None}]
         /\ owner'[p] = w
         /\ \A q \in Positions \ {p} : owner'[q] = owner[q]
         /\ Open' = Open \union {p}
<1>1. /\ owner' \in [Positions -> Accounts \union {None}] /\ owner'[p] = w
      /\ \A q \in Positions \ {p} : owner'[q] = owner[q]
  BY DEF OwnersTyped
<1>2. Open' = Open \union {p}
  BY <1>1, NobodyIsNone DEF Open
<1> QED BY <1>1, <1>2

LEMMA OpenStep ==
  ASSUME ConstantsOK, NftInv, NEW p \in Positions, NEW w \in Wallets, OpenPosition(p, w)
  PROVE  StepOK
<1>1. /\ p \notin used /\ used' = used \union {p} /\ owner' = [owner EXCEPT ![p] = w]
      /\ tokenIds' = tokenIds \union {p} /\ ownerIds' = ownerIds \union {<<w, p>>}
      /\ approvals' = [approvals EXCEPT ![p] = {}] /\ count' = count + 1
  BY DEF OpenPosition, Mint
<1>2. w \in Accounts /\ OwnersTyped /\ IndexInv /\ ApprovalInv
  BY DEF NftInv, Accounts
<1>3. /\ owner' \in [Positions -> Accounts \union {None}] /\ owner'[p] = w
      /\ \A q \in Positions \ {p} : owner'[q] = owner[q]
      /\ Open' = Open \union {p}
  BY <1>1, <1>2, OwnerSet
<1>4. p \notin Open /\ \A q \in Open : q \in Positions \ {p}
  BY <1>1, <1>2 DEF OwnersTyped, Open
<1>5. OwnersTyped'
  BY <1>1, <1>2, <1>3 DEF OwnersTyped
<1>6. IndexInv'
  <2>1. tokenIds' = Open'
    BY <1>1, <1>2, <1>3 DEF IndexInv
  <2>2. ownerIds' = {<<owner'[q], q>> : q \in Open'}
    <3>1. ownerIds = {<<owner'[q], q>> : q \in Open}
      BY <1>2, <1>3, <1>4 DEF IndexInv
    <3>2. ownerIds' = ownerIds \union {<<owner'[p], p>>}
      BY <1>1, <1>3
    <3> QED BY <1>3, <3>1, <3>2
  <2>3. IsFiniteSet(Open') /\ count' = Cardinality(Open')
    BY <1>1, <1>2, <1>3, <1>4, FS_AddElement DEF IndexInv
  <2> QED BY <2>1, <2>2, <2>3 DEF IndexInv
<1>7. ApprovalInv'
  <2>1. /\ DOMAIN approvals' = Positions /\ approvals'[p] = {}
        /\ \A q \in Positions \ {p} : approvals'[q] = approvals[q]
    BY <1>1, <1>2 DEF ApprovalInv
  <2> QED BY <1>2, <1>3, <2>1 DEF ApprovalInv, ApprovalsOfOwner
<1>8. MovedByRightStep
  BY <1>3, <1>4 DEF MovedByRightStep
<1> QED BY <1>5, <1>6, <1>7, <1>8 DEF StepOK, NftInv

LEMMA CloseStep ==
  ASSUME ConstantsOK, NftInv, NEW p \in Positions, ClosePosition(p)
  PROVE  StepOK
<1>1. /\ p \in Open /\ owner' = [owner EXCEPT ![p] = None] /\ used' = used
      /\ tokenIds' = tokenIds \ {p} /\ ownerIds' = ownerIds \ {<<owner[p], p>>}
      /\ approvals' = [approvals EXCEPT ![p] = {}] /\ count' = count - 1
  BY DEF ClosePosition, Burn
<1>2. OwnersTyped /\ IndexInv /\ ApprovalInv
  BY DEF NftInv
<1>3. /\ owner' \in [Positions -> Accounts \union {None}] /\ owner'[p] = None
      /\ \A q \in Positions \ {p} : owner'[q] = owner[q]
  BY <1>1, <1>2 DEF OwnersTyped
<1>4. Open' = Open \ {p}
  BY <1>3 DEF Open
<1>5. OwnersTyped'
  BY <1>1, <1>2, <1>3, <1>4 DEF OwnersTyped
<1>6. IndexInv'
  <2>1. tokenIds' = Open'
    BY <1>1, <1>2, <1>4 DEF IndexInv
  <2>2. ownerIds' = {<<owner'[q], q>> : q \in Open'}
    <3>1. \A q \in Open' : owner'[q] = owner[q] /\ q # p /\ q \in Open
      BY <1>3, <1>4 DEF Open
    <3>2. ownerIds' = {<<owner[q], q>> : q \in Open'}
      BY <1>1, <1>2, <1>4 DEF IndexInv
    <3> QED BY <3>1, <3>2
  <2>3. IsFiniteSet(Open') /\ count' = Cardinality(Open')
    BY <1>1, <1>2, <1>4, FS_RemoveElement DEF IndexInv
  <2> QED BY <2>1, <2>2, <2>3 DEF IndexInv
<1>7. ApprovalInv'
  <2>1. /\ DOMAIN approvals' = Positions /\ approvals'[p] = {}
        /\ \A q \in Positions \ {p} : approvals'[q] = approvals[q]
    BY <1>1, <1>2 DEF ApprovalInv
  <2> QED BY <1>2, <1>3, <1>4, <2>1 DEF ApprovalInv, ApprovalsOfOwner
<1>8. MovedByRightStep
  BY <1>3 DEF MovedByRightStep, Open
<1> QED BY <1>5, <1>6, <1>7, <1>8 DEF StepOK, NftInv

\* A position changes hands: it leaves the list of the one and enters the list
\* of the other, and its approvals end.
LEMMA TransferredOK ==
  ASSUME ConstantsOK, NftInv, NEW p \in Open, NEW to \in Accounts, TransferInner(p, to),
         UNCHANGED <<used, tokenIds, count>>
  PROVE  NftInv'
<1>1. /\ owner' = [owner EXCEPT ![p] = to]
      /\ ownerIds' = (ownerIds \ {<<owner[p], p>>}) \union {<<to, p>>}
      /\ approvals' = [approvals EXCEPT ![p] = {}]
  BY DEF TransferInner
<1>2. OwnersTyped /\ IndexInv /\ ApprovalInv /\ p \in Positions
  BY DEF NftInv, Open
<1>3. /\ owner' \in [Positions -> Accounts \union {None}] /\ owner'[p] = to
      /\ \A q \in Positions \ {p} : owner'[q] = owner[q]
      /\ Open' = Open
  <2>1. /\ owner' \in [Positions -> Accounts \union {None}] /\ owner'[p] = to
        /\ \A q \in Positions \ {p} : owner'[q] = owner[q]
        /\ Open' = Open \union {p}
    BY <1>1, <1>2, OwnerSet
  <2>2. Open \union {p} = Open
    OBVIOUS
  <2> QED BY <2>1, <2>2
<1>4. OwnersTyped'
  BY <1>2, <1>3 DEF OwnersTyped
<1>5. ownerIds' = {<<owner'[q], q>> : q \in Open'}
  <2>1. \A q \in Open : q # p => owner'[q] = owner[q]
    BY <1>3 DEF Open
  <2>2. ownerIds \ {<<owner[p], p>>} = {<<owner[q], q>> : q \in Open \ {p}}
    BY <1>2 DEF IndexInv
  <2>3. {<<owner[q], q>> : q \in Open \ {p}} = {<<owner'[q], q>> : q \in Open \ {p}}
    BY <2>1
  <2>4. Open = (Open \ {p}) \union {p}
    OBVIOUS
  <2> QED BY <1>1, <1>3, <2>2, <2>3, <2>4
<1>6. IndexInv'
  BY <1>2, <1>3, <1>5 DEF IndexInv
<1>7. ApprovalInv'
  <2>1. /\ DOMAIN approvals' = Positions /\ approvals'[p] = {}
        /\ \A q \in Positions \ {p} : approvals'[q] = approvals[q]
    BY <1>1, <1>2 DEF ApprovalInv
  <2> QED BY <1>2, <1>3, <2>1 DEF ApprovalInv, ApprovalsOfOwner
<1> QED BY <1>4, <1>6, <1>7 DEF NftInv

LEMMA TransferStep ==
  ASSUME ConstantsOK, NftInv, NEW p \in Positions, NEW sender \in Wallets,
         NEW to \in Accounts, TransferNft(sender, p, to)
  PROVE  StepOK
<1>1. /\ p \in Open /\ p \notin pending /\ CheckCanSend(sender, p) /\ mover' = sender
      /\ TransferInner(p, to) /\ UNCHANGED <<used, tokenIds, count>>
  BY DEF TransferNft, TokenMsg
<1>2. NftInv'
  BY <1>1, TransferredOK
<1>3. \A a \in approvals[p] : a.for = owner[p]
  BY DEF NftInv, ApprovalInv, ApprovalsOfOwner
<1>4. \/ sender = owner[p]
      \/ \E a \in ListedApprovals(p) : a.spender = sender /\ a.for = owner[p]
      \/ sender \in AllOperators(owner[p])
  <2>1. CASE sender = owner[p]
    BY <2>1
  <2>2. CASE \E a \in approvals[p] : a.spender = sender /\ ~Expired(a.expires)
    <3>1. PICK a \in approvals[p] : a.spender = sender /\ ~Expired(a.expires)
      BY <2>2
    <3>2. a \in ListedApprovals(p)
      BY <3>1 DEF ListedApprovals
    <3> QED BY <1>3, <3>1, <3>2
  <2>3. CASE OperatorFor(owner[p], sender)
    BY <2>3 DEF AllOperators
  <2> QED BY <1>1, <2>1, <2>2, <2>3 DEF CheckCanSend
<1>5. ASSUME NEW q \in Open, owner'[q] \notin {None, owner[q]} PROVE q = p
  <2>1. owner' = [owner EXCEPT ![p] = to] /\ owner \in [Positions -> Accounts \union {None}]
    BY <1>1 DEF TransferInner, NftInv, OwnersTyped
  <2>2. q \in Positions
    BY DEF Open
  <2>3. CASE q # p
    BY <1>5, <2>1, <2>2, <2>3
  <2> QED BY <2>3
<1>6. MovedByRightStep
  BY <1>1, <1>4, <1>5 DEF MovedByRightStep
<1> QED BY <1>2, <1>6 DEF StepOK

\* Messages that change approvals only.
LEMMA ApprovalStep ==
  ASSUME NftInv, NEW p \in Open, NEW A, approvals' = [approvals EXCEPT ![p] = A],
         \A a \in A : a.for = owner[p],
         UNCHANGED <<owner, used, tokenIds, ownerIds, count>>
  PROVE  StepOK
<1>1. Open' = Open
  BY DEF Open
<1>2. OwnersTyped' /\ IndexInv'
  BY <1>1 DEF NftInv, OwnersTyped, IndexInv
<1>3. ApprovalInv'
  <2>1. /\ DOMAIN approvals' = Positions /\ p \in Positions /\ approvals'[p] = A
        /\ \A q \in Positions \ {p} : approvals'[q] = approvals[q]
    BY DEF NftInv, ApprovalInv, Open
  <2> QED BY <1>1, <2>1 DEF NftInv, ApprovalInv, ApprovalsOfOwner
<1>4. MovedByRightStep
  BY DEF MovedByRightStep
<1> QED BY <1>2, <1>3, <1>4 DEF StepOK, NftInv

LEMMA ApproveStep ==
  ASSUME NftInv, NEW p \in Positions, NEW sender \in Wallets, NEW spender \in Wallets,
         NEW expires, Approve(sender, p, spender, expires)
  PROVE  StepOK
<1> DEFINE new == [spender |-> spender, expires |-> expires, for |-> owner[p]]
           A == Others(p, spender) \union {new}
<1>1. /\ p \in Open /\ approvals' = [approvals EXCEPT ![p] = A]
      /\ UNCHANGED <<owner, used, tokenIds, ownerIds, count>>
  BY DEF Approve, TokenMsg
<1>2. \A a \in approvals[p] : a.for = owner[p]
  BY DEF NftInv, ApprovalInv, ApprovalsOfOwner
<1>3. \A a \in A : a.for = owner[p]
  BY <1>2 DEF Others
<1> HIDE DEF A
<1> QED BY <1>1, <1>3, ApprovalStep

LEMMA RevokeStep ==
  ASSUME NftInv, NEW p \in Positions, NEW sender \in Wallets, NEW spender \in Wallets,
         Revoke(sender, p, spender)
  PROVE  StepOK
<1> DEFINE A == Others(p, spender)
<1>1. /\ p \in Open /\ approvals' = [approvals EXCEPT ![p] = A]
      /\ UNCHANGED <<owner, used, tokenIds, ownerIds, count>>
  BY DEF Revoke, TokenMsg
<1>2. \A a \in approvals[p] : a.for = owner[p]
  BY DEF NftInv, ApprovalInv, ApprovalsOfOwner
<1>3. \A a \in A : a.for = owner[p]
  BY <1>2 DEF Others
<1> HIDE DEF A
<1> QED BY <1>1, <1>3, ApprovalStep

\* What leaves the tokens, their owners and their approvals alone.
LEMMA OtherStep ==
  ASSUME NftInv, UNCHANGED <<owner, used, tokenIds, ownerIds, count, approvals>>
  PROVE  StepOK
<1>1. Open' = Open
  BY DEF Open
<1>2. NftInv'
  BY <1>1 DEF NftInv, OwnersTyped, IndexInv, ApprovalInv, ApprovalsOfOwner
<1>3. MovedByRightStep
  BY DEF MovedByRightStep
<1> QED BY <1>2, <1>3 DEF StepOK

LEMMA SendStep ==
  ASSUME NftInv, NEW p \in Positions, NEW sender \in Wallets, SendNft(sender, p)
  PROVE  StepOK
<1>1. SentForm # ParsedForm
  BY DEF SentForm, ParsedForm
<1>2. UNCHANGED <<owner, used, tokenIds, ownerIds, count, approvals>>
  BY <1>1 DEF SendNft
<1> QED BY <1>2, OtherStep

LEMMA NftInit == Init => NftInv
<1> SUFFICES ASSUME Init PROVE NftInv
  OBVIOUS
<1>1. Open = {}
  BY DEF Init, Open
<1>2. OwnersTyped
  BY <1>1 DEF Init, OwnersTyped
<1>3. IndexInv
  BY <1>1, FS_EmptySet DEF Init, IndexInv
<1>4. ApprovalInv
  BY DEF Init, ApprovalInv, ApprovalsOfOwner
<1> QED BY <1>2, <1>3, <1>4 DEF NftInv

LEMMA NftNext ==
  ASSUME ConstantsOK, NftInv, [Next]_vars
  PROVE  StepOK
<1>1. ASSUME NEW p \in Positions, NEW w \in Wallets, OpenPosition(p, w) PROVE StepOK
  BY <1>1, OpenStep
<1>2. ASSUME NEW p \in Positions, ClosePosition(p) PROVE StepOK
  BY <1>2, CloseStep
<1>3. ASSUME NEW p \in Positions, Defer(p) PROVE StepOK
  BY <1>3, OtherStep DEF Defer
<1>4. ASSUME NEW p \in Positions, NEW s \in Wallets, SendNft(s, p) PROVE StepOK
  BY <1>4, SendStep
<1>5. ASSUME NEW p \in Positions, NEW s \in Wallets, NEW w \in Accounts,
             TransferNft(s, p, w)
      PROVE  StepOK
  BY <1>5, TransferStep
<1>6. ASSUME NEW p \in Positions, NEW s \in Wallets, NEW w \in Wallets, Revoke(s, p, w)
      PROVE  StepOK
  BY <1>6, RevokeStep
<1>7. ASSUME NEW p \in Positions, NEW s \in Wallets, NEW w \in Wallets, NEW e,
             Approve(s, p, w, e)
      PROVE  StepOK
  BY <1>7, ApproveStep
<1>8. ASSUME NEW s \in Wallets, NEW w \in Wallets, RevokeAll(s, w) PROVE StepOK
  BY <1>8, OtherStep DEF RevokeAll
<1>9. ASSUME NEW s \in Wallets, NEW w \in Wallets, NEW e, ApproveAll(s, w, e)
      PROVE  StepOK
  BY <1>9, OtherStep DEF ApproveAll
<1>10. ASSUME SetDisablePositionNftExec PROVE StepOK
  BY <1>10, OtherStep DEF SetDisablePositionNftExec
<1>11. ASSUME Tick PROVE StepOK
  BY <1>11, OtherStep DEF Tick
<1>12. ASSUME UNCHANGED vars PROVE StepOK
  BY <1>12, OtherStep DEF vars
<1> QED
  BY <1>1, <1>2, <1>3, <1>4, <1>5, <1>6, <1>7, <1>8, <1>9, <1>10, <1>11, <1>12
  DEF Next

LEMMA NftInvariant == ASSUME ConstantsOK PROVE Spec => []NftInv
<1>1. NftInv /\ [Next]_vars => NftInv'
  BY NftNext DEF StepOK
<1> QED BY <1>1, NftInit, PTL DEF Spec

\* For any wallets and any number of positions, the three indexes list the open
\* positions and the owners in the positions, whatever order opening, closing
\* and transfers come in.
THEOREM IndexesAreExact == ASSUME ConstantsOK PROVE Spec => []IndexesExact
<1>1. NftInv => IndexesExact
  <2> SUFFICES ASSUME NftInv PROVE IndexesExact
    OBVIOUS
  <2>1. ownerIds = {<<owner[p], p>> : p \in Open}
    BY DEF NftInv, IndexInv
  <2>2. \A w \in Accounts : Tokens(w) = {p \in Open : owner[p] = w}
    BY <2>1 DEF Tokens, Open
  <2> QED BY <2>2 DEF NftInv, IndexInv, IndexesExact
<1> QED BY <1>1, NftInvariant, PTL

\* Every approval is the present owner's.
THEOREM ApprovalsAreOfOwner == ASSUME ConstantsOK PROVE Spec => []ApprovalsOfOwner
<1>1. NftInv => ApprovalsOfOwner
  BY DEF NftInv, ApprovalInv
<1> QED BY <1>1, NftInvariant, PTL

\* A position changes hands only by right.
THEOREM PositionsMoveByRight == ASSUME ConstantsOK PROVE Spec => MovedByRight
<1>1. NftInv /\ [Next]_vars => [MovedByRightStep]_vars
  BY NftNext DEF StepOK
<1> QED BY <1>1, NftInvariant, PTL DEF Spec, MovedByRight

=============================================================================
