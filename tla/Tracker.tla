------------------------------ MODULE Tracker ------------------------------
(***************************************************************************)
(* The tracker: a registry of uploaded code and instantiated contracts.    *)
(* Code is found by id and by hash, contracts by address and by family,    *)
(* contract type and a sequence number within them.                        *)
(***************************************************************************)
EXTENDS Integers, FiniteSets, FiniteSetsExt

CONSTANTS
  Admins,     \* wallets that may be administrators
  ChainAdmin, \* the wallet the chain knows as the contract's admin
  Types, Hashes, Addresses, Families,
  MaxCode,    \* bound: code ids
  MaxSequence,\* bound: instantiations of a family and type
  MaxMigrations \* bound: migrations of a contract

ChainAdminIsAdmin == ChainAdmin \in Admins
BoundsNat == {MaxCode, MaxSequence, MaxMigrations} \subseteq Nat
ConstantsOK == ChainAdminIsAdmin /\ BoundsNat

Codes == 1..MaxCode
Absent == [type |-> "none", hash |-> "none"]
Untracked == [original |-> 0, current |-> 0, family |-> "none", sequence |-> 0, migrations |-> 0]

VARIABLES
  admins,    \* ADMINS
  byId,      \* CODE_BY_ID
  byHash,    \* CODE_BY_HASH
  byAddr,    \* CONTRACT_BY_ADDR
  byFamily   \* CONTRACT_BY_FAMILY: family, type, sequence and address

vars == <<admins, byId, byHash, byAddr, byFamily>>

Init ==
  /\ \E a \in Admins : admins = {a}
  /\ byId = [c \in Codes |-> Absent]
  /\ byHash = [h \in Hashes |-> 0]
  /\ byAddr = [a \in Addresses |-> Untracked]
  /\ byFamily = {}

MayExecute(sender) == sender \in admins \/ sender = ChainAdmin

CodeIdByHash(sender, type, code, hash) ==
  /\ MayExecute(sender)
  /\ byHash[hash] = 0
  /\ byHash' = [byHash EXCEPT ![hash] = code]
  /\ byId' = [byId EXCEPT ![code] = [type |-> type, hash |-> hash]]
  /\ UNCHANGED <<admins, byAddr, byFamily>>

CodeId(sender, type, code, hash) ==
  /\ MayExecute(sender)
  /\ byId[code] = Absent
  /\ byHash[hash] = 0
  /\ byHash' = [byHash EXCEPT ![hash] = code]
  /\ byId' = [byId EXCEPT ![code] = [type |-> type, hash |-> hash]]
  /\ UNCHANGED <<admins, byAddr, byFamily>>

SequencesOf(family, type) ==
  {e.sequence : e \in {f \in byFamily : f.family = family /\ f.type = type}}

NewSequence(family, type) ==
  IF SequencesOf(family, type) = {} THEN 0 ELSE Max(SequencesOf(family, type)) + 1

Instantiate(sender, code, address, family) ==
  LET type == byId[code].type
      sequence == NewSequence(family, type)
  IN /\ MayExecute(sender)
     /\ byId[code] # Absent
     /\ sequence <= MaxSequence
     /\ byFamily' = byFamily \union
          {[family |-> family, type |-> type, sequence |-> sequence, address |-> address]}
     /\ byAddr' = [byAddr EXCEPT ![address] =
          [original |-> code, current |-> code, family |-> family, sequence |-> sequence,
           migrations |-> 0]]
     /\ UNCHANGED <<admins, byId, byHash>>

MigrateAny(sender, code, address) ==
  /\ MayExecute(sender)
  /\ byId[code] # Absent
  /\ byAddr[address] # Untracked /\ byAddr[address].migrations < MaxMigrations
  /\ byAddr' = [byAddr EXCEPT ![address].current = code, ![address].migrations = @ + 1]
  /\ UNCHANGED <<admins, byId, byHash, byFamily>>

Migrate(sender, code, address) ==
  /\ MayExecute(sender)
  /\ byId[code] # Absent
  /\ byAddr[address] # Untracked /\ byAddr[address].migrations < MaxMigrations
  /\ byId[byAddr[address].current].type = byId[code].type
  /\ byAddr' = [byAddr EXCEPT ![address].current = code, ![address].migrations = @ + 1]
  /\ UNCHANGED <<admins, byId, byHash, byFamily>>

AddAdmin(sender, a) ==
  /\ MayExecute(sender)
  /\ a \notin admins
  /\ admins' = admins \union {a}
  /\ UNCHANGED <<byId, byHash, byAddr, byFamily>>

RemoveAdmin(sender, a) ==
  /\ MayExecute(sender)
  /\ a \in admins
  /\ admins' = admins \ {a}
  /\ UNCHANGED <<byId, byHash, byAddr, byFamily>>

Next ==
  \E s \in Admins :
    \/ \E type \in Types, c \in Codes, h \in Hashes : CodeId(s, type, c, h)
    \/ \E c \in Codes, a \in Addresses, f \in Families : Instantiate(s, c, a, f)
    \/ \E c \in Codes, a \in Addresses : Migrate(s, c, a)
    \/ \E a \in Admins : AddAdmin(s, a)
    \/ \E a \in Admins : RemoveAdmin(s, a)

Spec == Init /\ [][Next]_vars

(***************************************************************************)
(* Queries and properties.                                                 *)
(***************************************************************************)

\* CodeByHash: the id of the hash, and what is known of it.
CodeByHash(h) == IF byHash[h] = 0 THEN Absent ELSE byId[byHash[h]]

\* ContractByAddress: the type is that of the current code.
ContractByAddress(a) == [info |-> byAddr[a], type |-> byId[byAddr[a].current].type]

ContractByFamily(e) == ContractByAddress(e.address)

\* Code found by its hash is the code of that hash.
HashesResolve ==
  \A h \in Hashes : CodeByHash(h) # Absent => CodeByHash(h).hash = h

\* Whatever migrations were tracked, a contract is of the type it was
\* instantiated with, which is the type its family knows it by.
TypeKept ==
  \A a \in Addresses : byAddr[a] # Untracked =>
    /\ ContractByAddress(a).type = byId[byAddr[a].original].type
    /\ \E e \in byFamily : e.address = a /\ e.family = byAddr[a].family
                           /\ e.sequence = byAddr[a].sequence
                           /\ e.type = ContractByAddress(a).type

\* The sequence number is a "unique identifier within the series to look up":
\* what is found under a family and a number has that family and that number.
LookupMatches ==
  \A e \in byFamily : /\ ContractByFamily(e).info.family = e.family
                      /\ ContractByFamily(e).info.sequence = e.sequence
=============================================================================
