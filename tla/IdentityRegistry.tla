--------------------------- MODULE IdentityRegistry ---------------------------
(***************************************************************************)
(* The on-chain registry (backend/contracts/IdentityRegistryMeta.sol): one *)
(* profile CID and a table of claim hashes per address.  A transaction     *)
(* names a function and its arguments (a member of CallData); the sender   *)
(* is what ERC2771Context._msgSender() resolves to, so it is the signer of *)
(* a relayed request or the account of a direct transaction.               *)
(***************************************************************************)
CONSTANTS Owners,     \* addresses
          Cids,       \* IPFS CIDs a profile slot may hold
          ClaimIds,   \* keccak256 of a claim name
          Hashes,     \* claim hashes
          NoCid,      \* the empty string: hasProfile is false
          NoHash      \* bytes32(0)

ASSUME RegistryAssumption == NoCid \notin Cids /\ NoHash \notin Hashes

VARIABLES profileCID, claims

registryVars == <<profileCID, claims>>

RegisterData   == [fn : {"registerIdentity"}, cid : Cids]
SetProfileData == [fn : {"setProfileCID"}, owner : Owners, cid : Cids]
SetClaimData   == [fn : {"setClaim"}, owner : Owners, claimId : ClaimIds,
                   claimHash : Hashes]
RemoveData     == [fn : {"removeClaim"}, owner : Owners, claimId : ClaimIds]

CallData == RegisterData \cup SetProfileData \cup SetClaimData \cup RemoveData

RegistryTypeOK ==
  /\ profileCID \in [Owners -> Cids \cup {NoCid}]
  /\ claims \in [Owners -> [ClaimIds -> Hashes \cup {NoHash}]]

RegistryInit ==
  /\ profileCID = [o \in Owners |-> NoCid]
  /\ claims = [o \in Owners |-> [k \in ClaimIds |-> NoHash]]

\* modifier onlySelf; registerIdentity has no such modifier, it writes the
\* slot of its sender.
OnlySelf(sender, data) == data \notin RegisterData => data.owner = sender

RegisterIdentity(sender, data) ==
  /\ data \in RegisterData
  /\ profileCID' = [profileCID EXCEPT ![sender] = data.cid]
  /\ UNCHANGED claims

SetProfileCID(sender, data) ==
  /\ data \in SetProfileData
  /\ OnlySelf(sender, data)
  /\ profileCID' = [profileCID EXCEPT ![data.owner] = data.cid]
  /\ UNCHANGED claims

SetClaim(sender, data) ==
  /\ data \in SetClaimData
  /\ OnlySelf(sender, data)
  /\ claims' = [claims EXCEPT ![data.owner][data.claimId] = data.claimHash]
  /\ UNCHANGED profileCID

RemoveClaim(sender, data) ==
  /\ data \in RemoveData
  /\ OnlySelf(sender, data)
  /\ claims' = [claims EXCEPT ![data.owner][data.claimId] = NoHash]
  /\ UNCHANGED profileCID

\* One successful call of the contract.
RegistryCall(sender, data) ==
  \/ RegisterIdentity(sender, data)
  \/ SetProfileCID(sender, data)
  \/ SetClaim(sender, data)
  \/ RemoveClaim(sender, data)
===============================================================================
