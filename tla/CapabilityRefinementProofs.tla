-------------------- MODULE CapabilityRefinementProofs --------------------
(***************************************************************************)
(* Proof that the capability manager implements the abstract store         *)
(* CapabilityStore under the mapping AbsIssued, for every MAX_TOKENS.      *)
(*                                                                         *)
(* The mapping picks, for each resident id, the slot holding it.  Under    *)
(* the pool layout of IInv (slot i holds id i, slots 1..token_count are    *)
(* occupied) that slot is the id itself, so the abstract store is the      *)
(* function i |-> StoreGrant(tokens[i]) on 1..token_count.  create_token   *)
(* then adds id token_count + 1, greater than all before it, and revoke    *)
(* sets revoked on one id; every other call leaves the slots alone.        *)
(***************************************************************************)
EXTENDS CapabilityManagerProofs

(* The store as a function on the live prefix. *)
PrefixStore == [i \in 1..token_count |-> StoreGrant(tokens[i])]

(* Under the pool layout, the mapped store is PrefixStore. *)
LEMMA AbsIssuedIsPrefix ==
    ASSUME TypeOK, PoolInIssueOrder
    PROVE  AbsIssued = PrefixStore
<1>1. {tokens[i].token_id : i \in Occupied} = 1..token_count
    BY DEF PoolInIssueOrder
<1>2. ASSUME NEW id \in 1..token_count
      PROVE  (CHOOSE i \in Occupied : tokens[i].token_id = id) = id
    BY DEF PoolInIssueOrder
<1>3. AbsIssued = [id \in 1..token_count |->
                     StoreGrant(tokens[CHOOSE i \in Occupied : tokens[i].token_id = id])]
    BY <1>1 DEF AbsIssued
<1>4. QED
    BY <1>2, <1>3 DEF PrefixStore

(* The same after a step: the layout of the next state gives its store. *)
LEMMA AbsIssuedIsPrefixPrimed ==
    ASSUME TypeOK', PoolInIssueOrder'
    PROVE  AbsIssued' = PrefixStore'
<1>1. {tokens'[i].token_id : i \in Occupied'} = 1..token_count'
    BY DEF PoolInIssueOrder
<1>2. ASSUME NEW id \in 1..token_count'
      PROVE  (CHOOSE i \in Occupied' : tokens'[i].token_id = id) = id
    BY DEF PoolInIssueOrder
<1>3. AbsIssued' = [id \in 1..token_count' |->
                      StoreGrant(tokens'[CHOOSE i \in Occupied' : tokens'[i].token_id = id])]
    BY <1>1 DEF AbsIssued
<1>4. QED
    BY <1>2, <1>3 DEF PrefixStore

(* Under the pool layout, the revoked ids are the live slots flagged REVOKED. *)
LEMMA RevokedIsPrefix ==
    ASSUME TypeOK, PoolInIssueOrder
    PROVE  AbsRevoked = {i \in 1..token_count : REVOKED \in tokens[i].flags}
BY DEF AbsRevoked, PoolInIssueOrder

LEMMA RevokedIsPrefixPrimed ==
    ASSUME TypeOK', PoolInIssueOrder'
    PROVE  AbsRevoked' = {i \in 1..token_count' : REVOKED \in tokens'[i].flags}
BY DEF AbsRevoked, PoolInIssueOrder

(* A step that leaves the slots alone leaves the mapped store alone. *)
LEMMA SlotsUnchangedStutter ==
    ASSUME tokens' = tokens
    PROVE  AbsIssued' = AbsIssued /\ AbsRevoked' = AbsRevoked
BY DEF AbsIssued, AbsRevoked, Occupied, StoreGrant

-----------------------------------------------------------------------------

LEMMA InitRefines == Init => Store!StoreInit
<1> SUFFICES ASSUME Init PROVE Store!StoreInit
    OBVIOUS
<1>1. Occupied = {}
    BY MaxTokensAssumption DEF Init, Occupied
<1>2. AbsIssued = [id \in {} |-> CHOOSE g \in Store!Grant : TRUE]
    BY <1>1 DEF AbsIssued
<1>3. AbsRevoked = {}
    BY <1>1 DEF AbsRevoked
<1>4. QED
    BY <1>2, <1>3 DEF Store!StoreInit

(* create_token below capacity is the abstract Issue of id token_count + 1. *)
LEMMA CreateTokenRefines ==
    ASSUME IInv, IInv', NEW c \in Containers, NEW a \in Apps, NEW p \in SUBSET PermBits,
           CreateToken(c, a, p)
    PROVE  Store!Issue(c, a, p)
<1> DEFINE n == token_count + 1
           g == [container_id |-> c, app_id |-> a, permissions |-> p]
<1>1. token_count < MaxTokens /\ token_count \in Nat
    BY DEF CreateToken, IInv, TypeOK
<1>2. Occupied # Slots /\ FirstFree = n
    BY <1>1, FirstFreeIsNext DEF IInv
<1>3. /\ tokens' = [tokens EXCEPT ![n] = [token_id |-> next_token_id, container_id |-> c,
                                          app_id |-> a, permissions |-> p, flags |-> {}]]
      /\ token_count' = n
    BY <1>2 DEF CreateToken
<1>4. n \in Slots
    BY <1>1, MaxTokensAssumption DEF Slots
<1>5. AbsIssued = PrefixStore /\ AbsIssued' = PrefixStore'
    BY AbsIssuedIsPrefix, AbsIssuedIsPrefixPrimed DEF IInv
<1>7. n \in Slots \ DOMAIN AbsIssued /\ \A j \in DOMAIN AbsIssued : j < n
    BY <1>1, <1>4, <1>5 DEF PrefixStore
<1>8. \A j \in 1..token_count : tokens'[j] = tokens[j]
    BY <1>1, <1>3 DEF IInv, TypeOK
<1>9. AbsIssued' = [j \in DOMAIN AbsIssued \cup {n} |->
                       IF j = n THEN g ELSE AbsIssued[j]]
    <2>1. DOMAIN AbsIssued \cup {n} = 1..n
        BY <1>1, <1>5 DEF PrefixStore
    <2>2. StoreGrant(tokens'[n]) = g
        BY <1>3, <1>4 DEF IInv, TypeOK, StoreGrant
    <2>3. PrefixStore' = [j \in 1..n |-> StoreGrant(tokens'[j])]
        BY <1>3 DEF PrefixStore
    <2>4. \A j \in 1..n : StoreGrant(tokens'[j]) = IF j = n THEN g ELSE PrefixStore[j]
        BY <1>1, <1>8, <2>2 DEF PrefixStore
    <2>5. QED
        BY <1>5, <2>1, <2>3, <2>4
<1>10. AbsRevoked' = AbsRevoked
    <2>1. AbsRevoked = {i \in 1..token_count : REVOKED \in tokens[i].flags}
        BY RevokedIsPrefix DEF IInv
    <2>2. AbsRevoked' = {i \in 1..n : REVOKED \in tokens'[i].flags}
        BY <1>3, RevokedIsPrefixPrimed DEF IInv
    <2>3. REVOKED \notin tokens'[n].flags
        BY <1>3, <1>4 DEF IInv, TypeOK
    <2>4. QED
        BY <1>1, <1>8, <2>1, <2>2, <2>3
<1>11. \E id \in Slots \ DOMAIN AbsIssued :
          /\ \A j \in DOMAIN AbsIssued : j < id
          /\ AbsIssued' = [j \in DOMAIN AbsIssued \cup {id} |->
                              IF j = id THEN g ELSE AbsIssued[j]]
    BY <1>7, <1>9
<1>12. Store!Issue(c, a, p) <=>
          /\ \E id \in Slots \ DOMAIN AbsIssued :
                /\ \A j \in DOMAIN AbsIssued : j < id
                /\ AbsIssued' = [j \in DOMAIN AbsIssued \cup {id} |->
                                    IF j = id THEN g ELSE AbsIssued[j]]
          /\ AbsRevoked' = AbsRevoked
    BY DEF Store!Issue
<1>13. QED
    BY <1>10, <1>11, <1>12

(* revoke of a live id is the abstract RevokeId; of any other id, nothing. *)
LEMMA RevokeRefines ==
    ASSUME IInv, IInv', NEW id \in RevokeIds, Revoke(id)
    PROVE  \/ Store!RevokeId(id)
           \/ AbsIssued' = AbsIssued /\ AbsRevoked' = AbsRevoked
<1>1. CASE id \in 1..token_count
    <2>1. Matching(id) # {} /\ FirstMatch(id) = id
        BY <1>1, FirstMatchIsId DEF IInv
    <2>2. tokens' = [tokens EXCEPT ![id].flags = @ \cup {REVOKED}] /\ token_count' = token_count
        BY <2>1 DEF Revoke
    <2>3. AbsIssued = PrefixStore /\ AbsIssued' = PrefixStore'
        BY AbsIssuedIsPrefix, AbsIssuedIsPrefixPrimed DEF IInv
    <2>4. id \in Slots /\ tokens[id] \in Token
        BY <1>1 DEF IInv, TypeOK, PoolInIssueOrder, Occupied
    <2>5. /\ tokens'[id].token_id = tokens[id].token_id
          /\ StoreGrant(tokens'[id]) = StoreGrant(tokens[id])
          /\ tokens'[id].flags = tokens[id].flags \cup {REVOKED}
        BY <2>2, <2>4 DEF IInv, TypeOK, StoreGrant, Token
    <2>6. \A j \in Slots \ {id} : tokens'[j] = tokens[j]
        BY <2>2 DEF IInv, TypeOK
    <2>7. AbsIssued' = AbsIssued
        <3>1. 1..token_count \subseteq Slots
            BY MaxTokensAssumption DEF IInv, TypeOK, Slots
        <3>2. \A j \in 1..token_count : StoreGrant(tokens'[j]) = StoreGrant(tokens[j])
            BY <2>5, <2>6, <3>1
        <3>3. QED
            BY <2>2, <2>3, <3>2 DEF PrefixStore
    <2>8. Occupied' = Occupied /\ Occupied = 1..token_count
        BY <2>2 DEF IInv, PoolInIssueOrder
    <2>9. AbsRevoked' = AbsRevoked \cup {id}
        <3>1. AbsRevoked = {i \in 1..token_count : REVOKED \in tokens[i].flags}
            BY RevokedIsPrefix DEF IInv
        <3>2. AbsRevoked' = {i \in 1..token_count : REVOKED \in tokens'[i].flags}
            BY <2>2, RevokedIsPrefixPrimed DEF IInv
        <3>3. 1..token_count \subseteq Slots
            BY MaxTokensAssumption DEF IInv, TypeOK, Slots
        <3>4. QED
            BY <1>1, <2>5, <2>6, <3>1, <3>2, <3>3
    <2>10. QED
        BY <1>1, <2>3, <2>7, <2>9 DEF Store!RevokeId, PrefixStore
<1>2. CASE id \notin 1..token_count
    <2>1. Matching(id) = {}
        BY <1>2, FirstMatchIsId DEF IInv
    <2>2. tokens' = tokens
        BY <2>1 DEF Revoke
    <2>3. QED
        BY <2>2, SlotsUnchangedStutter
<1>3. QED
    BY <1>1, <1>2

LEMMA NextRefines ==
    ASSUME IInv, IInv', [Next]_vars
    PROVE  [Store!StoreNext]_<<AbsIssued, AbsRevoked>>
<1>1. CASE \E c \in Containers, a \in Apps, p \in SUBSET PermBits : CreateToken(c, a, p)
    BY <1>1, CreateTokenRefines DEF Store!StoreNext
<1>2. CASE \E id \in RevokeIds : Revoke(id)
    <2>1. PICK id \in RevokeIds : Revoke(id)
        BY <1>2
    <2>2. Store!RevokeId(id) \/ (AbsIssued' = AbsIssued /\ AbsRevoked' = AbsRevoked)
        BY <2>1, RevokeRefines
    <2>3. Store!RevokeId(id) => id \in DOMAIN AbsIssued
        BY DEF Store!RevokeId
    <2>4. QED
        BY <2>2, <2>3 DEF Store!StoreNext
<1>3. CASE \/ CreateTokenNoMemory
           \/ \E t \in held : Verify(t)
           \/ \E t \in held, p \in SUBSET PermBits : CheckPermission(t, p)
           \/ UNCHANGED vars
    <2>1. tokens' = tokens
        BY <1>3 DEF CreateTokenNoMemory, Verify, CheckPermission, vars
    <2>2. QED
        BY <2>1, SlotsUnchangedStutter
<1>4. QED
    BY <1>1, <1>2, <1>3 DEF Next

(* The manager implements the abstract store: no sequence of calls loses,  *)
(* rebinds or un-revokes a token, and every token create_token issues has  *)
(* an id greater than all before it.                                       *)
THEOREM ManagerImplementsStore == Spec => ImplementsStore
<1>1. IInv /\ IInv' /\ [Next]_vars => [Store!StoreNext]_<<AbsIssued, AbsRevoked>>
    BY NextRefines
<1>2. QED
    BY InitRefines, <1>1, IInvHolds, NextIInv, PTL DEF Spec, ImplementsStore, Store!StoreSpec,
                                                       Store!svars

=============================================================================
