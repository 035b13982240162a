---------------------- MODULE CapabilityManagerProofs ----------------------
(***************************************************************************)
(* Proofs about the capability manager, for every MAX_TOKENS and every set *)
(* of containers, apps and permission bits.                                *)
(*                                                                         *)
(* None of the properties is inductive alone: create_token's first-free    *)
(* slot search and revoke's first-match lookup are CHOOSEs whose result is *)
(* known only once we know which slots are occupied.  The strengthening    *)
(* IInv says the pool is filled front to back in issuance order            *)
(* (PoolInIssueOrder): then the first free slot is token_count + 1, the    *)
(* slot holding token id n is slot n, and every other property follows.    *)
(***************************************************************************)
EXTENDS CapabilityManager, TLAPS

IInv == TypeOK /\ PoolInIssueOrder /\ CopiesBoundToIssuance

-----------------------------------------------------------------------------
(* Lemmas about the two lookups, under the pool layout. *)

(* Below capacity the pool has a free slot and the first one is the slot  *)
(* after the live tokens.                                                  *)
LEMMA FirstFreeIsNext ==
    ASSUME TypeOK, PoolInIssueOrder, token_count < MaxTokens
    PROVE  /\ Occupied # Slots
           /\ FirstFree = token_count + 1
<1>1. token_count + 1 \in Slots \ Occupied
    BY MaxTokensAssumption DEF TypeOK, PoolInIssueOrder, Slots
<1>2. \A j \in Slots \ Occupied : token_count + 1 <= j
    BY MaxTokensAssumption DEF TypeOK, PoolInIssueOrder, Slots
<1>3. \A i \in Slots \ Occupied :
          (\A j \in Slots \ Occupied : i <= j) => i = token_count + 1
    BY <1>1 DEF TypeOK, PoolInIssueOrder, Slots
<1>4. FirstFree \in Slots \ Occupied /\ \A j \in Slots \ Occupied : FirstFree <= j
    BY <1>1, <1>2 DEF FirstFree
<1>5. QED
    BY <1>1, <1>3, <1>4

(* A resident token with the id exists exactly when the id is live, and   *)
(* then it sits in the slot of that number.                                *)
LEMMA FirstMatchIsId ==
    ASSUME TypeOK, PoolInIssueOrder, NEW id
    PROVE  /\ Matching(id) # {} <=> id \in 1..token_count
           /\ id \in 1..token_count => FirstMatch(id) = id
<1>1. Matching(id) = IF id \in 1..token_count THEN {id} ELSE {}
    BY DEF PoolInIssueOrder, Matching
<1>2. id \in 1..token_count => FirstMatch(id) = id
    BY <1>1 DEF FirstMatch, TypeOK
<1>3. QED
    BY <1>1, <1>2

-----------------------------------------------------------------------------
(* IInv holds initially and is preserved by every action. *)

LEMMA InitIInv == Init => IInv
BY MaxTokensAssumption
   DEF Init, IInv, TypeOK, PoolInIssueOrder, CopiesBoundToIssuance, Occupied, Slots,
       Ops, Results

LEMMA CreateTokenNoMemoryIInv == IInv /\ CreateTokenNoMemory => IInv'
BY DEF IInv, CreateTokenNoMemory, TypeOK, PoolInIssueOrder, CopiesBoundToIssuance,
       Occupied, Ops, Results

LEMMA CreateTokenIInv ==
    ASSUME IInv, NEW c \in Containers, NEW a \in Apps, NEW p \in SUBSET PermBits,
           CreateToken(c, a, p)
    PROVE  IInv'
<1> DEFINE tok == [token_id |-> next_token_id, container_id |-> c, app_id |-> a,
                   permissions |-> p, flags |-> {}]
           n == token_count + 1
<1>1. token_count < MaxTokens
    BY DEF CreateToken
<1>2. Occupied # Slots /\ FirstFree = n
    BY <1>1, FirstFreeIsNext DEF IInv
<1>3. tok \in Token /\ tok # None
    BY NoneAssumption DEF IInv, TypeOK, Token, FlagNames
<1>4. /\ tokens' = [tokens EXCEPT ![n] = tok]
      /\ token_count' = n
      /\ next_token_id' = next_token_id + 1
      /\ held' = held \cup {tok}
      /\ last' = [op |-> "create", id |-> tok.token_id, res |-> "Ok"]
    BY <1>2 DEF CreateToken
<1>5. n \in Slots /\ next_token_id = n
    BY <1>1, MaxTokensAssumption DEF IInv, PoolInIssueOrder, TypeOK, Slots
<1>6. TypeOK'
    <2>1. tokens' \in [Slots -> Token \cup {None}]
        BY <1>3, <1>4, <1>5 DEF IInv, TypeOK
    <2>2. token_count' \in 0..MaxTokens /\ next_token_id' \in Nat \ {0}
        BY <1>1, <1>4, <1>5, MaxTokensAssumption DEF IInv, TypeOK
    <2>3. held' \subseteq Token
        BY <1>3, <1>4 DEF IInv, TypeOK
    <2>4. last' \in [op : Ops, id : Nat, res : Results]
        BY <1>4, <1>5 DEF IInv, TypeOK, Ops, Results
    <2>5. QED
        BY <2>1, <2>2, <2>3, <2>4 DEF TypeOK
<1>7. Occupied' = 1..n
    BY <1>3, <1>4, <1>5 DEF IInv, TypeOK, PoolInIssueOrder, Occupied, Slots
<1>8. PoolInIssueOrder'
    BY <1>3, <1>4, <1>5, <1>7 DEF IInv, TypeOK, PoolInIssueOrder, Occupied
<1>9. CopiesBoundToIssuance'
    <2>1. SUFFICES ASSUME NEW h \in held'
                   PROVE  \E i \in Occupied' :
                              /\ tokens'[i].token_id = h.token_id
                              /\ tokens'[i].container_id = h.container_id
                              /\ tokens'[i].app_id = h.app_id
                              /\ tokens'[i].permissions = h.permissions
                              /\ h.flags \subseteq tokens'[i].flags
        BY DEF CopiesBoundToIssuance
    <2>2. CASE h = tok
        BY <2>2, <1>4, <1>5, <1>7 DEF IInv, TypeOK
    <2>3. CASE h \in held
        <3>1. PICK i \in Occupied :
                  /\ tokens[i].token_id = h.token_id
                  /\ tokens[i].container_id = h.container_id
                  /\ tokens[i].app_id = h.app_id
                  /\ tokens[i].permissions = h.permissions
                  /\ h.flags \subseteq tokens[i].flags
            BY <2>3 DEF IInv, CopiesBoundToIssuance
        <3>2. i \in 1..token_count /\ tokens'[i] = tokens[i]
            BY <1>4, <1>5 DEF IInv, PoolInIssueOrder, TypeOK
        <3>3. i \in Occupied'
            BY <3>2, <1>7 DEF IInv, TypeOK
        <3>4. QED
            BY <3>1, <3>2, <3>3
    <2>7. QED
        BY <2>2, <2>3, <1>4
<1>10. QED
    BY <1>6, <1>8, <1>9 DEF IInv

LEMMA VerifyIInv ==
    ASSUME IInv, NEW t \in held, Verify(t)
    PROVE  IInv'
<1>1. t.token_id \in Nat
    BY DEF IInv, TypeOK, Token
<1>2. QED
    BY <1>1 DEF IInv, Verify, TypeOK, PoolInIssueOrder, CopiesBoundToIssuance,
              Occupied, Ops, Results, VerifyResult

LEMMA CheckPermissionIInv ==
    ASSUME IInv, NEW t \in held, NEW p \in SUBSET PermBits, CheckPermission(t, p)
    PROVE  IInv'
<1>1. t.token_id \in Nat
    BY DEF IInv, TypeOK, Token
<1>2. QED
    BY <1>1 DEF IInv, CheckPermission, TypeOK, PoolInIssueOrder,
              CopiesBoundToIssuance, Occupied, Ops, Results

LEMMA RevokeIInv ==
    ASSUME IInv, NEW id \in RevokeIds, Revoke(id)
    PROVE  IInv'
<1>1. id \in Nat
    BY MaxTokensAssumption DEF RevokeIds
<1>2. CASE id \in 1..token_count
    <2>1. Matching(id) # {} /\ FirstMatch(id) = id
        BY <1>2, FirstMatchIsId DEF IInv
    <2>2. /\ tokens' = [tokens EXCEPT ![id].flags = @ \cup {REVOKED}]
          /\ last' = [op |-> "revoke", id |-> id, res |-> "Ok"]
          /\ UNCHANGED <<token_count, next_token_id, held>>
        BY <2>1 DEF Revoke
    <2>3. id \in Occupied /\ tokens[id] \in Token
        BY <1>2 DEF IInv, PoolInIssueOrder, TypeOK, Occupied
    <2>4. tokens'[id] = [tokens[id] EXCEPT !.flags = @ \cup {REVOKED}]
        BY <2>2, <2>3 DEF Occupied, IInv, TypeOK
    <2>5. tokens'[id] \in Token /\ tokens'[id] # None
        BY <2>3, <2>4, NoneAssumption DEF Token, FlagNames
    <2>6. \A i \in Slots \ {id} : tokens'[i] = tokens[i]
        BY <2>2, <2>3 DEF IInv, TypeOK
    <2>7. TypeOK'
        BY <1>1, <2>2, <2>3, <2>5, <2>6 DEF IInv, TypeOK, Ops, Results, Occupied
    <2>8. Occupied' = Occupied
        BY <2>3, <2>5, <2>6 DEF IInv, TypeOK, Occupied
    <2>9. PoolInIssueOrder'
        BY <2>2, <2>3, <2>4, <2>6, <2>8 DEF IInv, PoolInIssueOrder
    <2>10. CopiesBoundToIssuance'
        <3>1. SUFFICES ASSUME NEW h \in held
                       PROVE  \E i \in Occupied' :
                                  /\ tokens'[i].token_id = h.token_id
                                  /\ tokens'[i].container_id = h.container_id
                                  /\ tokens'[i].app_id = h.app_id
                                  /\ tokens'[i].permissions = h.permissions
                                  /\ h.flags \subseteq tokens'[i].flags
            BY <2>2 DEF CopiesBoundToIssuance
        <3>2. PICK i \in Occupied :
                  /\ tokens[i].token_id = h.token_id
                  /\ tokens[i].container_id = h.container_id
                  /\ tokens[i].app_id = h.app_id
                  /\ tokens[i].permissions = h.permissions
                  /\ h.flags \subseteq tokens[i].flags
            BY DEF IInv, CopiesBoundToIssuance
        <3>3. CASE i = id
            BY <3>2, <3>3, <2>3, <2>4, <2>8 DEF Token
        <3>4. CASE i # id
            BY <3>2, <3>4, <2>6, <2>8 DEF Occupied
        <3>5. QED
            BY <3>3, <3>4
    <2>11. QED
        BY <2>7, <2>9, <2>10 DEF IInv
<1>3. CASE id \notin 1..token_count
    <2>1. Matching(id) = {}
        BY <1>3, FirstMatchIsId DEF IInv
    <2>2. /\ UNCHANGED <<tokens, token_count, next_token_id, held>>
          /\ last' = [op |-> "revoke", id |-> id, res |-> "InvalidArg"]
        BY <2>1 DEF Revoke
    <2>3. QED
        BY <1>1, <2>2 DEF IInv, TypeOK, PoolInIssueOrder, CopiesBoundToIssuance,
                          Occupied, Ops, Results
<1>4. QED
    BY <1>2, <1>3

LEMMA StutterIInv == IInv /\ UNCHANGED vars => IInv'
BY DEF IInv, vars, TypeOK, PoolInIssueOrder, CopiesBoundToIssuance, Occupied

LEMMA NextIInv == IInv /\ [Next]_vars => IInv'
<1> SUFFICES ASSUME IInv, [Next]_vars PROVE IInv'
    OBVIOUS
<1>1. CASE CreateTokenNoMemory
    BY <1>1, CreateTokenNoMemoryIInv
<1>2. CASE \E c \in Containers, a \in Apps, p \in SUBSET PermBits : CreateToken(c, a, p)
    BY <1>2, CreateTokenIInv
<1>3. CASE \E t \in held : Verify(t)
    BY <1>3, VerifyIInv
<1>4. CASE \E id \in RevokeIds : Revoke(id)
    BY <1>4, RevokeIInv
<1>5. CASE \E t \in held, p \in SUBSET PermBits : CheckPermission(t, p)
    BY <1>5, CheckPermissionIInv
<1>6. CASE UNCHANGED vars
    BY <1>6, StutterIInv
<1>7. QED
    BY <1>1, <1>2, <1>3, <1>4, <1>5, <1>6 DEF Next

-----------------------------------------------------------------------------
(* The theorems. *)

(* The inductive invariant holds in every reachable state. *)
THEOREM IInvHolds == Spec => []IInv
BY InitIInv, NextIInv, PTL DEF Spec

(* Type correctness of every reachable state. *)
THEOREM TypeCorrect == Spec => []TypeOK
BY IInvHolds, PTL DEF IInv

(* The pool is filled in issuance order, so the live count matches the    *)
(* occupied slots and create_token never fails below capacity.            *)
THEOREM PoolInIssueOrderHolds == Spec => []PoolInIssueOrder
BY IInvHolds, PTL DEF IInv

(* Every copy a caller holds stays bound to its issuance record. *)
THEOREM CopiesBoundHolds == Spec => []CopiesBoundToIssuance
BY IInvHolds, PTL DEF IInv

(* The issuance counter never exceeds MAX_TOKENS + 1: with MAX_TOKENS =   *)
(* 4096 the u32 `next_token_id += 1` of create_token cannot overflow.      *)
THEOREM NoIdOverflow == Spec => [](next_token_id <= MaxTokens + 1)
<1>1. IInv => next_token_id <= MaxTokens + 1
    BY MaxTokensAssumption DEF IInv, PoolInIssueOrder, TypeOK
<1>2. QED
    BY <1>1, IInvHolds, PTL

(* The manager never removes, overwrites or un-revokes a resident token:  *)
(* create_token writes only the first free slot and revoke only adds a    *)
(* flag.                                                                   *)
THEOREM RevocationPermanentHolds == Spec => RevocationPermanent
<1>1. IInv /\ [Next]_vars => [ResidentRecordsKept]_tokens
    <2> SUFFICES ASSUME IInv, [Next]_vars, tokens' # tokens
                 PROVE  ResidentRecordsKept
        OBVIOUS
    <2>1. CASE \E c \in Containers, a \in Apps, p \in SUBSET PermBits :
                   CreateToken(c, a, p)
        <3>1. PICK c \in Containers, a \in Apps, p \in SUBSET PermBits :
                   CreateToken(c, a, p)
            BY <2>1
        <3>2. token_count < MaxTokens
            BY <3>1 DEF CreateToken
        <3>3. Occupied # Slots /\ FirstFree = token_count + 1
            BY <3>2, FirstFreeIsNext DEF IInv
        <3>4. tokens' = [tokens EXCEPT ![token_count + 1] = 
                           [token_id |-> next_token_id, container_id |-> c,
                            app_id |-> a, permissions |-> p, flags |-> {}]]
            BY <3>1, <3>3 DEF CreateToken
        <3>5. \A i \in Occupied : tokens'[i] = tokens[i]
            BY <3>4 DEF IInv, TypeOK, PoolInIssueOrder, Occupied
        <3>6. QED
            BY <3>5 DEF ResidentRecordsKept, Occupied
    <2>2. CASE \E id \in RevokeIds : Revoke(id)
        <3>1. PICK id \in RevokeIds : Revoke(id)
            BY <2>2
        <3>2. id \in 1..token_count
            BY <3>1, FirstMatchIsId DEF IInv, Revoke
        <3>3. FirstMatch(id) = id /\ Matching(id) # {}
            BY <3>2, FirstMatchIsId DEF IInv
        <3>4. tokens' = [tokens EXCEPT ![id].flags = @ \cup {REVOKED}]
            BY <3>1, <3>3 DEF Revoke
        <3>5. id \in Occupied /\ tokens[id] \in Token
            BY <3>2 DEF IInv, PoolInIssueOrder, TypeOK, Occupied
        <3>6. tokens'[id] = [tokens[id] EXCEPT !.flags = @ \cup {REVOKED}]
            BY <3>4, <3>5 DEF IInv, TypeOK, Occupied
        <3>7. tokens'[id] # None
            BY <3>5, <3>6, NoneAssumption DEF Token, FlagNames
        <3>8. \A i \in Occupied \ {id} : tokens'[i] = tokens[i]
            BY <3>4, <3>5 DEF IInv, TypeOK, Occupied
        <3>9. ASSUME NEW i \in Occupied
              PROVE  /\ tokens'[i] # None
                     /\ tokens'[i].token_id = tokens[i].token_id
                     /\ tokens'[i].permissions = tokens[i].permissions
                     /\ tokens[i].flags \subseteq tokens'[i].flags
            <4>1. CASE i = id
                BY <4>1, <3>5, <3>6, <3>7 DEF Token
            <4>2. CASE i # id
                BY <4>2, <3>8 DEF Occupied
            <4>3. QED
                BY <4>1, <4>2
        <3>10. QED
            BY <3>9 DEF ResidentRecordsKept
    <2>3. QED
        BY <2>1, <2>2 DEF Next, vars, CreateTokenNoMemory, Verify, CheckPermission
<1>2. QED
    BY <1>1, IInvHolds, PTL DEF Spec, RevocationPermanent

(* A step that hands out a new copy is a create_token below capacity, and *)
(* the id it issues is one past the live tokens, whose ids are their slot  *)
(* numbers; every copy already held names one of those live tokens.        *)
LEMMA IssuedIdsStep ==
    IInv /\ [Next]_vars =>
        [\A t \in held' \ held, u \in held : t.token_id > u.token_id]_held
<1> SUFFICES ASSUME IInv, [Next]_vars, held' # held
             PROVE  \A t \in held' \ held, u \in held : t.token_id > u.token_id
    OBVIOUS
<1>1. PICK c \in Containers, a \in Apps, p \in SUBSET PermBits : CreateToken(c, a, p)
    BY DEF Next, CreateTokenNoMemory, Verify, Revoke, CheckPermission, vars
<1>2. token_count < MaxTokens
    BY <1>1 DEF CreateToken
<1>3. Occupied # Slots
    BY <1>2, FirstFreeIsNext DEF IInv
<1>4. held' \ held \subseteq {[token_id |-> next_token_id, container_id |-> c, app_id |-> a,
                                permissions |-> p, flags |-> {}]}
    BY <1>1, <1>3 DEF CreateToken
<1>5. \A u \in held : u.token_id < next_token_id
    BY DEF IInv, CopiesBoundToIssuance, PoolInIssueOrder, TypeOK
<1> QED
    BY <1>4, <1>5

(* Every token create_token returns carries an id greater than every token *)
(* it returned before (spec section 8), for every MAX_TOKENS: ids come     *)
(* from the counter, which only grows, and no copy outlives its record.    *)
THEOREM IssuedIdsIncreaseHolds == Spec => IssuedIdsIncrease
BY IInvHolds, IssuedIdsStep, PTL DEF Spec, IssuedIdsIncrease

=============================================================================
