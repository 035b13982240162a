------------------------- MODULE CapabilityManager -------------------------
(***************************************************************************)
(* The capability manager of the kernel HAL                                *)
(* (src/kernel/hal/capability/manager.rs, token.rs, mod.rs).               *)
(*                                                                         *)
(* The manager owns a fixed array of MAX_TOKENS optional token slots, a    *)
(* live count and an issuance counter.  create_token hands the caller a    *)
(* COPY of the token it stores (CapabilityToken is Copy); callers keep     *)
(* those copies and present them later to verify and check_permission.     *)
(* revoke mutates only the resident record.  The variable `held` is the    *)
(* set of copies callers hold; `last` records what the last call returned, *)
(* so that properties can relate a decision to the resident state.         *)
(*                                                                         *)
(* Every method takes &mut self or &self, so calls are atomic steps and    *)
(* the interleaving is that of callers taking turns on the manager.        *)
(***************************************************************************)
EXTENDS Naturals

CONSTANTS
    MaxTokens,    \* MAX_TOKENS (4096 in the code)
    Containers,   \* container_id values callers pass
    Apps,         \* app_id values callers pass
    PermBits,     \* the Permission bits a token may carry
    None          \* the empty slot, Option::None

ASSUME MaxTokensAssumption == MaxTokens \in Nat \ {0}

(* TokenFlags bits (token.rs lines 6-11). *)
SIGNED == "SIGNED"
REVOKED == "REVOKED"
EXPIRED == "EXPIRED"
RESTRICTED == "RESTRICTED"
FlagNames == {SIGNED, REVOKED, EXPIRED, RESTRICTED}

(* A CapabilityToken.  created_time and expiry_time are always 0 and       *)
(* DEFAULT_LIFETIME and no code reads them; the signature is always zero.  *)
Token == [token_id : Nat, container_id : Containers, app_id : Apps,
          permissions : SUBSET PermBits, flags : SUBSET FlagNames]

ASSUME NoneAssumption == None \notin Token

Slots == 1..MaxTokens

VARIABLES
    tokens,         \* slot -> Token or None
    token_count,    \* live count
    next_token_id,  \* issuance counter
    held,           \* the token copies returned to callers
    last            \* the result of the last call

vars == <<tokens, token_count, next_token_id, held, last>>

Results == {"Ok", "NoMemory", "InvalidArg", "PermissionDenied", "True", "False"}
Ops == {"none", "create", "verify", "revoke", "check"}

TypeOK ==
    /\ tokens \in [Slots -> Token \cup {None}]
    /\ token_count \in 0..MaxTokens
    /\ next_token_id \in Nat \ {0}
    /\ held \subseteq Token
    /\ last \in [op : Ops, id : Nat, res : Results]

(* is_valid (token.rs 49-59): validity is a function of the flags only.    *)
IsValid(t) == REVOKED \notin t.flags /\ EXPIRED \notin t.flags

Occupied == {i \in Slots : tokens[i] # None}

(* Mutation: a slot search that does not test is_none takes slot 1. *)
FirstFreeNoCheck == CHOOSE i \in Slots : \A j \in Slots : i <= j

(* The slot search of create_token takes the first empty slot. *)
FirstFree == CHOOSE i \in Slots \ Occupied : \A j \in Slots \ Occupied : i <= j

(* CapabilityManager::new *)
Init ==
    /\ tokens = [i \in Slots |-> None]
    /\ token_count = 0
    /\ next_token_id = 1
    /\ held = {}
    /\ last = [op |-> "none", id |-> 0, res |-> "Ok"]

(* Mutation: the capacity path counting the refused token as live. *)
CreateTokenNoMemoryBump ==
    /\ token_count >= MaxTokens
    /\ last' = [op |-> "create", id |-> 0, res |-> "NoMemory"]
    /\ token_count' = token_count + 1
    /\ UNCHANGED <<tokens, next_token_id, held>>

(* create_token when the live count has reached MAX_TOKENS. *)
CreateTokenNoMemory ==
    /\ token_count >= MaxTokens
    /\ last' = [op |-> "create", id |-> 0, res |-> "NoMemory"]
    /\ UNCHANGED <<tokens, token_count, next_token_id, held>>

(* Mutation: create_token forgetting `self.token_count += 1`. *)
CreateTokenNoCountBump(c, a, p) ==
    LET tok == [token_id |-> next_token_id, container_id |-> c, app_id |-> a,
                permissions |-> p, flags |-> {}]
    IN
    /\ token_count < MaxTokens
    /\ next_token_id' = next_token_id + 1
    /\ Occupied # Slots
    /\ tokens' = [tokens EXCEPT ![FirstFree] = tok]
    /\ held' = held \cup {tok}
    /\ last' = [op |-> "create", id |-> tok.token_id, res |-> "Ok"]
    /\ UNCHANGED token_count

(* Mutation: create_token forgetting `self.next_token_id += 1`. *)
CreateTokenIdReuse(c, a, p) ==
    LET tok == [token_id |-> next_token_id, container_id |-> c, app_id |-> a,
                permissions |-> p, flags |-> {}]
    IN
    /\ token_count < MaxTokens
    /\ Occupied # Slots
    /\ tokens' = [tokens EXCEPT ![FirstFree] = tok]
    /\ token_count' = token_count + 1
    /\ held' = held \cup {tok}
    /\ last' = [op |-> "create", id |-> tok.token_id, res |-> "Ok"]
    /\ UNCHANGED next_token_id

(* create_token below capacity: the id is taken and the counter bumped     *)
(* before the slot search; if no slot is empty the call fails with the id  *)
(* consumed, otherwise the token goes in the first empty slot and the      *)
(* caller receives a copy.                                                 *)
CreateToken(c, a, p) ==
    LET tok == [token_id |-> next_token_id, container_id |-> c, app_id |-> a,
                permissions |-> p, flags |-> {}]
    IN
    /\ token_count < MaxTokens
    /\ next_token_id' = next_token_id + 1
    /\ IF Occupied = Slots
          THEN /\ last' = [op |-> "create", id |-> 0, res |-> "NoMemory"]
               /\ UNCHANGED <<tokens, token_count, held>>
          ELSE /\ tokens' = [tokens EXCEPT ![FirstFree] = tok]
               /\ token_count' = token_count + 1
               /\ held' = held \cup {tok}
               /\ last' = [op |-> "create", id |-> tok.token_id, res |-> "Ok"]

(* verify(token): the presented copy's own flags, then presence of a       *)
(* resident token with the same id.  The resident flags are not read.      *)
VerifyResult(t) ==
    IF ~IsValid(t) THEN "PermissionDenied"
    ELSE IF \E i \in Occupied : tokens[i].token_id = t.token_id THEN "Ok"
    ELSE "InvalidArg"

Verify(t) ==
    /\ last' = [op |-> "verify", id |-> t.token_id, res |-> VerifyResult(t)]
    /\ UNCHANGED <<tokens, token_count, next_token_id, held>>

(* The resident slots holding a token with the id, and the first of them, *)
(* the one iter_mut().find_map returns.                                     *)
Matching(id) == {i \in Occupied : tokens[i].token_id = id}
FirstMatch(id) == CHOOSE s \in Matching(id) : \A j \in Matching(id) : s <= j

(* Mutation: revoke reclaiming the slot (Option::take) instead of       *)
(* flagging the record.                                                    *)
RevokeFreesSlot(id) ==
    /\ Matching(id) # {}
    /\ tokens' = [tokens EXCEPT ![FirstMatch(id)] = None]
    /\ token_count' = token_count - 1
    /\ last' = [op |-> "revoke", id |-> id, res |-> "Ok"]
    /\ UNCHANGED <<next_token_id, held>>

(* revoke(token_id): set REVOKED on the first resident token with the id. *)
Revoke(id) ==
    /\ IF Matching(id) # {}
          THEN /\ tokens' = [tokens EXCEPT ![FirstMatch(id)].flags = @ \cup {REVOKED}]
               /\ last' = [op |-> "revoke", id |-> id, res |-> "Ok"]
          ELSE /\ last' = [op |-> "revoke", id |-> id, res |-> "InvalidArg"]
               /\ UNCHANGED tokens
    /\ UNCHANGED <<token_count, next_token_id, held>>

(* check_permission(token, permission): the presented copy's flags, then   *)
(* whether any bit of the requested Permission is in the copy's grant.     *)
CheckPermissionResult(t, p) == IsValid(t) /\ t.permissions \cap p # {}

CheckPermission(t, p) ==
    /\ last' = [op |-> "check", id |-> t.token_id,
                res |-> IF CheckPermissionResult(t, p) THEN "True" ELSE "False"]
    /\ UNCHANGED <<tokens, token_count, next_token_id, held>>

(* Revoke is called with an id of a resident token, or with ids nobody     *)
(* holds (0 and one past the last that can be issued).                     *)
RevokeIds == 0..(MaxTokens + 1)

Next ==
    \/ CreateTokenNoMemory
    \/ \E c \in Containers, a \in Apps, p \in SUBSET PermBits : CreateToken(c, a, p)
    \/ \E t \in held : Verify(t)
    \/ \E id \in RevokeIds : Revoke(id)
    \/ \E t \in held, p \in SUBSET PermBits : CheckPermission(t, p)

Spec == Init /\ [][Next]_vars

-----------------------------------------------------------------------------
(* Properties                                                              *)

(* The pool is filled front to back in issuance order: the occupied slots *)
(* are exactly 1..token_count, slot i holds the token with id i, and the   *)
(* issuance counter is one past the live count.  So the live count always  *)
(* equals the number of occupied slots, the slot search of create_token    *)
(* (manager.rs 38-49) never fails below capacity, no id is consumed by a   *)
(* failed call, and next_token_id stays at most MAX_TOKENS + 1, far from   *)
(* u32 overflow.                                                           *)
PoolInIssueOrder ==
    /\ Occupied = 1..token_count
    /\ \A i \in Occupied : tokens[i].token_id = i
    /\ next_token_id = token_count + 1

(* Every copy a caller holds is bound to exactly the resident record it    *)
(* was copied from: same identity and grant, and the copy's flags are a    *)
(* subset of the resident's.  A token id is never rebound to another       *)
(* container, app or permission set while callers hold copies of it.       *)
CopiesBoundToIssuance ==
    \A h \in held : \E i \in Occupied :
        /\ tokens[i].token_id = h.token_id
        /\ tokens[i].container_id = h.container_id
        /\ tokens[i].app_id = h.app_id
        /\ tokens[i].permissions = h.permissions
        /\ h.flags \subseteq tokens[i].flags

(* A resident token is never removed, overwritten or un-revoked: no step   *)
(* of the manager changes an occupied slot except by adding flags, so a    *)
(* revocation stays on record (the audit property of spec section 3).      *)
ResidentRecordsKept ==
    \A i \in Occupied :
        /\ tokens'[i] # None
        /\ tokens'[i].token_id = tokens[i].token_id
        /\ tokens'[i].permissions = tokens[i].permissions
        /\ tokens[i].flags \subseteq tokens'[i].flags

(* Every step of the manager keeps the resident records (see above). *)
RevocationPermanent == [][ResidentRecordsKept]_tokens

(* Every token create_token returns has an id greater than every token     *)
(* returned before it (spec section 8, first property).                    *)
IssuedIdsIncrease ==
    [][\A t \in held' \ held, u \in held : t.token_id > u.token_id]_held

(* Spec section 8: after revoke(token_id), verify on a token carrying that *)
(* id reports PermissionDenied and has_permission returns false for every  *)
(* permission.  Both read the presented copy's flags, so a copy obtained   *)
(* before the revocation is still accepted by both.                        *)
RevokedTokenDenied ==
    (\/ last.op = "verify" /\ last.res = "Ok"
     \/ last.op = "check" /\ last.res = "True") =>
        \A i \in Occupied : tokens[i].token_id = last.id => IsValid(tokens[i])



(* Spec 4.1, check_permission: true iff "the requested permission bit is   *)
(* present" in the token's grant.  A Permission is a bitflags value and    *)
(* may name several bits (READ | WRITE); a check that succeeds must find   *)
(* every requested bit granted.  The code tests `permissions & bits != 0`  *)
(* (manager.rs 88), which holds when ANY requested bit is granted.         *)
CombinedPermissionNeedsAll ==
    [][\A t \in held, p \in SUBSET PermBits :
         CheckPermission(t, p) /\ last'.res = "True" => p \subseteq t.permissions]_vars
-----------------------------------------------------------------------------
(* Refinement                                                              *)

(* What a resident token says of its grant. *)
StoreGrant(t) == [container_id |-> t.container_id, app_id |-> t.app_id,
                  permissions |-> t.permissions]

(* The store the slot array represents: each resident id mapped to the    *)
(* grant of the (first) slot holding it.  Copies callers hold, the live    *)
(* count and the issuance counter are hidden.                              *)
AbsIssued ==
    [id \in {tokens[i].token_id : i \in Occupied} |->
        StoreGrant(tokens[CHOOSE i \in Occupied : tokens[i].token_id = id])]

(* The resident ids whose record carries REVOKED. *)
AbsRevoked == {tokens[i].token_id : i \in {j \in Occupied : REVOKED \in tokens[j].flags}}

Store == INSTANCE CapabilityStore
             WITH issued <- AbsIssued, revoked <- AbsRevoked, Ids <- Slots

(* The manager implements the abstract store: every call either issues one *)
(* new id greater than all before it with an unrevoked grant (create_token *)
(* below capacity), marks a kept id revoked (revoke), or changes nothing   *)
(* the store shows (the failing paths, verify, check_permission).  So no   *)
(* sequence of calls loses, rebinds or un-revokes a token, and ids above   *)
(* MAX_TOKENS are never handed out.                                        *)
ImplementsStore == Store!StoreSpec

=============================================================================
