-------------------------- MODULE CapabilityStore --------------------------
(***************************************************************************)
(* What the capability manager promises about the tokens it keeps         *)
(* (spec sections 3 and 4.1), with no slots, counters or copies: a map     *)
(* from the ids issued so far to what was granted, and the set of those   *)
(* ids that have been revoked.                                             *)
(*                                                                         *)
(*  - issue adds ONE new id of Ids, greater than every id issued before,   *)
(*    with a fresh, unrevoked grant; since kept ids are never dropped, at   *)
(*    most |Ids| tokens are ever issued;                                   *)
(*  - revoke marks a kept id revoked;                                      *)
(*  - nothing else changes the map: no id is forgotten, rebound to another *)
(*    grant, or un-revoked.                                                *)
(***************************************************************************)
EXTENDS Naturals

CONSTANTS
    Ids,          \* the token ids the store may hand out, in increasing order
    Containers,   \* container ids
    Apps,         \* app ids
    PermBits      \* permission bits

Grant == [container_id : Containers, app_id : Apps, permissions : SUBSET PermBits]

VARIABLES
    issued,    \* id -> Grant, for every id issued and kept
    revoked    \* the kept ids that have been revoked

svars == <<issued, revoked>>

StoreTypeOK ==
    /\ DOMAIN issued \subseteq Ids
    /\ issued \in [DOMAIN issued -> Grant]
    /\ revoked \subseteq DOMAIN issued

StoreInit ==
    /\ issued = [id \in {} |-> CHOOSE g \in Grant : TRUE]
    /\ revoked = {}

(* Issue a token for container c, app a with permissions p. *)
Issue(c, a, p) ==
    /\ \E id \in Ids \ DOMAIN issued :
          /\ \A j \in DOMAIN issued : j < id
          /\ issued' = [j \in DOMAIN issued \cup {id} |->
                          IF j = id THEN [container_id |-> c, app_id |-> a, permissions |-> p]
                          ELSE issued[j]]
    /\ UNCHANGED revoked

(* Revoke a kept token. *)
RevokeId(id) ==
    /\ id \in DOMAIN issued
    /\ revoked' = revoked \cup {id}
    /\ UNCHANGED issued

StoreNext ==
    \/ \E c \in Containers, a \in Apps, p \in SUBSET PermBits : Issue(c, a, p)
    \/ \E id \in DOMAIN issued : RevokeId(id)

StoreSpec == StoreInit /\ [][StoreNext]_svars

=============================================================================
