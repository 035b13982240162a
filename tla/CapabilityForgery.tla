------------------------- MODULE CapabilityForgery -------------------------
(***************************************************************************)
(* The capability manager with callers that build tokens themselves.       *)
(* Every field of CapabilityToken is `pub` (token.rs 16-25) and the type   *)
(* is Copy, so code holding no issued token can write a struct literal     *)
(* with any token_id, grant and flags and present it to verify and         *)
(* check_permission.  The signature field that could tell such a token     *)
(* apart is never produced or read.                                        *)
(***************************************************************************)
EXTENDS CapabilityManager

(* A caller builds a token for id with the grant it wants and no flags. *)
Forge(id, c, a, p) ==
    /\ held' = held \cup {[token_id |-> id, container_id |-> c, app_id |-> a,
                           permissions |-> p, flags |-> {}]}
    /\ UNCHANGED <<tokens, token_count, next_token_id, last>>

ForgeryNext ==
    \/ Next
    \/ \E id \in Slots, c \in Containers, a \in Apps, p \in SUBSET PermBits : Forge(id, c, a, p)

ForgerySpec == Init /\ [][ForgeryNext]_vars

(* Spec 4.1, verify: the check that a resident token has the presented     *)
(* token_id "guards against forged or stale copies": a token verify        *)
(* accepts carries exactly the container, app and grant the manager issued *)
(* under that id.  verify compares token_id only (manager.rs 60-63).       *)
ForgedTokenRejected ==
    [][\A t \in held :
         Verify(t) /\ last'.res = "Ok" =>
             \E i \in Occupied : /\ tokens[i].token_id = t.token_id
                                 /\ tokens[i].container_id = t.container_id
                                 /\ tokens[i].app_id = t.app_id
                                 /\ tokens[i].permissions = t.permissions]_vars

=============================================================================
