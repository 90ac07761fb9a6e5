----------------------------- MODULE Memberships -----------------------------
(***************************************************************************)
(* The members of one tenant: role changes, removals, invitations,         *)
(* transfer of ownership and users an administrator registers              *)
(* (auth-server/src/handlers/manage.rs, extra.rs and admin.rs over         *)
(* MembershipStore and InvitationStore in auth-core/src/store/pg.rs).      *)
(* Every statement selects by tenant, so tenants do not interact.          *)
(*                                                                         *)
(* Requests are concurrent.  A handler reads with one statement, decides   *)
(* in the process and writes with another; only accept and                 *)
(* admin_create_user are transactions.  A request that is refused changes  *)
(* nothing and is no step; one can also be dropped between two statements. *)
(***************************************************************************)
EXTENDS Policy

CONSTANTS
  Members,      \* the users who can belong to the tenant
  Founder,      \* the owner when the requests begin
  Requests,     \* concurrent requests, each used once
  NewRoles,     \* the roles the requests name
  Invites       \* invitations that can be created

ASSUME MembershipAssumption ==
  /\ IsFiniteSet(Members) /\ Founder \in Members
  /\ NewRoles \subseteq KnownRoles

VARIABLES
  member,       \* memberships of the tenant, by user
  invitation,   \* invitations of the tenant
  request,      \* where each request is, and what it has read
  accepted,     \* history: who used each invitation
  cancelled,    \* history: the invitations cancelled, with their users then
  bypassed,     \* history: a write that no count of the owners guards has happened
  overlapped    \* history: two requests with such a count were in progress at once

membershipVars == <<member, invitation, request, accepted, cancelled, bypassed, overlapped>>

NotMember == [role |-> "none", active |-> FALSE]
NoInvite == [role |-> "none", used |-> 0, max |-> 0]
Ready == [at |-> "ready"]
Over == [at |-> "over"]

Active(u) == member[u].active
Owners == {u \in Members : Active(u) /\ member[u].role = "OWNER"}

MembershipTypeOK ==
  /\ member \in [Members -> [role : KnownRoles, active : BOOLEAN] \cup {NotMember}]
  /\ invitation \in [Invites -> [role : KnownRoles, used : 0 .. 1, max : 0 .. 1] \cup {NoInvite}]
  /\ \A k \in Requests : request[k].at \in {"ready", "target", "count", "write", "promote", "over"}

(* The founder owns the tenant; the others have joined in some role or not. *)
MembershipInit ==
  /\ member \in {m \in [Members -> {NotMember} \cup [role : NewRoles, active : {TRUE}]] :
                   m[Founder].role = "OWNER"}
  /\ invitation = [i \in Invites |-> NoInvite]
  /\ request = [k \in Requests |-> Ready]
  /\ accepted = [i \in Invites |-> {}]
  /\ cancelled = [i \in Invites |-> {}]
  /\ bypassed = FALSE /\ overlapped = FALSE

-------------------------------------------------------------------------------
(* authorize_role_change and authorize_member_removal; ownerCount matters  *)
(* only for a target that is an owner.                                     *)

(* Mutant: the last owner is not looked at. *)
AuthorizeAnyRoleChange(caller, target, new, ownerCount) ==
  /\ IsKnownRole(new)
  /\ IsAtLeast(caller, new)
  /\ IsAtLeast(caller, target)

AuthorizeRoleChange(caller, target, new, ownerCount) ==
  /\ IsKnownRole(new)
  /\ IsAtLeast(caller, new)
  /\ IsAtLeast(caller, target)
  /\ ~(target = "OWNER" /\ new # "OWNER" /\ ownerCount <= 1)

AuthorizeMemberRemoval(caller, target, ownerCount) ==
  /\ IsAtLeast(caller, target)
  /\ ~(target = "OWNER" /\ ownerCount <= 1)

-------------------------------------------------------------------------------
(* patch_member and delete_member, in four statements. *)

Removal == "removal"
InProgress(k) == request[k].at \in {"target", "count", "write"}

(* require_tenant_permission: the caller's membership is active and its    *)
(* role has the permission.                                                *)
RequirePermission(k, caller, target, new) ==
  /\ request[k] = Ready
  /\ Active(caller)
  /\ Can(member[caller].role,
         IF new = Removal THEN "remove_members" ELSE "change_member_role")
  /\ request' = [request EXCEPT ![k] =
       [at |-> "target", callerRole |-> member[caller].role, target |-> target, new |-> new]]
  /\ overlapped' = (overlapped \/ \E other \in Requests : InProgress(other))
  /\ UNCHANGED <<member, invitation, accepted, cancelled, bypassed>>

(* member_in_tenant: the target is an active member of the tenant. *)
MemberInTenant(k) ==
  /\ request[k].at = "target"
  /\ LET r == request[k] IN
     /\ Active(r.target)
     /\ request' = [request EXCEPT ![k] =
          [at |-> IF member[r.target].role = "OWNER" THEN "count" ELSE "write",
           callerRole |-> r.callerRole, target |-> r.target, new |-> r.new,
           targetRole |-> member[r.target].role, owners |-> Cardinality(Members) + 1]]
  /\ UNCHANGED <<member, invitation, accepted, cancelled, bypassed, overlapped>>

(* count_active_owners *)
CountActiveOwners(k) ==
  /\ request[k].at = "count"
  /\ request' = [request EXCEPT ![k].at = "write", ![k].owners = Cardinality(Owners)]
  /\ UNCHANGED <<member, invitation, accepted, cancelled, bypassed, overlapped>>

(* patch_member: authorize_role_change, update_role *)
PatchMember(k) ==
  /\ request[k].at = "write" /\ request[k].new # Removal
  /\ LET r == request[k] IN
     /\ AuthorizeRoleChange(r.callerRole, r.targetRole, r.new, r.owners)
     /\ member' = [member EXCEPT ![r.target].role = r.new]
  /\ request' = [request EXCEPT ![k] = Over]
  /\ UNCHANGED <<invitation, accepted, cancelled, bypassed, overlapped>>

(* delete_member: authorize_member_removal, deactivate *)
DeleteMember(k) ==
  /\ request[k].at = "write" /\ request[k].new = Removal
  /\ LET r == request[k] IN
     /\ AuthorizeMemberRemoval(r.callerRole, r.targetRole, r.owners)
     /\ member' = [member EXCEPT ![r.target].active = FALSE]
  /\ request' = [request EXCEPT ![k] = Over]
  /\ UNCHANGED <<invitation, accepted, cancelled, bypassed, overlapped>>

-------------------------------------------------------------------------------
(* transfer_ownership: the caller, in whatever role, becomes ADMIN; then   *)
(* the target is looked up and becomes OWNER.                              *)
TransferDemote(k, from, to) ==
  /\ request[k] = Ready
  /\ member[from] # NotMember
  /\ member' = [member EXCEPT ![from].role = "ADMIN"]
  /\ request' = [request EXCEPT ![k] = [at |-> "promote", to |-> to]]
  /\ bypassed' = TRUE
  /\ UNCHANGED <<invitation, accepted, cancelled, overlapped>>

(* The promotion changes the role of a removed member too, and leaves the  *)
(* row inactive.  A target that never was a member ends the request here.  *)
TransferPromote(k) ==
  /\ request[k].at = "promote"
  /\ member' = IF member[request[k].to] = NotMember THEN member
               ELSE [member EXCEPT ![request[k].to].role = "OWNER"]
  /\ request' = [request EXCEPT ![k] = Over]
  /\ UNCHANGED <<invitation, accepted, cancelled, bypassed, overlapped>>

-------------------------------------------------------------------------------
(* create_invitation: any signed-in user; a code admits one. *)
CreateInvitation(i, role) ==
  /\ invitation[i] = NoInvite
  /\ invitation' = [invitation EXCEPT ![i] = [role |-> role, used |-> 0, max |-> 1]]
  /\ UNCHANGED <<member, request, accepted, cancelled, bypassed, overlapped>>

(* cancel: max_uses becomes 0. *)
CancelInvitation(i) ==
  /\ invitation[i] # NoInvite /\ invitation[i].max > 0
  /\ invitation' = [invitation EXCEPT ![i].max = 0]
  /\ cancelled' = [cancelled EXCEPT ![i] = {accepted[i]}]
  /\ UNCHANGED <<member, request, accepted, bypassed, overlapped>>

(* is_usable_at *)
Usable(i) == invitation[i].used < invitation[i].max

(* Mutant: a cancelled invitation is only one that was used. *)
UsableUnlessUsed(i) == invitation[i] # NoInvite /\ invitation[i].used = 0

(* Mutant: the use is not counted. *)
AcceptUncounted(i, u) ==
  /\ Usable(i)
  /\ member' = [member EXCEPT ![u] = [role |-> invitation[i].role, active |-> TRUE]]
  /\ accepted' = [accepted EXCEPT ![i] = @ \cup {u}]
  /\ bypassed' = TRUE
  /\ UNCHANGED <<invitation, request, cancelled, overlapped>>

(* accept, in one transaction that locks the invitation: an upsert, so it  *)
(* sets the role of somebody who is a member already and brings a removed  *)
(* member back.                                                            *)
AcceptInvite(i, u) ==
  /\ Usable(i)
  /\ invitation' = [invitation EXCEPT ![i].used = @ + 1]
  /\ member' = [member EXCEPT ![u] = [role |-> invitation[i].role, active |-> TRUE]]
  /\ accepted' = [accepted EXCEPT ![i] = @ \cup {u}]
  /\ bypassed' = TRUE
  /\ UNCHANGED <<request, cancelled, overlapped>>

(* admin_create_user, in one transaction; normalize_new_user admits every  *)
(* known role but OWNER.                                                   *)
AdminCreateUser(k, u, role) ==
  /\ request[k] = Ready
  /\ IsKnownRole(role) /\ role # "OWNER"
  /\ member' = [member EXCEPT ![u] = [role |-> role, active |-> TRUE]]
  /\ request' = [request EXCEPT ![k] = Over]
  /\ bypassed' = TRUE
  /\ UNCHANGED <<invitation, accepted, cancelled, overlapped>>

(* The client goes away, or the process dies, between two statements; a    *)
(* request that is refused ends here too.                                  *)
Abandon(k) ==
  /\ request[k] \notin {Ready, Over}
  /\ request' = [request EXCEPT ![k] = Over]
  /\ UNCHANGED <<member, invitation, accepted, cancelled, bypassed, overlapped>>

MembershipNext ==
  \/ \E k \in Requests :
       \/ \E caller, target \in Members, new \in NewRoles \cup {Removal} :
            RequirePermission(k, caller, target, new)
       \/ MemberInTenant(k) \/ CountActiveOwners(k) \/ PatchMember(k) \/ DeleteMember(k)
       \/ \E from, to \in Members : TransferDemote(k, from, to)
       \/ TransferPromote(k)
       \/ \E u \in Members, role \in NewRoles : AdminCreateUser(k, u, role)
       \/ Abandon(k)
  \/ \E i \in Invites :
       \/ \E role \in NewRoles : CreateInvitation(i, role)
       \/ CancelInvitation(i)
       \/ \E u \in Members : AcceptInvite(i, u)

-------------------------------------------------------------------------------
(* Properties. *)

(***************************************************************************)
(* The count of patch_member and delete_member protects the last owner as  *)
(* long as such requests do not overlap and nothing else sets a role: the  *)
(* tenant then always has an active owner.                                 *)
(***************************************************************************)
OwnerKeptSerially == ~bypassed /\ ~overlapped => Owners # {}

(***************************************************************************)
(* An invitation admits as many as it was made for (accept locks its row), *)
(* and nobody once it was cancelled.                                       *)
(***************************************************************************)
InvitationHonoured ==
  \A i \in Invites :
    /\ Cardinality(accepted[i]) <= 1
    /\ \A atCancel \in cancelled[i] : accepted[i] = atCancel

(***************************************************************************)
(* manage.rs refuses to demote or remove the last OWNER, because that      *)
(* leaves a tenant "nobody can manage": a tenant whose roles are changed   *)
(* by patch_member and delete_member only keeps an active owner.           *)
(***************************************************************************)
LastOwnerProtected == ~bypassed => Owners # {}
=============================================================================
