------------------------------ MODULE Providers ------------------------------
(***************************************************************************)
(* The provider profile of a user (venue-booking-service                   *)
(* domain/provider.ts, handleAccountLocked in lib/eventConsumer.ts) and    *)
(* the provider role it brings (account-service domain/providerRole.ts).   *)
(*                                                                         *)
(* A profile is registered, then approved or rejected by an admin whose    *)
(* call checks the status before its transaction and not in it.  A lock of *)
(* the account suspends an approved profile and an unlock restores it; the *)
(* AccountLocked events arrive in any order and venue never looks at their *)
(* version.                                                                *)
(***************************************************************************)
EXTENDS Naturals

CONSTANTS Applicants,       \* the users who apply
          MaxAccountChanges \* bound: locks and unlocks per account

ASSUME ProvidersAssumption == MaxAccountChanges \in Nat

ProfileStates == {"none", "pending", "approved", "rejected", "suspended"}
AccountEvents == [target : Applicants, version : 1..MaxAccountChanges]

VARIABLES profile,     \* Provider.status
          byLock,      \* Provider.suspendedByAccountLock
          decisions,   \* approve and reject calls past their status check
          changes,     \* the locks and unlocks of each account so far
          accountEvents, \* AccountLocked events not yet acknowledged by venue
          processed,   \* venue's ProcessedEvents
          grants,      \* ProviderApproved events not yet acknowledged by account-service
          owners       \* users with the role provider

profileVars == <<profile, byLock, decisions>>
eventVars == <<changes, accountEvents, processed>>
providersVars == <<profileVars, eventVars, grants, owners>>

ProvidersTypeOK ==
    /\ profile \in [Applicants -> ProfileStates]
    /\ byLock \in [Applicants -> BOOLEAN]
    /\ decisions \subseteq [kind : {"approve", "reject"}, target : Applicants]
    /\ changes \in [Applicants -> 0..MaxAccountChanges]
    /\ accountEvents \subseteq AccountEvents
    /\ processed \subseteq AccountEvents
    /\ grants \subseteq Applicants
    /\ owners \subseteq Applicants

ProvidersInit ==
    /\ profile = [u \in Applicants |-> "none"]
    /\ byLock = [u \in Applicants |-> FALSE]
    /\ decisions = {}
    /\ changes = [u \in Applicants |-> 0]
    /\ accountEvents = {} /\ processed = {}
    /\ grants = {} /\ owners = {}

-----------------------------------------------------------------------------
(* Registration and the admin's decision *)

RegisterProvider(u) ==
    /\ profile[u] \in {"none", "rejected"}
    /\ profile' = [profile EXCEPT ![u] = "pending"]
    /\ UNCHANGED <<byLock, decisions, eventVars, grants, owners>>

(* Both decisions read the status here, and only here.                     *)
CheckPending(u, kind) ==
    /\ profile[u] = "pending"
    /\ decisions' = decisions \cup {[kind |-> kind, target |-> u]}
    /\ UNCHANGED <<profile, byLock, eventVars, grants, owners>>

ApproveProvider(d) ==
    /\ d.kind = "approve"
    /\ profile' = [profile EXCEPT ![d.target] = "approved"]
    /\ grants' = grants \cup {d.target}
    /\ decisions' = decisions \ {d}
    /\ UNCHANGED <<byLock, eventVars, owners>>

RejectProvider(d) ==
    /\ d.kind = "reject"
    /\ profile' = [profile EXCEPT ![d.target] = "rejected"]
    /\ decisions' = decisions \ {d}
    /\ UNCHANGED <<byLock, eventVars, grants, owners>>

GrantProviderRole(u) ==
    /\ u \in grants
    /\ owners' = owners \cup {u}
    /\ grants' \in {grants, grants \ {u}}
    /\ UNCHANGED <<profileVars, eventVars>>

-----------------------------------------------------------------------------
(* The account is locked and unlocked in turn, and venue hears of it *)

IsLock(e) == e.version % 2 = 1

AccountChanges(u) ==
    /\ changes[u] < MaxAccountChanges
    /\ changes' = [changes EXCEPT ![u] = @ + 1]
    /\ accountEvents' = accountEvents \cup {[target |-> u, version |-> changes[u] + 1]}
    /\ UNCHANGED <<profileVars, processed, grants, owners>>

\* Mutant: the mark of the lock is enough.
RestoresTheMarked(e) == ~IsLock(e) /\ byLock[e.target]

Suspends(e) == IsLock(e) /\ profile[e.target] = "approved"
Restores(e) == ~IsLock(e) /\ byLock[e.target] /\ profile[e.target] = "suspended"

VenueAccountLocked(e) ==
    /\ LET u == e.target
           suspends == e \notin processed /\ Suspends(e)
           restores == e \notin processed /\ Restores(e)
       IN  /\ profile' = [profile EXCEPT ![u] = IF suspends THEN "suspended"
                                                ELSE IF restores THEN "approved" ELSE @]
           /\ byLock' = [byLock EXCEPT ![u] = (@ \/ suspends) /\ ~restores]
    /\ processed' = processed \cup {e}
    /\ accountEvents' \in {accountEvents, accountEvents \ {e}}
    /\ UNCHANGED <<decisions, changes, grants, owners>>

ProvidersNext ==
    \/ \E u \in Applicants :
         \/ RegisterProvider(u)
         \/ \E k \in {"approve", "reject"} : CheckPending(u, k)
         \/ GrantProviderRole(u)
         \/ AccountChanges(u)
    \/ \E d \in decisions : ApproveProvider(d) \/ RejectProvider(d)
    \/ \E e \in accountEvents : VenueAccountLocked(e)

ProvidersSpec == ProvidersInit /\ [][ProvidersNext]_providersVars

-----------------------------------------------------------------------------
(* Unlocking an account never approves a profile: one that becomes         *)
(* approved is approved by an admin, or was suspended by the lock, even    *)
(* when an approval and a rejection of the same profile both commit and    *)
(* leave the lock's mark behind (provider.ts:87-139,                       *)
(* lib/eventConsumer.ts:36-50).                                            *)
UnlockNeverApproves ==
    [][\A u \in Applicants :
         (profile[u] # "approved" /\ profile'[u] = "approved")
           => \/ [kind |-> "approve", target |-> u] \in decisions
              \/ profile[u] = "suspended"]_providersVars
=============================================================================
