------------------------------ MODULE Accounts ------------------------------
(***************************************************************************)
(* Locking an account, and community's copy of the lock                    *)
(* (account-service domain/adminAccounts.ts, eventbus accountLock.ts,      *)
(* community-service lib/accountLockedConsumer.ts).                        *)
(*                                                                         *)
(* account-service owns the standing of a user.  A lock is decided under   *)
(* one advisory lock, an unlock is not: it trusts a status it read before  *)
(* its transaction.  Each change writes an AccountLocked event with a new  *)
(* version, then publishes a flag to Redis outside the transaction.  The   *)
(* event reaches community in any order and more than once, and community  *)
(* keeps the newest version it has seen.                                   *)
(***************************************************************************)
EXTENDS Naturals, FiniteSets

CONSTANTS Users,          \* the accounts
          Admins,         \* the ones with the admin role
          MaxChanges,     \* bound: changes of standing
          MaxAdminCalls   \* bound: lock and unlock calls at a time

ASSUME AccountsAssumption ==
    /\ IsFiniteSet(Users) /\ Admins \subseteq Users /\ Admins # {}
    /\ MaxChanges \in Nat /\ MaxAdminCalls \in Nat

Standings == {"active", "locked"}
LockVersions == 0..MaxChanges
AdminCalls == [kind : {"lock", "unlock"}, actor : Admins, target : Users,
               at : {"checked", "committed"}]
Notices == [target : Users, locked : BOOLEAN, version : LockVersions, retried : BOOLEAN]

VARIABLES standing,     \* User.status
          lockVersion,  \* User.accountLockVersion
          adminCalls,   \* lock and unlock calls under way
          flagged,      \* users whose key account-locked:<id> is in Redis
          notices,      \* AccountLocked events not yet acknowledged by community
          noticed,      \* community's ProcessedEvents
          missed,       \* users of whom community dropped an event
          replica       \* community's AccountLock rows

accountVars == <<standing, lockVersion, adminCalls>>
communityVars == <<notices, noticed, missed, replica>>
accountsVars == <<accountVars, flagged, communityVars>>

AccountsTypeOK ==
    /\ standing \in [Users -> Standings]
    /\ lockVersion \in [Users -> LockVersions]
    /\ adminCalls \subseteq AdminCalls
    /\ flagged \subseteq Users
    /\ notices \subseteq Notices
    /\ noticed \subseteq Users \X LockVersions
    /\ missed \subseteq Users
    /\ replica \in [Users -> [locked : BOOLEAN, version : LockVersions]]

AccountsInit ==
    /\ standing = [u \in Users |-> "active"]
    /\ lockVersion = [u \in Users |-> 0]
    /\ adminCalls = {} /\ flagged = {}
    /\ notices = {} /\ noticed = {} /\ missed = {}
    /\ replica = [u \in Users |-> [locked |-> FALSE, version |-> 0]]

-----------------------------------------------------------------------------
(* Locking and unlocking *)

ActiveAdmins == {a \in Admins : standing[a] = "active"}

\* Mutant: only the checks that lockAccount makes before its transaction count.
MayLockAsRead(actor, target) == TRUE

(* The checks it makes inside, under the advisory lock every lock takes.   *)
MayLockNow(actor, target) ==
    /\ standing[actor] = "active"
    /\ standing[target] # "locked"
    /\ target \in Admins => ActiveAdmins \ {target} # {}

(* lockAccount and unlockAccount read the target before their transaction; *)
(* the caller has an admin token and is not flagged in Redis.              *)
CallLockOrUnlock(actor, target, kind) ==
    /\ actor \notin flagged /\ Cardinality(adminCalls) < MaxAdminCalls
    /\ \/ kind = "lock" /\ actor # target /\ standing[target] # "locked"
       \/ kind = "unlock" /\ standing[target] = "locked"
    /\ adminCalls' = adminCalls \cup
         {[kind |-> kind, actor |-> actor, target |-> target, at |-> "checked"]}
    /\ UNCHANGED <<standing, lockVersion, flagged, communityVars>>

Changed == {x \in Users \X LockVersions : x[2] \in 1..lockVersion[x[1]]}

(* The change of standing, its version and its event, in one transaction.  *)
ChangeStanding(c, to) ==
    LET v == lockVersion[c.target] + 1
    IN  /\ Cardinality(Changed) < MaxChanges
        /\ standing' = [standing EXCEPT ![c.target] = to]
        /\ lockVersion' = [lockVersion EXCEPT ![c.target] = v]
        /\ notices' = notices \cup {[target |-> c.target, locked |-> (to = "locked"),
                                     version |-> v, retried |-> FALSE]}
        /\ adminCalls' = (adminCalls \ {c}) \cup {[c EXCEPT !.at = "committed"]}
        /\ UNCHANGED <<flagged, noticed, missed, replica>>

CommitLock(c) ==
    /\ c.kind = "lock" /\ c.at = "checked"
    /\ MayLockNow(c.actor, c.target)
    /\ ChangeStanding(c, "locked")

RefuseLock(c) ==
    /\ c.kind = "lock" /\ c.at = "checked"
    /\ ~MayLockNow(c.actor, c.target)
    /\ adminCalls' = adminCalls \ {c}
    /\ UNCHANGED <<standing, lockVersion, flagged, communityVars>>

CommitUnlock(c) ==
    /\ c.kind = "unlock" /\ c.at = "checked"
    /\ ChangeStanding(c, "active")

(* publishLockState: the write to Redis may fail, which is only logged.    *)
PublishLockState(c) ==
    /\ c.at = "committed"
    /\ flagged' \in {flagged,
         IF c.kind = "lock" THEN flagged \cup {c.target} ELSE flagged \ {c.target}}
    /\ adminCalls' = adminCalls \ {c}
    /\ UNCHANGED <<standing, lockVersion, communityVars>>

(* account-service starts: it flags the accounts that are locked, and      *)
(* clears no flag.  The calls under way died with the old process.         *)
SyncLockedAccounts ==
    /\ flagged' = flagged \cup {u \in Users : standing[u] = "locked"}
    /\ adminCalls' = {}
    /\ UNCHANGED <<standing, lockVersion, communityVars>>

-----------------------------------------------------------------------------
(* community's consumer.  A message that fails is requeued once and        *)
(* dropped the second time; one that succeeds may be delivered again.      *)

NoticeKey(n) == <<n.target, n.version>>

\* Mutant: the order of arrival decides.
IsUnseen(n) == NoticeKey(n) \notin noticed

IsNewer(n) ==
    /\ NoticeKey(n) \notin noticed
    /\ replica[n.target].version < n.version

CommunityAccountLocked(n) ==
    /\ replica' = IF IsNewer(n)
                  THEN [replica EXCEPT ![n.target] = [locked |-> n.locked, version |-> n.version]]
                  ELSE replica
    /\ noticed' = noticed \cup {NoticeKey(n)}
    /\ notices' \in {notices, notices \ {n}}
    /\ UNCHANGED <<accountVars, flagged, missed>>

NoticeFails(n) ==
    /\ notices' = (notices \ {n}) \cup
                    (IF n.retried THEN {} ELSE {[n EXCEPT !.retried = TRUE]})
    /\ missed' = IF n.retried THEN missed \cup {n.target} ELSE missed
    /\ UNCHANGED <<accountVars, flagged, noticed, replica>>

AccountsNext ==
    \/ \E a \in Admins, u \in Users, k \in {"lock", "unlock"} : CallLockOrUnlock(a, u, k)
    \/ \E c \in adminCalls :
         \/ CommitLock(c)
         \/ RefuseLock(c)
         \/ CommitUnlock(c)
         \/ PublishLockState(c)
    \/ SyncLockedAccounts
    \/ \E n \in notices : CommunityAccountLocked(n) \/ NoticeFails(n)

AccountsSpec == AccountsInit /\ [][AccountsNext]_accountsVars

-----------------------------------------------------------------------------
(* Two admins who lock each other at the same moment, or in turn, never    *)
(* leave the platform without an active admin (lockAccount,                *)
(* adminAccounts.ts:50-62).                                                *)
AnAdminRemains == ActiveAdmins # {}

(* Once no AccountLocked event of a user is on its way to community, and   *)
(* none was dropped after its second failure, community's copy agrees with *)
(* the account, whatever the order, repetition and interleaving of locks   *)
(* and unlocks (handleAccountLocked, accountLockedConsumer.ts:18-35).      *)
CommunityFollowsTheAccount ==
    \A u \in Users :
      \/ u \in missed
      \/ \E n \in notices : n.target = u
      \/ replica[u] = [locked |-> (standing[u] = "locked"), version |-> lockVersion[u]]
=============================================================================
