--------------------------- MODULE PlatformProofs ---------------------------
(***************************************************************************)
(* Proofs about Accounts, Providers, PartnerInvites and Shutdown, for any  *)
(* users, admins, applicants and players, any number of changes and JOIN   *)
(* rows, and any courts, bookings and shutdowns.                           *)
(*                                                                         *)
(* Community's copy follows the account because of the versions: a notice  *)
(* of the newest version says what the account is, community never holds a *)
(* version the account has not reached, and a key is recorded as processed *)
(* only when the copy is at least as new.                                  *)
(*                                                                         *)
(* A JOIN row that keeps a place has a fee that was handled, and is not    *)
(* refunded; a handled fee without a place is refunded, once and for all:  *)
(* a row that is out stays out.  A step changes few rows, and each of them *)
(* keeps this RowInv.                                                      *)
(*                                                                         *)
(* A booking that a shutdown has taken awaits its item, a person or a      *)
(* refund that was already reported; a booking that no shutdown has taken  *)
(* ends before every cutoff.  SlotInv says this of one booking, its item   *)
(* and the shutdowns.                                                      *)
(***************************************************************************)
EXTENDS Accounts, Providers, PartnerInvites, Shutdown, FiniteSetTheorems, TLAPS

Locked(u) == standing[u] = "locked"

\* What is known of one user.
NoticesAreTrue(u) ==
  \A n \in notices : n.target = u =>
    /\ n.version <= lockVersion[u]
    /\ n.version = lockVersion[u] => n.locked = Locked(u)

ReplicaIsTrue(u) ==
  /\ replica[u].version <= lockVersion[u]
  /\ replica[u].version = lockVersion[u] => replica[u].locked = Locked(u)

NewestIsKept(u) ==
  \/ u \in missed
  \/ \E n \in notices : n.target = u /\ n.version = lockVersion[u]
  \/ replica[u].version = lockVersion[u]

NoticedIsOld(u) ==
  \A v \in LockVersions : <<u, v>> \in noticed => v <= replica[u].version

ReplicaInv ==
  \A u \in Users : NoticesAreTrue(u) /\ ReplicaIsTrue(u) /\ NewestIsKept(u) /\ NoticedIsOld(u)

AccountsInv == AccountsTypeOK /\ AnAdminRemains /\ ReplicaInv

-----------------------------------------------------------------------------
(* The bound on the changes bounds the versions *)

LEMMA VersionsAreBounded ==
  ASSUME AccountsTypeOK, NEW u \in Users, Cardinality(Changed) < MaxChanges
  PROVE  lockVersion[u] + 1 \in LockVersions
<1>1. MaxChanges \in Nat /\ IsFiniteSet(Users)
  BY AccountsAssumption
<1>2. lockVersion[u] \in 0..MaxChanges
  BY DEF AccountsTypeOK, LockVersions
<1>3. IsFiniteSet(0..MaxChanges) /\ IsFiniteSet(1..lockVersion[u])
      /\ Cardinality(1..lockVersion[u]) = lockVersion[u]
  <2>1. 0 \in Int /\ 1 \in Int /\ MaxChanges \in Int /\ lockVersion[u] \in Int
    BY <1>1, <1>2
  <2>2. Cardinality(1..lockVersion[u]) = IF 1 > lockVersion[u] THEN 0 ELSE lockVersion[u] - 1 + 1
    BY <2>1, FS_Interval
  <2>3. IsFiniteSet(0..MaxChanges) /\ IsFiniteSet(1..lockVersion[u])
    BY <2>1, FS_Interval
  <2> QED
    BY <1>2, <2>2, <2>3
<1>4. IsFiniteSet(Users \X LockVersions)
  BY <1>1, <1>3, FS_Product DEF LockVersions
<1>5. IsFiniteSet(Changed)
  BY <1>4, FS_Subset DEF Changed
<1>6. IsFiniteSet({u}) /\ Cardinality({u}) = 1
  BY FS_Singleton
<1>7. Cardinality({u} \X (1..lockVersion[u])) = lockVersion[u]
  <2>1. Cardinality({u} \X (1..lockVersion[u])) = 1 * lockVersion[u]
    BY <1>3, <1>6, FS_Product
  <2> QED
    BY <2>1, <1>2
<1>8. {u} \X (1..lockVersion[u]) \in SUBSET Changed
  <2>1. 1..lockVersion[u] \subseteq LockVersions
    BY <1>1, <1>2 DEF LockVersions
  <2>2. ASSUME NEW v \in 1..lockVersion[u]
        PROVE  <<u, v>> \in Changed
    BY <2>1 DEF Changed
  <2> QED
    BY <2>2
<1>9. lockVersion[u] <= Cardinality(Changed)
  BY <1>5, <1>7, <1>8, FS_Subset
<1>10. Cardinality(Changed) \in Nat
  BY <1>5, FS_CardinalityType
<1> QED
  BY <1>1, <1>2, <1>9, <1>10 DEF LockVersions

-----------------------------------------------------------------------------
(* Accounts *)

LEMMA AccountsInvInit == AccountsInit => AccountsInv
<1> SUFFICES ASSUME AccountsInit PROVE AccountsInv
  OBVIOUS
<1>1. AccountsTypeOK
  BY AccountsAssumption DEF AccountsInit, AccountsTypeOK, LockVersions, Standings
<1>2. AnAdminRemains
  BY AccountsAssumption DEF AccountsInit, AnAdminRemains, ActiveAdmins
<1>3. ReplicaInv
  <2>1. ASSUME NEW u \in Users
        PROVE  /\ NoticesAreTrue(u) /\ ReplicaIsTrue(u) /\ NewestIsKept(u) /\ NoticedIsOld(u)
    <3>1. lockVersion[u] = 0 /\ standing[u] = "active" /\ replica[u].version = 0
          /\ replica[u].locked = FALSE /\ notices = {} /\ noticed = {}
      BY DEF AccountsInit
    <3>2. replica[u].locked = Locked(u)
      BY <3>1, Zenon DEF Locked
    <3>3. ReplicaIsTrue(u)
      BY <3>1, <3>2 DEF ReplicaIsTrue
    <3>4. NoticesAreTrue(u) /\ NoticedIsOld(u)
      BY <3>1 DEF NoticesAreTrue, NoticedIsOld
    <3>5. NewestIsKept(u)
      BY <3>1 DEF NewestIsKept
    <3> QED
      BY <3>3, <3>4, <3>5
  <2> QED
    BY <2>1 DEF ReplicaInv
<1> QED
  BY <1>1, <1>2, <1>3 DEF AccountsInv

\* A step that leaves the account, the notices and the copy alone.
LEMMA ReplicaUntouched ==
  ASSUME ReplicaInv, UNCHANGED <<standing, lockVersion, communityVars>>
  PROVE  ReplicaInv'
BY DEF ReplicaInv, NoticesAreTrue, ReplicaIsTrue, NewestIsKept, NoticedIsOld,
       Locked, communityVars

\* A change of standing gives the account a version nobody has seen.
LEMMA ChangeKeepsReplica ==
  ASSUME AccountsInv, NEW c \in adminCalls, NEW to \in Standings, ChangeStanding(c, to)
  PROVE  AccountsTypeOK' /\ ReplicaInv'
<1> DEFINE t == c.target
           v == lockVersion[t] + 1
           new == [target |-> t, locked |-> (to = "locked"), version |-> v, retried |-> FALSE]
<1>1. c \in AdminCalls /\ t \in Users /\ t \in DOMAIN standing /\ t \in DOMAIN lockVersion
  BY DEF AccountsInv, AccountsTypeOK, AdminCalls
<1>2. v \in LockVersions /\ lockVersion[t] \in Nat
  BY <1>1, VersionsAreBounded, AccountsAssumption
     DEF AccountsInv, AccountsTypeOK, ChangeStanding, LockVersions
<1>3. /\ standing' = [standing EXCEPT ![t] = to]
      /\ lockVersion' = [lockVersion EXCEPT ![t] = v]
      /\ notices' = notices \cup {new}
      /\ UNCHANGED <<noticed, missed, replica, flagged>>
      /\ adminCalls' = (adminCalls \ {c}) \cup {[c EXCEPT !.at = "committed"]}
  BY DEF ChangeStanding
<1>4. AccountsTypeOK'
  <2>1. standing' \in [Users -> Standings] /\ lockVersion' \in [Users -> LockVersions]
    BY <1>1, <1>2, <1>3 DEF AccountsInv, AccountsTypeOK
  <2>2. [c EXCEPT !.at = "committed"] \in AdminCalls
    BY <1>1 DEF AdminCalls
  <2>3. new \in Notices
    BY <1>1, <1>2 DEF Notices
  <2> QED
    BY <1>3, <2>1, <2>2, <2>3 DEF AccountsInv, AccountsTypeOK
<1>5. ASSUME NEW u \in Users
      PROVE  NoticesAreTrue(u)' /\ ReplicaIsTrue(u)' /\ NewestIsKept(u)' /\ NoticedIsOld(u)'
  <2>0. NoticesAreTrue(u) /\ ReplicaIsTrue(u) /\ NewestIsKept(u) /\ NoticedIsOld(u)
    BY DEF AccountsInv, ReplicaInv
  <2>1. NoticedIsOld(u)'
    BY <1>3, <2>0 DEF NoticedIsOld
  <2>2. CASE u # t
    <3>1. lockVersion'[u] = lockVersion[u] /\ standing'[u] = standing[u] /\ new.target # u
      BY <1>3, <2>2
    <3> QED
      BY <1>3, <2>0, <2>1, <3>1 DEF NoticesAreTrue, ReplicaIsTrue, NewestIsKept, Locked
  <2>3. CASE u = t
    <3>1. lockVersion'[u] = v /\ standing'[u] = to
      BY <1>1, <1>3, <2>3 DEF AccountsInv, AccountsTypeOK
    <3>2. new.target = u /\ new.version = v /\ new.locked = (to = "locked")
      BY <2>3
    <3>3. \A n \in notices : n.target = u => n.version \in Nat /\ n.version < v
      BY <1>2, <2>0, <2>3 DEF NoticesAreTrue, AccountsInv, AccountsTypeOK, Notices, LockVersions
    <3>4. replica[u].version \in Nat /\ replica[u].version < v
      BY <1>2, <2>0, <2>3 DEF ReplicaIsTrue, AccountsInv, AccountsTypeOK, LockVersions
    <3>5. NoticesAreTrue(u)'
      BY <1>2, <1>3, <3>1, <3>2, <3>3 DEF NoticesAreTrue, Locked
    <3>6. ReplicaIsTrue(u)'
      BY <1>2, <1>3, <3>1, <3>4 DEF ReplicaIsTrue, Locked
    <3>7. NewestIsKept(u)'
      BY <1>3, <3>1, <3>2 DEF NewestIsKept
    <3> QED
      BY <2>1, <3>5, <3>6, <3>7
  <2> QED
    BY <2>2, <2>3
<1> QED
  BY <1>4, <1>5 DEF ReplicaInv

LEMMA NoticeKeepsReplica ==
  ASSUME AccountsInv, NEW n \in notices, CommunityAccountLocked(n)
  PROVE  AccountsInv'
<1> DEFINE t == n.target
<1>1. n \in Notices /\ t \in Users /\ n.version \in LockVersions /\ n.locked \in BOOLEAN
  BY DEF AccountsInv, AccountsTypeOK, Notices
<1>2. /\ replica' = IF IsNewer(n)
                    THEN [replica EXCEPT ![t] = [locked |-> n.locked, version |-> n.version]]
                    ELSE replica
      /\ noticed' = noticed \cup {<<t, n.version>>}
      /\ notices' \in {notices, notices \ {n}}
      /\ UNCHANGED <<standing, lockVersion, adminCalls, flagged, missed>>
  BY DEF CommunityAccountLocked, NoticeKey, accountVars
<1>3. AccountsTypeOK'
  BY <1>1, <1>2 DEF AccountsInv, AccountsTypeOK
<1>4. AnAdminRemains'
  BY <1>2 DEF AccountsInv, AnAdminRemains, ActiveAdmins
<1>5. \A u \in Users : /\ replica[u].version \in Nat /\ replica'[u].version \in Nat
                       /\ lockVersion[u] \in Nat
  BY <1>3 DEF AccountsInv, AccountsTypeOK, LockVersions
<1>6. ASSUME NEW u \in Users
      PROVE  NoticesAreTrue(u)' /\ ReplicaIsTrue(u)' /\ NewestIsKept(u)' /\ NoticedIsOld(u)'
  <2>0. NoticesAreTrue(u) /\ ReplicaIsTrue(u) /\ NewestIsKept(u) /\ NoticedIsOld(u)
    BY DEF AccountsInv, ReplicaInv
  <2>1. NoticesAreTrue(u)'
    BY <1>2, <2>0 DEF NoticesAreTrue, Locked
  <2>2. CASE u # t
    <3>1. replica'[u] = replica[u]
      BY <1>2, <2>2
    <3>2. \A v \in LockVersions : <<u, v>> \in noticed' => <<u, v>> \in noticed
      BY <1>2, <2>2
    <3>3. \A m \in notices : m.target = u => m \in notices'
      BY <1>2, <2>2
    <3> QED
      BY <1>2, <2>0, <2>1, <3>1, <3>2, <3>3
         DEF ReplicaIsTrue, NewestIsKept, NoticedIsOld, Locked
  <2>3. CASE u = t
    <3>1. n.version \in Nat /\ n.version <= lockVersion[u]
          /\ (n.version = lockVersion[u] => n.locked = Locked(u))
      BY <1>1, <2>0, <2>3 DEF NoticesAreTrue, LockVersions
    <3>2. replica[u].version <= replica'[u].version /\ n.version <= replica'[u].version
      <4>1. CASE IsNewer(n)
        <5>1. replica'[u].version = n.version
          BY <1>1, <1>2, <2>3, <4>1 DEF AccountsInv, AccountsTypeOK
        <5> QED
          BY <1>5, <2>3, <3>1, <4>1, <5>1 DEF IsNewer
      <4>2. CASE ~IsNewer(n)
        <5>1. replica'[u] = replica[u]
          BY <1>2, <4>2
        <5>2. CASE <<u, n.version>> \in noticed
          BY <1>1, <1>5, <2>0, <5>1, <5>2 DEF NoticedIsOld
        <5>3. CASE <<u, n.version>> \notin noticed
          BY <1>5, <2>3, <3>1, <4>2, <5>1, <5>3 DEF IsNewer, NoticeKey
        <5> QED
          BY <5>2, <5>3
      <4> QED
        BY <4>1, <4>2
    <3>3. ReplicaIsTrue(u)'
      <4>1. CASE IsNewer(n)
        <5>1. replica'[u] = [locked |-> n.locked, version |-> n.version]
          BY <1>1, <1>2, <2>3, <4>1 DEF AccountsInv, AccountsTypeOK
        <5> QED
          BY <1>2, <3>1, <5>1 DEF ReplicaIsTrue, Locked
      <4>2. CASE ~IsNewer(n)
        BY <1>2, <2>0, <4>2 DEF ReplicaIsTrue, Locked
      <4> QED
        BY <4>1, <4>2
    <3>4. NewestIsKept(u)'
      <4>1. CASE n.version = lockVersion[u]
        <5>1. replica'[u].version = lockVersion[u]
          BY <1>2, <1>5, <3>1, <3>2, <3>3, <4>1 DEF ReplicaIsTrue
        <5> QED
          BY <1>2, <5>1 DEF NewestIsKept
      <4>2. CASE n.version # lockVersion[u]
        <5>1. replica[u].version = lockVersion[u] => replica'[u].version = lockVersion[u]
          BY <1>2, <1>5, <3>2, <3>3 DEF ReplicaIsTrue
        <5>2. \A m \in notices : m.version = lockVersion[u] => m \in notices'
          BY <1>2, <4>2
        <5> QED
          BY <1>2, <2>0, <5>1, <5>2 DEF NewestIsKept
      <4> QED
        BY <4>1, <4>2
    <3>5. NoticedIsOld(u)'
      <4>1. SUFFICES ASSUME NEW v \in LockVersions, <<u, v>> \in noticed'
                     PROVE  v <= replica'[u].version
        BY DEF NoticedIsOld, LockVersions
      <4>2. v \in Nat
        BY DEF LockVersions
      <4>3. CASE v = n.version
        BY <3>2, <4>3
      <4>4. CASE <<u, v>> \in noticed
        <5>1. v <= replica[u].version
          BY <2>0, <4>4 DEF NoticedIsOld
        <5> QED
          BY <1>5, <3>2, <4>2, <5>1
      <4> QED
        BY <1>2, <4>1, <4>3, <4>4
    <3> QED
      BY <2>1, <3>3, <3>4, <3>5
  <2> QED
    BY <2>2, <2>3
<1> QED
  BY <1>3, <1>4, <1>6 DEF AccountsInv, ReplicaInv

LEMMA FailureKeepsReplica ==
  ASSUME AccountsInv, NEW n \in notices, NoticeFails(n)
  PROVE  AccountsInv'
<1> DEFINE again == [n EXCEPT !.retried = TRUE]
<1>1. n \in Notices /\ n.target \in Users
  BY DEF AccountsInv, AccountsTypeOK, Notices
<1>2. again \in Notices /\ again.target = n.target /\ again.version = n.version
      /\ again.locked = n.locked
  BY <1>1 DEF Notices
<1>3. /\ notices' = (notices \ {n}) \cup (IF n.retried THEN {} ELSE {again})
      /\ missed' = IF n.retried THEN missed \cup {n.target} ELSE missed
      /\ UNCHANGED <<standing, lockVersion, adminCalls, flagged, noticed, replica>>
  BY DEF NoticeFails, accountVars
<1> HIDE DEF again
<1>4. AccountsTypeOK'
  BY <1>1, <1>2, <1>3 DEF AccountsInv, AccountsTypeOK
<1>5. AnAdminRemains'
  BY <1>3 DEF AccountsInv, AnAdminRemains, ActiveAdmins
<1>6. ASSUME NEW u \in Users
      PROVE  NoticesAreTrue(u)' /\ ReplicaIsTrue(u)' /\ NewestIsKept(u)' /\ NoticedIsOld(u)'
  <2>0. NoticesAreTrue(u) /\ ReplicaIsTrue(u) /\ NewestIsKept(u) /\ NoticedIsOld(u)
    BY DEF AccountsInv, ReplicaInv
  <2>1. NoticesAreTrue(u)'
    BY <1>2, <1>3, <2>0 DEF NoticesAreTrue, Locked
  <2>2. ReplicaIsTrue(u)' /\ NoticedIsOld(u)'
    BY <1>3, <2>0 DEF ReplicaIsTrue, NoticedIsOld, Locked
  <2>3. NewestIsKept(u)'
    BY <1>2, <1>3, <2>0 DEF NewestIsKept
  <2> QED
    BY <2>1, <2>2, <2>3
<1> QED
  BY <1>4, <1>5, <1>6 DEF AccountsInv, ReplicaInv

LEMMA AccountsInvStep == AccountsInv /\ [AccountsNext]_accountsVars => AccountsInv'
<1> SUFFICES ASSUME AccountsInv, [AccountsNext]_accountsVars
             PROVE  AccountsInv'
  OBVIOUS
<1> USE DEF AccountsInv
<1>1. ASSUME NEW a \in Admins, NEW u \in Users, NEW k \in {"lock", "unlock"},
             CallLockOrUnlock(a, u, k)
      PROVE  AccountsInv'
  <2>1. AccountsTypeOK'
    BY <1>1 DEF CallLockOrUnlock, AccountsTypeOK, AdminCalls, communityVars
  <2>2. AnAdminRemains'
    BY <1>1 DEF CallLockOrUnlock, AnAdminRemains, ActiveAdmins
  <2>3. ReplicaInv'
    BY <1>1, ReplicaUntouched DEF CallLockOrUnlock
  <2> QED
    BY <2>1, <2>2, <2>3
<1>2. ASSUME NEW c \in adminCalls, CommitLock(c)
      PROVE  AccountsInv'
  <2>1. AccountsTypeOK' /\ ReplicaInv'
    BY <1>2, ChangeKeepsReplica DEF CommitLock, Standings
  <2>2. c \in AdminCalls /\ c.target \in Users /\ c.actor \in Admins
    BY <1>2 DEF AccountsTypeOK, AdminCalls
  <2>3. standing' = [standing EXCEPT ![c.target] = "locked"]
    BY <1>2 DEF CommitLock, ChangeStanding
  <2>4. ActiveAdmins \ {c.target} # {}
    BY <1>2, <2>2 DEF CommitLock, MayLockNow, ActiveAdmins
  <2>5. AnAdminRemains'
    BY <2>3, <2>4 DEF AnAdminRemains, ActiveAdmins
  <2> QED
    BY <2>1, <2>5
<1>3. ASSUME NEW c \in adminCalls, RefuseLock(c) \/ PublishLockState(c)
      PROVE  AccountsInv'
  <2>0. c \in AdminCalls /\ c.target \in Users
    BY <1>3 DEF AccountsTypeOK, AdminCalls
  <2>1. AccountsTypeOK'
    BY <1>3, <2>0 DEF RefuseLock, PublishLockState, AccountsTypeOK, communityVars
  <2>2. AnAdminRemains'
    BY <1>3 DEF RefuseLock, PublishLockState, AnAdminRemains, ActiveAdmins
  <2>3. ReplicaInv'
    BY <1>3, ReplicaUntouched DEF RefuseLock, PublishLockState
  <2> QED
    BY <2>1, <2>2, <2>3
<1>4. ASSUME NEW c \in adminCalls, CommitUnlock(c)
      PROVE  AccountsInv'
  <2>1. AccountsTypeOK' /\ ReplicaInv'
    BY <1>4, ChangeKeepsReplica DEF CommitUnlock, Standings
  <2>2. standing' = [standing EXCEPT ![c.target] = "active"]
    BY <1>4 DEF CommitUnlock, ChangeStanding
  <2>3. AnAdminRemains'
    BY <2>2 DEF AnAdminRemains, ActiveAdmins, AccountsTypeOK
  <2> QED
    BY <2>1, <2>3
<1>5. ASSUME SyncLockedAccounts
      PROVE  AccountsInv'
  <2>1. AccountsTypeOK'
    BY <1>5 DEF SyncLockedAccounts, AccountsTypeOK, communityVars
  <2>2. AnAdminRemains'
    BY <1>5 DEF SyncLockedAccounts, AnAdminRemains, ActiveAdmins
  <2>3. ReplicaInv'
    BY <1>5, ReplicaUntouched DEF SyncLockedAccounts
  <2> QED
    BY <2>1, <2>2, <2>3
<1>6. CASE UNCHANGED accountsVars
  <2>1. AccountsTypeOK'
    BY <1>6 DEF accountsVars, accountVars, communityVars, AccountsTypeOK
  <2>2. AnAdminRemains'
    BY <1>6 DEF accountsVars, accountVars, AnAdminRemains, ActiveAdmins
  <2>3. ReplicaInv'
    BY <1>6, ReplicaUntouched DEF accountsVars, accountVars
  <2> QED
    BY <2>1, <2>2, <2>3
<1> QED
  BY <1>1, <1>2, <1>3, <1>4, <1>5, <1>6, NoticeKeepsReplica, FailureKeepsReplica
     DEF AccountsNext

LEMMA AccountsAlways == AccountsSpec => []AccountsInv
BY AccountsInvInit, AccountsInvStep, PTL DEF AccountsSpec

\* The rows of account-service and of community stay within their schemas, and
\* the versions within the number of changes.
THEOREM AccountsTypeCorrect == AccountsSpec => []AccountsTypeOK
BY AccountsAlways, PTL DEF AccountsInv

\* Whatever admins do at the same moment or in turn, one stays active
\* (lockAccount, adminAccounts.ts).
THEOREM SomeAdminStays == AccountsSpec => []AnAdminRemains
BY AccountsAlways, PTL DEF AccountsInv

LEMMA InvGivesAgreement == AccountsInv => CommunityFollowsTheAccount
<1> SUFFICES ASSUME AccountsInv, NEW u \in Users, u \notin missed,
                    ~\E n \in notices : n.target = u
             PROVE  replica[u] = [locked |-> (standing[u] = "locked"), version |-> lockVersion[u]]
  BY DEF CommunityFollowsTheAccount
<1>1. replica[u].version = lockVersion[u]
  BY DEF AccountsInv, ReplicaInv, NewestIsKept
<1>2. replica[u].locked = (standing[u] = "locked")
  BY <1>1 DEF AccountsInv, ReplicaInv, ReplicaIsTrue, Locked
<1>3. replica[u] \in [locked : BOOLEAN, version : LockVersions]
  BY DEF AccountsInv, AccountsTypeOK
<1> QED
  BY <1>1, <1>2, <1>3

\* Community agrees with the account once it has handled what was sent
\* (handleAccountLocked, accountLockedConsumer.ts).
THEOREM CommunityAgrees == AccountsSpec => []CommunityFollowsTheAccount
BY AccountsAlways, InvGivesAgreement, PTL

-----------------------------------------------------------------------------
(* Providers *)

\* An unlock restores a profile that the lock suspended, and no other
\* (handleAccountLocked of venue, lib/eventConsumer.ts).
LEMMA ProviderStep ==
  ASSUME ProvidersTypeOK, ProvidersNext, NEW u \in Applicants,
         profile[u] # "approved", profile'[u] = "approved"
  PROVE  [kind |-> "approve", target |-> u] \in decisions \/ profile[u] = "suspended"
<1>1. ASSUME NEW w \in Applicants, RegisterProvider(w)
      PROVE  FALSE
  BY <1>1 DEF RegisterProvider, ProvidersTypeOK
<1>2. ASSUME NEW d \in decisions, ApproveProvider(d)
      PROVE  [kind |-> "approve", target |-> u] \in decisions
  <2>1. d \in [kind : {"approve", "reject"}, target : Applicants]
    BY <1>2 DEF ProvidersTypeOK
  <2>2. d.target = u
    BY <1>2 DEF ApproveProvider, ProvidersTypeOK
  <2> QED
    BY <1>2, <2>1, <2>2 DEF ApproveProvider
<1>3. ASSUME NEW d \in decisions, RejectProvider(d)
      PROVE  FALSE
  BY <1>3 DEF RejectProvider, ProvidersTypeOK
<1>4. ASSUME NEW e \in accountEvents, VenueAccountLocked(e)
      PROVE  profile[u] = "suspended"
  BY <1>4 DEF VenueAccountLocked, Restores, Suspends, ProvidersTypeOK
<1> QED
  BY <1>1, <1>2, <1>3, <1>4
     DEF ProvidersNext, CheckPending, GrantProviderRole, AccountChanges, profileVars

LEMMA ProvidersTypeInit == ProvidersInit => ProvidersTypeOK
BY ProvidersAssumption DEF ProvidersInit, ProvidersTypeOK, ProfileStates

LEMMA ProvidersTypeStep ==
  ProvidersTypeOK /\ [ProvidersNext]_providersVars => ProvidersTypeOK'
<1> SUFFICES ASSUME ProvidersTypeOK, [ProvidersNext]_providersVars
             PROVE  ProvidersTypeOK'
  OBVIOUS
<1> USE DEF ProvidersTypeOK
<1>1. ASSUME NEW u \in Applicants, RegisterProvider(u)
      PROVE  ProvidersTypeOK'
  BY <1>1 DEF RegisterProvider, ProfileStates, eventVars
<1>2. ASSUME NEW u \in Applicants, NEW k \in {"approve", "reject"}, CheckPending(u, k)
      PROVE  ProvidersTypeOK'
  BY <1>2 DEF CheckPending, eventVars
<1>3. ASSUME NEW u \in Applicants, GrantProviderRole(u)
      PROVE  ProvidersTypeOK'
  BY <1>3 DEF GrantProviderRole, eventVars, profileVars
<1>4. ASSUME NEW u \in Applicants, AccountChanges(u)
      PROVE  ProvidersTypeOK'
  <2>1. changes[u] + 1 \in 1..MaxAccountChanges
    BY <1>4, ProvidersAssumption DEF AccountChanges
  <2>2. [target |-> u, version |-> changes[u] + 1] \in AccountEvents
    BY <2>1 DEF AccountEvents
  <2>3. changes' \in [Applicants -> 0..MaxAccountChanges]
    BY <1>4, <2>1, ProvidersAssumption DEF AccountChanges
  <2> QED
    BY <1>4, <2>2, <2>3 DEF AccountChanges, profileVars
<1>5. ASSUME NEW d \in decisions, ApproveProvider(d) \/ RejectProvider(d)
      PROVE  ProvidersTypeOK'
  BY <1>5 DEF ApproveProvider, RejectProvider, ProfileStates, eventVars
<1>6. ASSUME NEW e \in accountEvents, VenueAccountLocked(e)
      PROVE  ProvidersTypeOK'
  <2>1. e.target \in Applicants
    BY <1>6 DEF AccountEvents
  <2>2. profile' \in [Applicants -> ProfileStates]
    BY <1>6, <2>1 DEF VenueAccountLocked, ProfileStates
  <2>3. byLock' \in [Applicants -> BOOLEAN]
    BY <1>6, <2>1, Zenon DEF VenueAccountLocked
  <2> QED
    BY <1>6, <2>2, <2>3 DEF VenueAccountLocked
<1>7. CASE UNCHANGED providersVars
  BY <1>7 DEF providersVars, profileVars, eventVars
<1> QED
  BY <1>1, <1>2, <1>3, <1>4, <1>5, <1>6, <1>7 DEF ProvidersNext

\* The profiles, marks and events of venue are well typed; in particular a
\* profile has always one of the statuses of the schema.
THEOREM ProvidersTypeCorrect == ProvidersSpec => []ProvidersTypeOK
BY ProvidersTypeInit, ProvidersTypeStep, PTL DEF ProvidersSpec

\* Unlocking an account approves no profile that was not suspended
\* (handleAccountLocked, provider.ts).
THEOREM UnlocksApproveNothing == ProvidersSpec => UnlockNeverApproves
<1>1. ProvidersTypeOK /\ [ProvidersNext]_providersVars
        => [\A u \in Applicants :
              (profile[u] # "approved" /\ profile'[u] = "approved")
                => \/ [kind |-> "approve", target |-> u] \in decisions
                   \/ profile[u] = "suspended"]_providersVars
  BY ProviderStep
<1> QED
  BY <1>1, ProvidersTypeCorrect, PTL DEF ProvidersSpec, UnlockNeverApproves

-----------------------------------------------------------------------------
(* The partner of a doubles match *)

KeepsPlace(row) == row.status \in {"reserved", "confirmed"}

\* What is known of a row and of whether it is refunded.
RowInv(row, refunded) ==
  /\ KeepsPlace(row) => row.fee = "handled" /\ ~refunded
  /\ row.fee = "handled" => KeepsPlace(row) \/ (row.status = "out" /\ refunded)
  /\ refunded => row.status = "out" /\ row.fee = "handled"

InvitesInv ==
  /\ InvitesTypeOK
  /\ \A j \in Rows : RowInv(roster[j], j \in refunds)

-----------------------------------------------------------------------------
(* Rows *)

LEMMA RowsOut ==
  ASSUME NEW fee \in {"none", "intime", "late", "handled"}
  PROVE  /\ Out(fee) \in JoinRow
         /\ Out(fee).status = "out" /\ Out(fee).fee = fee
         /\ ~KeepsPlace(Out(fee))
BY DEF Out, NoRow, JoinRow, KeepsPlace

LEMMA RowHeld ==
  ASSUME NEW p \in Players, NEW prepaid \in BOOLEAN, NEW side \in {"A", "B"}
  PROVE  /\ Held(p, prepaid, side) \in JoinRow
         /\ Held(p, prepaid, side).status = "approved"
         /\ Held(p, prepaid, side).fee = "none"
         /\ RowInv(Held(p, prepaid, side), FALSE)
BY DEF Held, JoinRow, RowInv, KeepsPlace

\* A row that is free, or in its hold, is not refunded.
LEMMA NotYetRefunded ==
  ASSUME InvitesInv, NEW j \in Rows, roster[j].status \in {"none", "approved", "reserved", "confirmed"}
  PROVE  j \notin refunds
BY DEF InvitesInv, RowInv

\* The sweep of expired holds.
LEMMA SweepKeepsRows ==
  ASSUME InvitesInv, NEW j \in Rows
  PROVE  /\ RejectExpired[j] \in JoinRow
         /\ RowInv(RejectExpired[j], j \in refunds)
<1>1. roster[j] \in JoinRow /\ RowInv(roster[j], j \in refunds)
  BY DEF InvitesInv, InvitesTypeOK
<1>2. CASE j \in Expired
  <2>1. roster[j].status = "approved" /\ RejectExpired[j] = Out(roster[j].fee)
    BY <1>2 DEF Expired, StatusIn, RejectExpired
  <2>2. roster[j].fee \in {"none", "intime", "late"}
    BY <1>1, <2>1 DEF JoinRow, RowInv, KeepsPlace
  <2>3. j \notin refunds
    BY <2>1, NotYetRefunded
  <2> QED
    BY <2>1, <2>2, <2>3, RowsOut DEF RowInv
<1>3. CASE j \notin Expired
  BY <1>1, <1>3 DEF RejectExpired
<1> QED
  BY <1>2, <1>3

\* A step that leaves all rows and refunds but those of j.
LEMMA OneRowChanges ==
  ASSUME InvitesInv, NEW j \in Rows, NEW row \in JoinRow,
         roster' = [roster EXCEPT ![j] = row],
         refunds' \subseteq Rows,
         \A i \in Rows \ {j} : i \in refunds' <=> i \in refunds,
         RowInv(row, j \in refunds')
  PROVE  /\ roster' \in [Rows -> JoinRow]
         /\ \A i \in Rows : RowInv(roster'[i], i \in refunds')
<1>1. roster' \in [Rows -> JoinRow]
  BY DEF InvitesInv, InvitesTypeOK
<1>2. ASSUME NEW i \in Rows
      PROVE  RowInv(roster'[i], i \in refunds')
  <2>1. CASE i = j
    <3>1. roster'[i] = row
      BY <2>1 DEF InvitesInv, InvitesTypeOK
    <3> QED
      BY <2>1, <3>1
  <2>2. CASE i # j
    <3>1. roster'[i] = roster[i] /\ RowInv(roster[i], i \in refunds)
      BY <2>2 DEF InvitesInv, InvitesTypeOK
    <3>2. i \in refunds' <=> i \in refunds
      BY <2>2
    <3> QED
      BY <3>1, <3>2 DEF RowInv
  <2> QED
    BY <2>1, <2>2
<1> QED
  BY <1>1, <1>2

-----------------------------------------------------------------------------
(* The actions that change a row *)

LEMMA SeatKeepsRows ==
  ASSUME InvitesInv, NEW p \in Players, NEW side \in {"A", "B"}, NEW j \in Rows,
         RequestSeat(p, side, j), UNCHANGED refunds
  PROVE  roster' \in [Rows -> JoinRow] /\ \A i \in Rows : RowInv(roster'[i], i \in refunds')
<1> DEFINE row == Held(p, FALSE, side)
<1>1. row \in JoinRow /\ RowInv(row, FALSE)
  BY RowHeld
<1>2. j \notin refunds
  BY NotYetRefunded DEF RequestSeat, FreeRow
<1>3. roster' = [RejectExpired EXCEPT ![j] = row]
  BY DEF RequestSeat
<1>4. RejectExpired \in [Rows -> JoinRow]
  BY SweepKeepsRows DEF RejectExpired
<1> HIDE DEF row
<1>5. ASSUME NEW i \in Rows
      PROVE  RowInv(roster'[i], i \in refunds')
  <2>1. CASE i = j
    <3>1. roster'[i] = row /\ (i \in refunds') = FALSE
      BY <1>2, <1>3, <1>4, <2>1
    <3> QED
      BY <1>1, <3>1
  <2>2. CASE i # j
    <3>1. roster'[i] = RejectExpired[i] /\ refunds' = refunds
      BY <1>3, <1>4, <2>2
    <3> QED
      BY <3>1, SweepKeepsRows
  <2> QED
    BY <2>1, <2>2
<1> QED
  BY <1>1, <1>3, <1>4, <1>5

LEMMA PaymentKeepsInv ==
  ASSUME InvitesInv, NEW j \in Rows, JoinPaymentCompleted(j)
  PROVE  InvitesInv'
<1> DEFINE r == roster[j]
           seated == [r EXCEPT !.fee = "handled", !.live = FALSE,
                        !.status = IF r.prepaid THEN "reserved" ELSE "confirmed"]
<1>1. r \in JoinRow /\ RowInv(r, j \in refunds) /\ r.fee \in {"intime", "late"}
  BY DEF InvitesInv, InvitesTypeOK, JoinPaymentCompleted
<1>2. j \notin refunds
  BY <1>1 DEF RowInv
<1>3. seated \in JoinRow /\ seated.fee = "handled" /\ KeepsPlace(seated)
  BY <1>1 DEF JoinRow, KeepsPlace
<1>4. CASE roster' = [roster EXCEPT ![j] = seated] /\ UNCHANGED refunds
           /\ rosterStatus' \in {"open", "filled"} /\ invite' \in InviteRow
  <2>1. RowInv(seated, j \in refunds')
    BY <1>2, <1>3, <1>4 DEF RowInv
  <2>2. roster' \in [Rows -> JoinRow] /\ \A i \in Rows : RowInv(roster'[i], i \in refunds')
    <3> HIDE DEF seated
    <3> QED
      BY <1>3, <1>4, <2>1, OneRowChanges DEF InvitesInv, InvitesTypeOK
  <2> QED
    BY <1>4, <2>2 DEF InvitesInv, InvitesTypeOK, JoinPaymentCompleted
<1>5. CASE /\ roster' = [roster EXCEPT ![j] = Out("handled")]
           /\ refunds' = refunds \cup {j} /\ UNCHANGED <<rosterStatus, invite>>
  <2>1. Out("handled") \in JoinRow /\ RowInv(Out("handled"), j \in refunds')
    BY <1>5, RowsOut DEF RowInv
  <2>2. roster' \in [Rows -> JoinRow] /\ \A i \in Rows : RowInv(roster'[i], i \in refunds')
    BY <1>5, <2>1, OneRowChanges DEF InvitesInv, InvitesTypeOK
  <2> QED
    BY <1>5, <2>2 DEF InvitesInv, InvitesTypeOK, JoinPaymentCompleted
<1>6. PaidInvite(j) \in InviteRow
  BY <1>1 DEF PaidInvite, InvitesInv, InvitesTypeOK, InviteRow, NoInvite, NoPlayer
<1>7. \A n : FilledBy(n) \in {"open", "filled"}
  BY DEF FilledBy, InvitesInv, InvitesTypeOK
<1>8. [roster EXCEPT ![j].fee = "handled", ![j].live = FALSE,
                     ![j].status = IF r.prepaid THEN "reserved" ELSE "confirmed"]
        = [roster EXCEPT ![j] = seated]
  BY <1>1 DEF InvitesInv, InvitesTypeOK, JoinRow
<1> QED
  BY <1>4, <1>5, <1>6, <1>7, <1>8 DEF JoinPaymentCompleted, InvitesInv, InvitesTypeOK

LEMMA WithdrawalKeepsInv ==
  ASSUME InvitesInv, NEW j \in Rows, WithdrawFromRoster(j)
  PROVE  InvitesInv'
<1> DEFINE r == roster[j]
           row == IF r.prepaid /\ r.status = "confirmed"
                  THEN [r EXCEPT !.status = "reserved"] ELSE Out(r.fee)
<1>1. r \in JoinRow /\ RowInv(r, j \in refunds) /\ r.status \in {"approved", "confirmed"}
  BY DEF InvitesInv, InvitesTypeOK, WithdrawFromRoster
<1>2. roster' = [roster EXCEPT ![j] = row]
  BY DEF WithdrawFromRoster, InvitesInv, InvitesTypeOK
<1>3. refunds' = refunds \cup RefundedOnLeaving(j)
  BY DEF WithdrawFromRoster
<1>4. r.fee \in {"none", "intime", "late", "handled"}
  BY <1>1 DEF JoinRow
<1>5. row \in JoinRow
  BY <1>1, <1>4, RowsOut DEF JoinRow
<1>6. j \notin refunds
  BY <1>1 DEF RowInv
<1>7. RowInv(row, j \in refunds')
  <2>1. CASE r.prepaid /\ r.status = "confirmed"
    <3>1. row.status = "reserved" /\ row.fee = "handled"
      BY <1>1, <2>1 DEF RowInv, KeepsPlace, JoinRow
    <3>2. j \notin refunds'
      BY <1>3, <1>6, <2>1 DEF RefundedOnLeaving
    <3> QED
      BY <3>1, <3>2 DEF RowInv, KeepsPlace
  <2>2. CASE ~r.prepaid /\ r.status = "confirmed"
    <3>1. row = Out(r.fee) /\ r.fee = "handled"
      BY <1>1, <2>2 DEF RowInv, KeepsPlace
    <3>2. j \in refunds'
      BY <1>3, <2>2 DEF RefundedOnLeaving
    <3> QED
      BY <1>4, <3>1, <3>2, RowsOut DEF RowInv
  <2>3. CASE r.status = "approved"
    <3>1. row = Out(r.fee) /\ r.fee # "handled"
      BY <1>1, <2>3 DEF RowInv, KeepsPlace
    <3>2. j \notin refunds'
      BY <1>3, <1>6, <2>3 DEF RefundedOnLeaving
    <3> QED
      BY <1>4, <3>1, <3>2, RowsOut DEF RowInv
  <2> QED
    BY <1>1, <2>1, <2>2, <2>3
<1>8. refunds' \subseteq Rows /\ \A i \in Rows \ {j} : i \in refunds' <=> i \in refunds
  BY <1>3 DEF RefundedOnLeaving, InvitesInv, InvitesTypeOK
<1> HIDE DEF row
<1>9. roster' \in [Rows -> JoinRow] /\ \A i \in Rows : RowInv(roster'[i], i \in refunds')
  BY <1>2, <1>5, <1>7, <1>8, OneRowChanges
<1> QED
  BY <1>8, <1>9 DEF InvitesInv, InvitesTypeOK, WithdrawFromRoster

LEMMA CancelKeepsInv ==
  ASSUME InvitesInv, CancelPartnerInvite
  PROVE  InvitesInv'
<1>1. invite' \in InviteRow /\ UNCHANGED <<rosterStatus, cutoff>>
  BY DEF CancelPartnerInvite, NoInvite, NoPlayer, InviteRow
<1>2. CASE UNCHANGED <<roster, refunds>>
  BY <1>1, <1>2 DEF InvitesInv, InvitesTypeOK
<1>3. ASSUME NEW j \in ActivePrepaid, roster[j].status # "confirmed",
             roster' = [roster EXCEPT ![j] = Out(@.fee)],
             refunds' = IF roster[j].status = "reserved" THEN refunds \cup {j} ELSE refunds
      PROVE  InvitesInv'
  <2>1. j \in Rows /\ roster[j].status \in {"approved", "reserved"}
    BY <1>3 DEF ActivePrepaid, InHold
  <2>2. roster[j] \in JoinRow /\ RowInv(roster[j], j \in refunds)
    BY <2>1 DEF InvitesInv, InvitesTypeOK
  <2>3. roster[j].fee \in {"none", "intime", "late", "handled"}
    BY <2>2 DEF JoinRow
  <2>4. RowInv(Out(roster[j].fee), j \in refunds')
    BY <1>3, <2>1, <2>2, <2>3, RowsOut DEF RowInv, KeepsPlace
  <2>5. refunds' \subseteq Rows /\ \A i \in Rows \ {j} : i \in refunds' <=> i \in refunds
    BY <1>3, <2>1 DEF InvitesInv, InvitesTypeOK
  <2>6. roster' = [roster EXCEPT ![j] = Out(roster[j].fee)]
    BY <1>3
  <2>7. roster' \in [Rows -> JoinRow] /\ \A i \in Rows : RowInv(roster'[i], i \in refunds')
    BY <2>1, <2>3, <2>4, <2>5, <2>6, RowsOut, OneRowChanges
  <2> QED
    BY <1>1, <2>5, <2>7 DEF InvitesInv, InvitesTypeOK
<1> QED
  BY <1>2, <1>3 DEF CancelPartnerInvite

\* The edits of a row that disturb neither its fee nor whether it has a place:
\* the end of a hold, a payment, a new name, an acceptance.
LEMMA GentleEdit ==
  ASSUME InvitesInv, NEW j \in Rows, NEW row \in JoinRow,
         roster' = [roster EXCEPT ![j] = row], UNCHANGED refunds,
         KeepsPlace(row) <=> KeepsPlace(roster[j]),
         (row.status = "out") <=> (roster[j].status = "out"),
         (row.fee = "handled") <=> (roster[j].fee = "handled")
  PROVE  roster' \in [Rows -> JoinRow] /\ \A i \in Rows : RowInv(roster'[i], i \in refunds')
<1>1. RowInv(row, j \in refunds')
  BY DEF InvitesInv, RowInv
<1> QED
  BY <1>1, OneRowChanges DEF InvitesInv, InvitesTypeOK

-----------------------------------------------------------------------------

LEMMA NoInviteIsRow == NoInvite \in InviteRow
BY DEF NoInvite, NoPlayer, InviteRow

LEMMA InvitesInvInit == InvitesInit => InvitesInv
<1> SUFFICES ASSUME InvitesInit PROVE InvitesInv
  OBVIOUS
<1>1. NoRow \in JoinRow
  BY DEF NoRow, JoinRow, NoPlayer
<1>2. InvitesTypeOK
  BY <1>1, NoInviteIsRow DEF InvitesInit, InvitesTypeOK
<1>3. RowInv(NoRow, FALSE)
  BY DEF NoRow, RowInv, KeepsPlace
<1>4. ASSUME NEW j \in Rows
      PROVE  RowInv(roster[j], j \in refunds)
  <2>1. roster[j] = NoRow /\ (j \in refunds) = FALSE
    BY DEF InvitesInit
  <2> QED
    BY <1>3, <2>1
<1> QED
  BY <1>2, <1>4 DEF InvitesInv

\* A step that changes the invitation, the status or the cutoff.
LEMMA RowsUntouched ==
  ASSUME InvitesInv, UNCHANGED <<roster, refunds>>,
         rosterStatus' \in {"open", "filled"}, cutoff' \in BOOLEAN, invite' \in InviteRow
  PROVE  InvitesInv'
BY DEF InvitesInv, InvitesTypeOK

LEMMA InvitesInvStep == InvitesInv /\ [InvitesNext]_invitesVars => InvitesInv'
<1> SUFFICES ASSUME InvitesInv, [InvitesNext]_invitesVars
             PROVE  InvitesInv'
  OBVIOUS
<1>0. /\ rosterStatus \in {"open", "filled"} /\ cutoff \in BOOLEAN
      /\ invite \in InviteRow /\ refunds \subseteq Rows
      /\ roster \in [Rows -> JoinRow]
  BY DEF InvitesInv, InvitesTypeOK
<1>1. ASSUME NEW p \in Players, NEW j \in Rows, NEW side \in {"A", "B"},
             RequestJoinSide(p, side, j)
      PROVE  InvitesInv'
  <2>1. roster' \in [Rows -> JoinRow] /\ \A i \in Rows : RowInv(roster'[i], i \in refunds')
    BY <1>1, SeatKeepsRows DEF RequestJoinSide
  <2> QED
    BY <1>0, <1>1, <2>1 DEF RequestJoinSide, InvitesInv, InvitesTypeOK
<1>2. ASSUME NEW p \in Players, NEW j \in Rows, InviteToPrepaidPlace(p, j)
      PROVE  InvitesInv'
  <2> DEFINE row == [roster[j] EXCEPT !.who = p]
  <2>1. row \in JoinRow /\ row.status = roster[j].status /\ row.fee = roster[j].fee
    BY <1>0 DEF JoinRow
  <2>2. roster' = [roster EXCEPT ![j] = row]
    BY <1>0, <1>2 DEF InviteToPrepaidPlace
  <2> HIDE DEF row
  <2>3. roster' \in [Rows -> JoinRow] /\ \A i \in Rows : RowInv(roster'[i], i \in refunds')
    BY <1>2, <2>1, <2>2, GentleEdit DEF InviteToPrepaidPlace, KeepsPlace
  <2>4. invite' \in InviteRow
    BY <1>2 DEF InviteToPrepaidPlace, NewInvite, InviteRow
  <2> QED
    BY <1>0, <1>2, <2>3, <2>4 DEF InviteToPrepaidPlace, InvitesInv, InvitesTypeOK
<1>3. ASSUME NEW p \in Players, NEW j \in Rows, InviteAndPrepay(p, j)
      PROVE  InvitesInv'
  <2>1. Held(p, TRUE, "A") \in JoinRow /\ RowInv(Held(p, TRUE, "A"), FALSE)
    BY RowHeld
  <2>2. j \notin refunds
    BY <1>3, NotYetRefunded DEF InviteAndPrepay, FreeRow
  <2>3. RowInv(Held(p, TRUE, "A"), j \in refunds')
    <3>1. (j \in refunds') = FALSE
      BY <1>3, <2>2 DEF InviteAndPrepay
    <3> QED
      BY <2>1, <3>1
  <2>4. roster' \in [Rows -> JoinRow] /\ \A i \in Rows : RowInv(roster'[i], i \in refunds')
    BY <1>0, <1>3, <2>1, <2>3, OneRowChanges DEF InviteAndPrepay
  <2>5. invite' \in InviteRow
    BY <1>3 DEF InviteAndPrepay, NewInvite, InviteRow
  <2> QED
    BY <1>0, <1>3, <2>4, <2>5 DEF InviteAndPrepay, InvitesInv, InvitesTypeOK
<1>4. ASSUME NEW p \in Players, NEW j \in Rows, AcceptAndPay(p, j)
      PROVE  InvitesInv'
  <2>1. roster' \in [Rows -> JoinRow] /\ \A i \in Rows : RowInv(roster'[i], i \in refunds')
    BY <1>4, SeatKeepsRows DEF AcceptAndPay
  <2>2. invite' \in InviteRow
    BY <1>0, <1>4 DEF AcceptAndPay, InviteRow
  <2> QED
    BY <1>0, <1>4, <2>1, <2>2 DEF AcceptAndPay, InvitesInv, InvitesTypeOK
<1>5. ASSUME NEW p \in Players, InviteSelfPaying(p) \/ DeclinePartnerInvite(p)
      PROVE  InvitesInv'
  <2>1. invite' \in InviteRow
    <3>1. ASSUME InviteSelfPaying(p)
          PROVE  invite' \in InviteRow
      BY <3>1 DEF InviteSelfPaying, NewInvite, InviteRow
    <3>2. ASSUME DeclinePartnerInvite(p)
          PROVE  invite' \in InviteRow
      BY <3>2, NoInviteIsRow DEF DeclinePartnerInvite
    <3> QED
      BY <1>5, <3>1, <3>2
  <2> QED
    BY <1>0, <1>5, <2>1, RowsUntouched DEF InviteSelfPaying, DeclinePartnerInvite
<1>6. ASSUME NEW p \in Players, AcceptPrepaidPlace(p)
      PROVE  InvitesInv'
  <2>1. PICK j \in Rows : /\ roster[j].status = "reserved"
                          /\ roster' = [roster EXCEPT ![j].status = "confirmed"]
    BY <1>6 DEF AcceptPrepaidPlace, ActivePrepaid
  <2> DEFINE row == [roster[j] EXCEPT !.status = "confirmed"]
  <2>2. row \in JoinRow /\ row.status = "confirmed" /\ row.fee = roster[j].fee
    BY <1>0 DEF JoinRow
  <2>3. roster' = [roster EXCEPT ![j] = row]
    BY <1>0, <2>1
  <2> HIDE DEF row
  <2>4. roster' \in [Rows -> JoinRow] /\ \A i \in Rows : RowInv(roster'[i], i \in refunds')
    BY <1>6, <2>1, <2>2, <2>3, GentleEdit DEF AcceptPrepaidPlace, KeepsPlace
  <2>5. invite' \in InviteRow /\ rosterStatus' \in {"open", "filled"}
    BY <1>0, <1>6 DEF AcceptPrepaidPlace, NoInvite, NoPlayer, InviteRow, FilledBy
  <2> QED
    BY <1>0, <1>6, <2>4, <2>5 DEF AcceptPrepaidPlace, InvitesInv, InvitesTypeOK
<1>7. ASSUME NEW j \in Rows, JoinHoldEnds(j)
      PROVE  InvitesInv'
  <2> DEFINE row == [roster[j] EXCEPT !.live = FALSE]
  <2>1. row \in JoinRow /\ row.status = roster[j].status /\ row.fee = roster[j].fee
    BY <1>0 DEF JoinRow
  <2>2. roster' = [roster EXCEPT ![j] = row]
    BY <1>0, <1>7 DEF JoinHoldEnds
  <2> HIDE DEF row
  <2>3. roster' \in [Rows -> JoinRow] /\ \A i \in Rows : RowInv(roster'[i], i \in refunds')
    BY <1>7, <2>1, <2>2, GentleEdit DEF JoinHoldEnds, KeepsPlace
  <2> QED
    BY <1>0, <1>7, <2>3 DEF JoinHoldEnds, InvitesInv, InvitesTypeOK
<1>8. ASSUME NEW j \in Rows, PayJoin(j)
      PROVE  InvitesInv'
  <2> DEFINE fee == IF roster[j].live /\ ~cutoff THEN "intime" ELSE "late"
             row == [roster[j] EXCEPT !.fee = fee]
  <2>1. row \in JoinRow /\ row.status = roster[j].status /\ row.fee # "handled"
    BY <1>0 DEF JoinRow
  <2>2. roster' = [roster EXCEPT ![j] = row] /\ roster[j].fee = "none"
    BY <1>0, <1>8 DEF PayJoin
  <2> HIDE DEF row
  <2>3. roster' \in [Rows -> JoinRow] /\ \A i \in Rows : RowInv(roster'[i], i \in refunds')
    BY <1>8, <2>1, <2>2, GentleEdit DEF PayJoin, KeepsPlace
  <2> QED
    BY <1>0, <1>8, <2>3 DEF PayJoin, InvitesInv, InvitesTypeOK
<1>9. ASSUME ReleaseExpiredJoins
      PROVE  InvitesInv'
  <2>1. roster' = RejectExpired /\ refunds' = refunds
    BY <1>9 DEF ReleaseExpiredJoins
  <2>2. RejectExpired \in [Rows -> JoinRow]
    BY SweepKeepsRows DEF RejectExpired
  <2> QED
    BY <1>0, <1>9, <2>1, <2>2, SweepKeepsRows DEF ReleaseExpiredJoins, InvitesInv, InvitesTypeOK
<1>10. ASSUME SelfPayWindowEnds \/ ExpireSelfPayInvite \/ CutoffPasses
       PROVE  InvitesInv'
  <2>1. invite' \in InviteRow
    <3>1. ASSUME SelfPayWindowEnds
          PROVE  invite' \in InviteRow
      BY <1>0, <3>1 DEF SelfPayWindowEnds, InviteRow
    <3>2. ASSUME ExpireSelfPayInvite
          PROVE  invite' \in InviteRow
      BY <3>2, NoInviteIsRow DEF ExpireSelfPayInvite
    <3>3. ASSUME CutoffPasses
          PROVE  invite' \in InviteRow
      BY <1>0, <3>3 DEF CutoffPasses
    <3> QED
      BY <1>10, <3>1, <3>2, <3>3
  <2> QED
    BY <1>0, <1>10, <2>1, RowsUntouched DEF SelfPayWindowEnds, ExpireSelfPayInvite, CutoffPasses
<1>11. CASE UNCHANGED invitesVars
  BY <1>11 DEF invitesVars, InvitesInv, InvitesTypeOK
<1> QED
  BY <1>1, <1>2, <1>3, <1>4, <1>5, <1>6, <1>7, <1>8, <1>9, <1>10, <1>11,
     PaymentKeepsInv, WithdrawalKeepsInv, CancelKeepsInv DEF InvitesNext

LEMMA InvitesAlways == InvitesSpec => []InvitesInv
BY InvitesInvInit, InvitesInvStep, PTL DEF InvitesSpec

\* The rows and the invitation stay within the schema.
THEOREM InvitesTypeCorrect == InvitesSpec => []InvitesTypeOK
BY InvitesAlways, PTL DEF InvitesInv

\* A handled fee keeps a place or is refunded, and never both
\* (matchLifecycleEventConsumer.ts, partnerInvites.ts).
THEOREM PaidJoinsAreSettled == InvitesSpec => []PaidJoinIsSeatedOrRefunded
<1>1. InvitesInv => PaidJoinIsSeatedOrRefunded
  BY DEF InvitesInv, RowInv, KeepsPlace, PaidJoinIsSeatedOrRefunded
<1> QED
  BY <1>1, InvitesAlways, PTL

-----------------------------------------------------------------------------
(* Shutdown: what is known of a commitment, its item and the shutdowns *)

EngagedRow(c) == c # Nothing /\ c.status \in {"hold", "held", "confirmed"}
BookedRow(c) == c # Nothing /\ c.status \in {"held", "confirmed"}

\* The item cancels the booking, or a person has to look at it, or its late
\* payment was refunded.
Awaits(i) == i # Nothing /\ (i.status \in {"identified", "needs_attention"} \/ i.reported)

\* The commitment outlives the cutoff of a shutdown.
Outlives(c, row) ==
  /\ row # Nothing /\ ~row.ended /\ row.mode # "winding_down"
  /\ c.ground \in GroundsOf(row.scope) /\ c.end > row.effectiveAt

\* An item is one of a booking, tries again only while it may, and a booking of
\* an item awaits its end.
ItemInv(c, i) ==
  i # Nothing => /\ c # Nothing /\ c.status # "hold"
                 /\ i.status = "identified" => i.attempts < Attempts
                 /\ BookedRow(c) => Awaits(i)

ShutdownOf(c, i, row) == i # Nothing => row # Nothing /\ (row.ended /\ ~i.reported => ~BookedRow(c))

SlotInv(c, i, rows) ==
  /\ ItemInv(c, i)
  /\ i # Nothing => ShutdownOf(c, i, rows[i.order])
  /\ \A o \in Orders : EngagedRow(c) /\ Outlives(c, rows[o]) => BookedRow(c) /\ Awaits(i)

\* A shutdown that is inactive keeps its courts closed.
ClosedUnder(row, active) ==
  row # Nothing /\ ~row.ended /\ row.status = "inactive" =>
    \A g \in GroundsOf(row.scope) : ~active[g]

ShutdownInv ==
  /\ ShutdownTypeOK
  /\ \A s \in refundAsked : item[s] # Nothing
  /\ \A s \in Slots : SlotInv(commitment[s], item[s], order)
  /\ \A o \in Orders : ClosedUnder(order[o], open)

LEMMA CourtsOfScope == ASSUME NEW scope \in Scopes PROVE GroundsOf(scope) \subseteq Grounds
BY DEF GroundsOf, Scopes

-----------------------------------------------------------------------------
(* Rows *)

\* A booking that ends needs no item.
LEMMA RowLeaves ==
  ASSUME NEW c, NEW i, NEW rows, NEW d \in CommitmentRow, SlotInv(c, i, rows),
         d.status \in {"cancelled", "completed"}
  PROVE  SlotInv(d, i, rows)
BY ShutdownRowAssumption DEF SlotInv, ItemInv, ShutdownOf, BookedRow, EngagedRow

\* A hold that becomes a booking, or a booking that is paid, is as old as it was.
LEMMA RowAdvances ==
  ASSUME NEW c \in CommitmentRow, NEW i, NEW rows, NEW status \in {"held", "confirmed"},
         SlotInv(c, i, rows), EngagedRow(c)
  PROVE  SlotInv([c EXCEPT !.status = status], i, rows)
<1> DEFINE d == [c EXCEPT !.status = status]
<1>1. d \in CommitmentRow /\ d.status = status /\ d.ground = c.ground /\ d.end = c.end
  BY DEF CommitmentRow
<1>2. d # Nothing /\ BookedRow(d)
  BY <1>1, ShutdownRowAssumption DEF BookedRow
<1> HIDE DEF d
<1>3. i # Nothing => BookedRow(c) /\ Awaits(i)
  BY DEF SlotInv, ItemInv, EngagedRow, BookedRow
<1>4. ASSUME NEW o \in Orders, Outlives(d, rows[o])
      PROVE  Awaits(i)
  BY <1>1, <1>4 DEF SlotInv, Outlives
<1>5. SlotInv(d, i, rows)
  BY <1>1, <1>2, <1>3, <1>4 DEF SlotInv, ItemInv, ShutdownOf
<1> QED
  BY <1>5 DEF d

\* A step that changes one commitment and its item.
LEMMA OneSlotChanges ==
  ASSUME ShutdownInv, NEW s \in Slots, NEW c \in CommitmentRow, NEW i \in ItemRow \cup {Nothing},
         commitment' = [commitment EXCEPT ![s] = c], item' = [item EXCEPT ![s] = i],
         UNCHANGED <<day, open, order>>, SlotInv(c, i, order),
         refundAsked' \subseteq refundAsked \cup {s}, s \in refundAsked' => i # Nothing
  PROVE  ShutdownInv'
<1>1. commitment' \in [Slots -> CommitmentRow \cup {Nothing}]
      /\ item' \in [Slots -> ItemRow \cup {Nothing}]
      /\ \A t \in Slots : /\ commitment'[t] = (IF t = s THEN c ELSE commitment[t])
                          /\ item'[t] = (IF t = s THEN i ELSE item[t])
  BY DEF ShutdownInv, ShutdownTypeOK
<1>2. ShutdownTypeOK'
  BY <1>1 DEF ShutdownInv, ShutdownTypeOK
<1>3. \A t \in refundAsked' : item'[t] # Nothing
  BY <1>1 DEF ShutdownInv, ShutdownTypeOK
<1>4. ASSUME NEW t \in Slots
      PROVE  SlotInv(commitment'[t], item'[t], order')
  <2>1. SlotInv(commitment'[t], item'[t], order)
    BY <1>1 DEF ShutdownInv
  <2> QED
    BY <2>1
<1>5. \A o \in Orders : ClosedUnder(order'[o], open')
  BY DEF ShutdownInv
<1> QED
  BY <1>2, <1>3, <1>4, <1>5 DEF ShutdownInv

\* Such a step that leaves the items alone.
LEMMA OneCommitmentChanges ==
  ASSUME ShutdownInv, NEW s \in Slots, NEW c \in CommitmentRow,
         commitment' = [commitment EXCEPT ![s] = c],
         UNCHANGED <<day, open, order, item>>, SlotInv(c, item[s], order),
         refundAsked' = refundAsked
  PROVE  ShutdownInv'
<1>1. item[s] \in ItemRow \cup {Nothing} /\ item' = [item EXCEPT ![s] = item[s]]
  BY DEF ShutdownInv, ShutdownTypeOK
<1>2. s \in refundAsked' => item[s] # Nothing
  BY DEF ShutdownInv
<1> QED
  BY <1>1, <1>2, OneSlotChanges

LEMMA StatusKeepsInv ==
  ASSUME ShutdownInv, NEW s \in Slots, NEW status, SetStatus(s, status), Exists(s),
         \/ status \in {"cancelled", "completed"}
         \/ status \in {"held", "confirmed"} /\ Engaged(s),
         UNCHANGED <<day, open, order, item, refundAsked>>
  PROVE  ShutdownInv'
<1> DEFINE c == [commitment[s] EXCEPT !.status = status]
<1>1. commitment[s] \in CommitmentRow /\ SlotInv(commitment[s], item[s], order)
  BY DEF ShutdownInv, ShutdownTypeOK, Exists
<1>2. c \in CommitmentRow /\ c.status = status
  BY <1>1 DEF CommitmentRow
<1>3. SlotInv(c, item[s], order)
  <2>1. CASE status \in {"cancelled", "completed"}
    BY <1>1, <1>2, <2>1, RowLeaves
  <2>2. CASE status \in {"held", "confirmed"} /\ Engaged(s)
    BY <1>1, <2>2, RowAdvances DEF Engaged, Exists, EngagedRow
  <2> QED
    BY <2>1, <2>2
<1>4. commitment' = [commitment EXCEPT ![s] = c]
  BY DEF SetStatus
<1> QED
  BY <1>2, <1>3, <1>4, OneCommitmentChanges

\* Such a step that leaves the commitments alone.
LEMMA OneItemChanges ==
  ASSUME ShutdownInv, NEW s \in Slots, NEW i \in ItemRow, item[s] # Nothing,
         item' = [item EXCEPT ![s] = i], UNCHANGED <<day, open, order, commitment>>,
         SlotInv(commitment[s], i, order),
         refundAsked' \subseteq refundAsked \cup {s}
  PROVE  ShutdownInv'
<1>1. commitment[s] \in CommitmentRow
  BY DEF ShutdownInv, ShutdownTypeOK, SlotInv, ItemInv
<1>2. commitment' = [commitment EXCEPT ![s] = commitment[s]] /\ i # Nothing
  BY ShutdownRowAssumption DEF ShutdownInv, ShutdownTypeOK
<1> QED
  BY <1>1, <1>2, OneSlotChanges

\* An item that keeps its shutdown, its report and what its booking awaits.
LEMMA ItemGoesOn ==
  ASSUME NEW c, NEW i \in ItemRow, NEW j \in ItemRow, NEW rows, SlotInv(c, i, rows),
         j.order = i.order, i.reported => j.reported,
         j.status = "identified" => j.attempts < Attempts,
         Awaits(i) => Awaits(j)
  PROVE  SlotInv(c, j, rows)
BY ShutdownRowAssumption DEF SlotInv, ItemInv, ShutdownOf

-----------------------------------------------------------------------------
(* The steps of one commitment *)

\* A commitment that every shutdown of its court accepts as new outlives none.
LEMMA AcceptedOutlivesNone ==
  ASSUME ShutdownInv, NEW c \in CommitmentRow, AcceptsCommitment(c.ground, c.end, FALSE),
         NEW o \in Orders
  PROVE  ~Outlives(c, order[o])
<1> SUFFICES ASSUME Outlives(c, order[o]) PROVE FALSE
  OBVIOUS
<1>1. order[o] \in OrderRow /\ o \in LiveOver(c.ground)
  BY DEF ShutdownInv, ShutdownTypeOK, Outlives, LiveOver, Live
<1>2. CanCommit(order[o], c.end, FALSE)
  BY <1>1 DEF AcceptsCommitment
<1>3. order[o].mode \in {"scheduled_close", "emergency"}
      /\ order[o].effectiveAt \in Int /\ c.end \in Int
  BY <1>1, ShutdownAssumption DEF OrderRow, Modes, Outlives, CommitmentRow, Never
<1>4. c.end > order[o].effectiveAt
  BY DEF Outlives
<1>5. CASE order[o].mode = "scheduled_close"
  BY <1>2, <1>3, <1>4, <1>5 DEF CanCommit
<1>6. CASE order[o].mode = "emergency"
  BY <1>2, <1>6 DEF CanCommit
<1> QED
  BY <1>3, <1>5, <1>6

LEMMA CommitKeepsInv ==
  ASSUME ShutdownInv, NEW s \in Slots, NEW g \in Grounds, NEW end \in 1..LastDay,
         NEW source \in {"marketplace", "match", "internal"}, CommitSlot(s, g, end, source)
  PROVE  ShutdownInv'
<1> DEFINE c == [status |-> IF source = "internal" THEN "confirmed" ELSE "hold",
                 ground |-> g, end |-> end, source |-> source]
<1>1. c \in CommitmentRow /\ c.ground = g /\ c.end = end
  BY DEF CommitmentRow
<1>2. commitment' = [commitment EXCEPT ![s] = c]
      /\ UNCHANGED <<day, open, order, item, refundAsked>>
      /\ AcceptsCommitment(g, end, FALSE)
  BY DEF CommitSlot
<1> HIDE DEF c
<1>3. item[s] = Nothing
  BY DEF CommitSlot, ShutdownInv, SlotInv, ItemInv
<1>4. SlotInv(c, item[s], order)
  BY <1>1, <1>2, <1>3, AcceptedOutlivesNone DEF SlotInv, ItemInv
<1> QED
  BY <1>1, <1>2, <1>4, OneCommitmentChanges

LEMMA MoveKeepsInv ==
  ASSUME ShutdownInv, NEW s \in Slots, NEW g \in Grounds, MoveSlot(s, g)
  PROVE  ShutdownInv'
<1> DEFINE c == [commitment[s] EXCEPT !.ground = g]
<1>1. commitment[s] \in CommitmentRow
  BY DEF MoveSlot, Exists, ShutdownInv, ShutdownTypeOK
<1>2. c \in CommitmentRow /\ c.ground = g /\ c.end = commitment[s].end
  BY <1>1 DEF CommitmentRow
<1>3. commitment' = [commitment EXCEPT ![s] = c] /\ item[s] = Nothing
      /\ UNCHANGED <<day, open, order, item, refundAsked>>
      /\ AcceptsCommitment(g, commitment[s].end, FALSE)
  BY DEF MoveSlot
<1> HIDE DEF c
<1>4. SlotInv(c, item[s], order)
  BY <1>2, <1>3, AcceptedOutlivesNone DEF SlotInv, ItemInv
<1> QED
  BY <1>2, <1>3, <1>4, OneCommitmentChanges

LEMMA PayKeepsInv ==
  ASSUME ShutdownInv, NEW s \in Slots, PaySlot(s)
  PROVE  ShutdownInv'
<1>1. Exists(s) /\ UNCHANGED <<day, open, order, item>>
  BY DEF PaySlot
<1>2. CASE SetStatus(s, "confirmed") /\ UNCHANGED refundAsked /\ commitment[s].status = "held"
  BY <1>1, <1>2, StatusKeepsInv DEF Engaged
<1>3. CASE SetStatus(s, "cancelled") /\ UNCHANGED refundAsked
  BY <1>1, <1>3, StatusKeepsInv
<1>4. CASE item[s] # Nothing /\ refundAsked' = refundAsked \cup {s} /\ UNCHANGED commitment
  <2>1. item[s] \in ItemRow /\ item' = [item EXCEPT ![s] = item[s]]
        /\ SlotInv(commitment[s], item[s], order)
    BY <1>1, <1>4 DEF ShutdownInv, ShutdownTypeOK
  <2> QED
    BY <1>1, <1>4, <2>1, OneItemChanges
<1> QED
  BY <1>2, <1>3, <1>4 DEF PaySlot

LEMMA SlotStep ==
  ASSUME ShutdownInv, NEW s \in Slots, SlotNext(s)
  PROVE  ShutdownInv'
<1>1. ASSUME NEW g \in Grounds, NEW end \in 1..LastDay,
             NEW source \in {"marketplace", "match", "internal"}, CommitSlot(s, g, end, source)
      PROVE  ShutdownInv'
  BY <1>1, CommitKeepsInv
<1>2. CASE BookHeldSlot(s)
  BY <1>2, StatusKeepsInv DEF BookHeldSlot, Engaged
<1>3. CASE PaySlot(s)
  BY <1>3, PayKeepsInv
<1>4. CASE SettleSlot(s)
  BY <1>4, StatusKeepsInv DEF SettleSlot, Engaged
<1>5. CASE ExpireSlot(s) \/ CancelSlot(s) \/ CompleteSlot(s)
  BY <1>5, StatusKeepsInv DEF ExpireSlot, CancelSlot, CompleteSlot
<1>6. ASSUME NEW g \in Grounds, MoveSlot(s, g)
      PROVE  ShutdownInv'
  BY <1>6, MoveKeepsInv
<1> QED
  BY <1>1, <1>2, <1>3, <1>4, <1>5, <1>6 DEF SlotNext

-----------------------------------------------------------------------------
(* The steps of one item *)

LEMMA ProcessKeepsInv ==
  ASSUME ShutdownInv, NEW s \in Slots, ProcessShutdownItem(s)
  PROVE  ShutdownInv'
<1> DEFINE wasConfirmed == commitment[s].status = "confirmed"
           owed == commitment[s].source # "internal"
                   /\ (wasConfirmed \/ commitment[s].source = "match")
           c == [commitment[s] EXCEPT !.status = "cancelled"]
           status == IF item[s].reported THEN "refunded"
                     ELSE IF commitment[s].source = "internal" THEN "cancelled_no_platform_refund"
                     ELSE IF owed THEN "cancelled_refund_processing" ELSE "cancelled_unpaid"
           path == IF ~owed THEN "none" ELSE IF wasConfirmed THEN "booking" ELSE "match"
           i == [item[s] EXCEPT !.attempts = @ + 1, !.status = status, !.path = path]
<1>1. item[s] \in ItemRow /\ item[s].status = "identified" /\ commitment[s] \in CommitmentRow
      /\ SlotInv(commitment[s], item[s], order)
  BY DEF ProcessShutdownItem, Identified, Booked, Exists, ShutdownInv, ShutdownTypeOK
<1>2. commitment' = [commitment EXCEPT ![s] = c] /\ UNCHANGED <<day, open, order>>
      /\ refundAsked' \subseteq refundAsked \cup {s}
  BY DEF ProcessShutdownItem, SetStatus
<1>3. item' = [item EXCEPT ![s] = i]
  BY DEF ProcessShutdownItem
<1>4. item[s].attempts + 1 \in 0..Attempts
  <2>1. item[s].attempts < Attempts /\ item[s].attempts \in 0..Attempts
    BY <1>1, ShutdownRowAssumption DEF SlotInv, ItemInv, ItemRow
  <2> QED
    BY <2>1, ShutdownAssumption
<1>5. status \in Finished \cup {"cancelled_refund_processing"} /\ path \in {"none", "booking", "match"}
  BY DEF Finished
<1>6. i \in ItemRow /\ i.order = item[s].order /\ i.status # "identified"
  <2> HIDE DEF status, path
  <2> QED
    BY <1>1, <1>4, <1>5 DEF ItemRow, Finished
<1>7. c \in CommitmentRow /\ c.status = "cancelled"
  BY <1>1 DEF CommitmentRow
<1> HIDE DEF i, c
<1>8. SlotInv(c, i, order)
  BY <1>1, <1>6, <1>7, ShutdownRowAssumption
     DEF SlotInv, ItemInv, ShutdownOf, BookedRow, EngagedRow
<1> QED
  BY <1>2, <1>3, <1>6, <1>7, <1>8, ShutdownRowAssumption, OneSlotChanges

LEMMA FailureKeepsInv ==
  ASSUME ShutdownInv, NEW s \in Slots, ShutdownItemFails(s)
  PROVE  ShutdownInv'
<1> DEFINE status == IF item[s].attempts + 1 >= Attempts THEN "needs_attention" ELSE item[s].status
           i == [item[s] EXCEPT !.attempts = @ + 1, !.status = status]
<1>1. item[s] \in ItemRow /\ item[s].status = "identified"
      /\ SlotInv(commitment[s], item[s], order)
  BY DEF ShutdownItemFails, Identified, ShutdownInv, ShutdownTypeOK
<1>2. item' = [item EXCEPT ![s] = i] /\ UNCHANGED <<day, open, order, commitment, refundAsked>>
  BY DEF ShutdownItemFails
<1>3. item[s].attempts < Attempts /\ item[s].attempts \in 0..Attempts
  BY <1>1, ShutdownRowAssumption DEF SlotInv, ItemInv, ItemRow
<1>4. item[s].attempts + 1 \in 0..Attempts
  BY <1>3, ShutdownAssumption
<1>5. i \in ItemRow /\ i.order = item[s].order /\ i.reported = item[s].reported
      /\ i.status \in {"identified", "needs_attention"}
      /\ i.attempts = item[s].attempts + 1 /\ i.status = status
  BY <1>1, <1>4 DEF ItemRow
<1>6. i.status = "identified" => i.attempts < Attempts
  BY <1>3, <1>4, <1>5, ShutdownAssumption
<1>7. item[s] # Nothing /\ i # Nothing
  BY <1>1, <1>5, ShutdownRowAssumption
<1> HIDE DEF i
<1>8. SlotInv(commitment[s], i, order)
  BY <1>1, <1>5, <1>6, <1>7, ItemGoesOn DEF Awaits
<1> QED
  BY <1>2, <1>5, <1>7, <1>8, OneItemChanges

LEMMA RetryKeepsInv ==
  ASSUME ShutdownInv, NEW s \in Slots, RetryPendingRefund(s)
  PROVE  ShutdownInv'
<1>1. item[s] # Nothing /\ item[s] \in ItemRow /\ item[s].status = "cancelled_refund_processing"
      /\ SlotInv(commitment[s], item[s], order) /\ UNCHANGED <<day, open, order, commitment>>
  BY DEF RetryPendingRefund, ShutdownInv, ShutdownTypeOK
<1>2. CASE item' = [item EXCEPT ![s].status = "needs_attention"] /\ UNCHANGED refundAsked
  <2> DEFINE i == [item[s] EXCEPT !.status = "needs_attention"]
  <2>1. item' = [item EXCEPT ![s] = i]
    BY <1>2
  <2>2. i \in ItemRow /\ i.order = item[s].order /\ i.reported = item[s].reported
        /\ i.status = "needs_attention"
    BY <1>1 DEF ItemRow
  <2>3. i # Nothing
    BY <2>2, ShutdownRowAssumption
  <2> HIDE DEF i
  <2>4. SlotInv(commitment[s], i, order)
    BY <1>1, <2>2, <2>3, ItemGoesOn DEF Awaits
  <2> QED
    BY <1>1, <1>2, <2>1, <2>2, <2>4, OneItemChanges
<1>3. CASE ~(item[s].attempts >= Attempts) /\ item' = [item EXCEPT ![s].attempts = @ + 1]
           /\ refundAsked' = refundAsked \cup {s}
  <2> DEFINE i == [item[s] EXCEPT !.attempts = @ + 1]
  <2>1. item' = [item EXCEPT ![s] = i]
    BY <1>3
  <2>2. item[s].attempts + 1 \in 0..Attempts
    <3>1. item[s].attempts \in 0..Attempts
      BY <1>1 DEF ItemRow
    <3> QED
      BY <1>3, <3>1, ShutdownAssumption
  <2>3. i \in ItemRow /\ i.order = item[s].order /\ i.reported = item[s].reported
        /\ i.status = "cancelled_refund_processing"
    BY <1>1, <2>2 DEF ItemRow
  <2>4. i # Nothing
    BY <2>3, ShutdownRowAssumption
  <2> HIDE DEF i
  <2>5. SlotInv(commitment[s], i, order)
    BY <1>1, <2>3, <2>4, ItemGoesOn DEF Awaits
  <2> QED
    BY <1>1, <1>3, <2>1, <2>3, <2>5, OneItemChanges
<1> QED
  BY <1>2, <1>3 DEF RetryPendingRefund

LEMMA ReportKeepsInv ==
  ASSUME ShutdownInv, NEW s \in Slots, RecordShutdownRefundCompleted(s)
  PROVE  ShutdownInv'
<1> DEFINE status == IF item[s].status \in {"cancelled_refund_processing", "cancelled_unpaid",
                                            "needs_attention"}
                     THEN "refunded" ELSE item[s].status
           i == [item[s] EXCEPT !.reported = TRUE, !.status = status]
<1>1. item[s] # Nothing /\ item[s] \in ItemRow /\ SlotInv(commitment[s], item[s], order)
  BY DEF RecordShutdownRefundCompleted, ShutdownInv, ShutdownTypeOK
<1>2. item' = [item EXCEPT ![s] = i] /\ UNCHANGED <<day, open, order, commitment>>
      /\ refundAsked' \subseteq refundAsked \cup {s}
  BY DEF RecordShutdownRefundCompleted
<1>3. i \in ItemRow /\ i.order = item[s].order /\ i.reported /\ i.attempts = item[s].attempts
      /\ (i.status = "identified" => item[s].status = "identified")
  BY <1>1 DEF ItemRow, Finished
<1>4. i # Nothing /\ (item[s].status = "identified" => item[s].attempts < Attempts)
  BY <1>1, <1>3, ShutdownRowAssumption DEF SlotInv, ItemInv
<1> HIDE DEF i
<1>5. SlotInv(commitment[s], i, order)
  BY <1>1, <1>3, <1>4, ItemGoesOn DEF Awaits
<1> QED
  BY <1>1, <1>2, <1>3, <1>5, OneItemChanges

-----------------------------------------------------------------------------
(* The steps of the owner and of the scheduler *)

LEMMA ActivateKeepsInv ==
  ASSUME ShutdownInv, NEW g \in Grounds, ActivateCourt(g)
  PROVE  ShutdownInv'
<1>1. ShutdownTypeOK'
  BY DEF ActivateCourt, ShutdownInv, ShutdownTypeOK
<1>2. ASSUME NEW o \in Orders
      PROVE  ClosedUnder(order'[o], open')
  <2>1. SUFFICES ASSUME order[o] # Nothing, ~order[o].ended, order[o].status = "inactive",
                        NEW h \in GroundsOf(order[o].scope)
                 PROVE  ~open'[h]
    BY DEF ClosedUnder, ActivateCourt
  <2>2. order[o] \in OrderRow
    BY <2>1 DEF ShutdownInv, ShutdownTypeOK
  <2>3. h \in Grounds /\ ~open[h]
    BY <2>1, <2>2, CourtsOfScope DEF ShutdownInv, ClosedUnder, OrderRow
  <2>4. o \in LiveOver(h)
    BY <2>1 DEF LiveOver, Live
  <2>5. h # g
    BY <2>4 DEF ActivateCourt
  <2> QED
    BY <2>3, <2>5 DEF ActivateCourt, ShutdownInv, ShutdownTypeOK
<1>3. \A s \in Slots : SlotInv(commitment'[s], item'[s], order')
  BY DEF ActivateCourt, ShutdownInv
<1>4. \A s \in refundAsked' : item'[s] # Nothing
  BY DEF ActivateCourt, ShutdownInv
<1> QED
  BY <1>1, <1>2, <1>3, <1>4 DEF ShutdownInv

\* What the owner's confirmation does to one commitment.
LEMMA ConfirmKeepsSlot ==
  ASSUME ShutdownInv, NEW o \in Orders, NEW scope \in Scopes, NEW mode \in Modes,
         NEW closeDay \in 1..(LastDay - 1), ConfirmShutdown(o, scope, mode, closeDay),
         NEW row \in OrderRow, order' = [order EXCEPT ![o] = row],
         row.scope = scope, row.mode = mode, ~row.ended, row.effectiveAt = CutoffOf(mode, closeDay),
         NEW s \in Slots
  PROVE  /\ commitment'[s] \in CommitmentRow \cup {Nothing}
         /\ item'[s] \in ItemRow \cup {Nothing}
         /\ item[s] # Nothing => item'[s] # Nothing
         /\ SlotInv(commitment'[s], item'[s], order')
<1> DEFINE closing == CutoffOf(mode, closeDay)
           i == [order |-> o, attempts |-> 0, reported |-> FALSE, path |-> "none",
                 status |-> "identified"]
<1>1. commitment[s] \in CommitmentRow \cup {Nothing} /\ item[s] \in ItemRow \cup {Nothing}
      /\ SlotInv(commitment[s], item[s], order)
      /\ order \in [Orders -> OrderRow \cup {Nothing}]
  BY DEF ShutdownInv, ShutdownTypeOK
<1>2. /\ commitment'[s] = IF s \in AffectedHolds(scope, closing)
                          THEN [commitment[s] EXCEPT !.status = "cancelled"] ELSE commitment[s]
      /\ item'[s] = IF s \in Affected(scope, closing) THEN i ELSE item[s]
  BY DEF ConfirmShutdown
<1>3. row # Nothing /\ (\A p \in Orders : order'[p] = IF p = o THEN row ELSE order[p])
  BY <1>1, ShutdownRowAssumption
<1>4. i \in ItemRow /\ i # Nothing /\ i.order = o /\ i.status = "identified" /\ 0 < Attempts
  <2>1. i \in ItemRow /\ 0 < Attempts
    BY ShutdownAssumption DEF ItemRow
  <2> QED
    BY <2>1, ShutdownRowAssumption
<1>5. i.attempts = 0
  OBVIOUS
<1> HIDE DEF i
<1>6. CASE s \in Affected(scope, closing)
  <2>1. commitment[s] \in CommitmentRow /\ BookedRow(commitment[s])
        /\ commitment[s].status # "hold"
    BY <1>1, <1>6 DEF Affected, Booked, Exists, BookedRow
  <2>2. commitment'[s] = commitment[s] /\ item'[s] = i
    BY <1>2, <1>6, <2>1 DEF AffectedHolds
  <2>3. SlotInv(commitment[s], i, order')
    BY <1>3, <1>4, <1>5, <2>1, ShutdownRowAssumption
       DEF SlotInv, ItemInv, ShutdownOf, Awaits
  <2> QED
    BY <1>4, <2>1, <2>2, <2>3
<1>7. CASE s \in AffectedHolds(scope, closing)
  <2> DEFINE c == [commitment[s] EXCEPT !.status = "cancelled"]
  <2>1. commitment[s] \in CommitmentRow /\ commitment[s].status = "hold"
    BY <1>1, <1>7 DEF AffectedHolds, Exists
  <2>2. commitment'[s] = c /\ item'[s] = item[s]
    BY <1>2, <1>7, <2>1 DEF Affected, Booked, Exists
  <2>3. c \in CommitmentRow /\ c.status = "cancelled"
    BY <2>1 DEF CommitmentRow
  <2> HIDE DEF c
  <2>4. item[s] = Nothing
    BY <1>1, <2>1 DEF SlotInv, ItemInv
  <2>5. SlotInv(c, item[s], order')
    BY <2>3, <2>4 DEF SlotInv, ItemInv, EngagedRow
  <2> QED
    BY <1>1, <2>2, <2>3, <2>5
<1>8. CASE s \notin Affected(scope, closing) /\ s \notin AffectedHolds(scope, closing)
  <2> DEFINE c == commitment[s]
             j == item[s]
  <2>1. commitment'[s] = c /\ item'[s] = j
    BY <1>2, <1>8
  <2>2. j # Nothing => ShutdownOf(c, j, order'[j.order])
    <3>1. CASE j # Nothing
      <4>1. j.order \in Orders
        BY <1>1, <3>1 DEF ItemRow
      <4> QED
        BY <1>1, <1>3, <4>1 DEF SlotInv, ShutdownOf
    <3> QED
      BY <3>1
  <2>3. ASSUME NEW p \in Orders, EngagedRow(c), Outlives(c, order'[p])
        PROVE  BookedRow(c) /\ Awaits(j)
    <3>1. CASE p # o
      BY <1>1, <1>3, <2>3, <3>1 DEF SlotInv
    <3>2. CASE p = o
      <4>1. mode # "winding_down" /\ c.ground \in GroundsOf(scope) /\ c.end > closing
        BY <1>3, <2>3, <3>2 DEF Outlives
      <4>2. c \in CommitmentRow
        BY <1>1, <2>3 DEF EngagedRow
      <4>3. c.end > day
        <5>1. day \in Int /\ closeDay \in Int /\ c.end \in Int
          BY <4>2, ShutdownAssumption DEF ShutdownInv, ShutdownTypeOK, CommitmentRow
        <5>2. CASE mode = "scheduled_close"
          <6>1. closeDay > day /\ c.end > closeDay
            BY <4>1, <5>2 DEF CutoffOf, ConfirmShutdown
          <6> QED
            BY <5>1, <6>1
        <5>3. CASE mode = "emergency"
          BY <4>1, <5>3 DEF CutoffOf
        <5> QED
          BY <4>1, <5>2, <5>3 DEF Modes
      <4>4. c.status # "hold"
        BY <1>8, <2>3, <4>1 DEF AffectedHolds, Exists, EngagedRow
      <4>5. BookedRow(c)
        BY <2>3, <4>4 DEF EngagedRow, BookedRow
      <4>6. j # Nothing
        BY <1>8, <4>1, <4>3, <4>5 DEF Affected, Booked, Exists, BookedRow
      <4> QED
        BY <1>1, <4>5, <4>6 DEF SlotInv, ItemInv
    <3> QED
      BY <3>1, <3>2
  <2>4. SlotInv(c, j, order')
    BY <1>1, <2>2, <2>3 DEF SlotInv
  <2> QED
    BY <1>1, <2>1, <2>4
<1> QED
  BY <1>6, <1>7, <1>8

LEMMA ConfirmKeepsInv ==
  ASSUME ShutdownInv, NEW o \in Orders, NEW scope \in Scopes, NEW mode \in Modes,
         NEW closeDay \in 1..(LastDay - 1), ConfirmShutdown(o, scope, mode, closeDay)
  PROVE  ShutdownInv'
<1> DEFINE closing == CutoffOf(mode, closeDay)
           resolution == IF order[o] # Nothing /\ order[o].resolution = "needs_attention"
                         THEN "needs_attention"
                         ELSE IF Affected(scope, closing) # {} THEN "processing"
                         ELSE IF order[o] # Nothing THEN order[o].resolution ELSE "not_required"
           originals == IF order[o] # Nothing THEN order[o].originals
                        ELSE {g \in GroundsOf(scope) : open[g]}
           status == IF mode = "emergency" THEN "inactive" ELSE mode
           row == [scope |-> scope, mode |-> mode, ended |-> FALSE, effectiveAt |-> closing,
                   status |-> status, resolution |-> resolution, originals |-> originals]
<1>1. order[o] \in OrderRow \cup {Nothing} /\ order' = [order EXCEPT ![o] = row]
      /\ UNCHANGED <<day, refundAsked>>
  BY DEF ShutdownInv, ShutdownTypeOK, ConfirmShutdown
<1>2. closing \in 0..Never
  <2>1. day \in 0..LastDay /\ LastDay \in Nat
    BY ShutdownAssumption DEF ShutdownInv, ShutdownTypeOK
  <2>2. day \in 0..Never /\ closeDay \in 0..Never /\ Never \in 0..Never
    BY <2>1 DEF Never
  <2> QED
    BY <2>2 DEF CutoffOf, Modes
<1>3. originals \subseteq Grounds
  BY <1>1, CourtsOfScope DEF OrderRow
<1>4. resolution \in {"not_required", "processing", "needs_attention", "completed"}
  BY <1>1 DEF OrderRow
<1>5. status \in {"winding_down", "scheduled_close", "inactive"}
      /\ (status = "inactive" => mode = "emergency")
  BY DEF Modes
<1> HIDE DEF closing, resolution, originals, status
<1>6. row \in OrderRow
  BY <1>2, <1>3, <1>4, <1>5 DEF OrderRow
<1>7. row.scope = scope /\ row.mode = mode /\ ~row.ended /\ row.effectiveAt = closing
      /\ row.status = status
  OBVIOUS
<1> HIDE DEF row
<1>8. ASSUME NEW s \in Slots
      PROVE  /\ commitment'[s] \in CommitmentRow \cup {Nothing}
             /\ item'[s] \in ItemRow \cup {Nothing}
             /\ item[s] # Nothing => item'[s] # Nothing
             /\ SlotInv(commitment'[s], item'[s], order')
  <2>1. row.effectiveAt = CutoffOf(mode, closeDay)
    BY <1>7 DEF closing
  <2> QED
    BY <1>1, <1>6, <1>7, <2>1, ConfirmKeepsSlot
<1>9. open' = [g \in Grounds |-> open[g] /\ ~(mode = "emergency" /\ g \in GroundsOf(scope))]
      /\ item' = [s \in Slots |-> item'[s]] /\ commitment' = [s \in Slots |-> commitment'[s]]
  BY DEF ConfirmShutdown
<1>10. ShutdownTypeOK'
  <2>1. open' \in [Grounds -> BOOLEAN] /\ order' \in [Orders -> OrderRow \cup {Nothing}]
    BY <1>1, <1>6, <1>9 DEF ShutdownInv, ShutdownTypeOK
  <2>2. item' \in [Slots -> ItemRow \cup {Nothing}]
    BY <1>8, <1>9
  <2>3. commitment' \in [Slots -> CommitmentRow \cup {Nothing}]
    BY <1>8, <1>9
  <2> QED
    BY <1>1, <2>1, <2>2, <2>3 DEF ShutdownInv, ShutdownTypeOK
<1>11. ASSUME NEW p \in Orders
       PROVE  ClosedUnder(order'[p], open')
  <2>1. CASE p = o
    <3>1. order'[p] = row /\ GroundsOf(scope) \subseteq Grounds
      BY <1>1, <2>1, CourtsOfScope DEF ShutdownInv, ShutdownTypeOK
    <3> QED
      BY <1>5, <1>7, <1>9, <3>1 DEF ClosedUnder
  <2>2. CASE p # o
    <3>1. order'[p] = order[p] /\ order[p] \in OrderRow \cup {Nothing} /\ ClosedUnder(order[p], open)
      BY <1>1, <2>2 DEF ShutdownInv, ShutdownTypeOK
    <3>2. order[p] # Nothing => GroundsOf(order[p].scope) \subseteq Grounds
      BY <3>1, CourtsOfScope DEF OrderRow
    <3> QED
      BY <1>9, <3>1, <3>2 DEF ClosedUnder
  <2> QED
    BY <2>1, <2>2
<1>12. \A s \in refundAsked' : item'[s] # Nothing
  BY <1>1, <1>8 DEF ShutdownInv, ShutdownTypeOK
<1> QED
  BY <1>8, <1>10, <1>11, <1>12 DEF ShutdownInv

\* A change of the status of a shutdown, or its end.
LEMMA OneOrderChanges ==
  ASSUME ShutdownInv, NEW o \in Orders, NEW row \in OrderRow, order[o] # Nothing,
         order' = [order EXCEPT ![o] = row],
         UNCHANGED <<day, commitment, item, refundAsked>>, open' \in [Grounds -> BOOLEAN],
         row.scope = order[o].scope, row.mode = order[o].mode,
         row.effectiveAt = order[o].effectiveAt, order[o].ended => row.ended,
         \A s \in ItemsOf(o) : row.ended /\ ~item[s].reported => ~Booked(s),
         \A p \in Orders : ClosedUnder(order'[p], open')
  PROVE  ShutdownInv'
<1>1. order' \in [Orders -> OrderRow \cup {Nothing}] /\ row # Nothing
      /\ \A p \in Orders : order'[p] = IF p = o THEN row ELSE order[p]
  BY ShutdownRowAssumption DEF ShutdownInv, ShutdownTypeOK
<1>2. ShutdownTypeOK'
  BY <1>1 DEF ShutdownInv, ShutdownTypeOK
<1>3. ASSUME NEW s \in Slots
      PROVE  SlotInv(commitment[s], item[s], order')
  <2>1. item[s] \in ItemRow \cup {Nothing} /\ SlotInv(commitment[s], item[s], order)
    BY DEF ShutdownInv, ShutdownTypeOK
  <2>2. ASSUME item[s] # Nothing
        PROVE  ShutdownOf(commitment[s], item[s], order'[item[s].order])
    <3>1. item[s].order \in Orders
      BY <2>1, <2>2 DEF ItemRow
    <3>2. ShutdownOf(commitment[s], item[s], order'[item[s].order])
      <4>1. CASE item[s].order = o
        <5>1. row.ended /\ ~item[s].reported => ~BookedRow(commitment[s])
          BY <2>2, <4>1 DEF ItemsOf, Booked, Exists, BookedRow
        <5> QED
          BY <1>1, <3>1, <4>1, <5>1 DEF ShutdownOf
      <4>2. CASE item[s].order # o
        BY <1>1, <2>1, <2>2, <3>1, <4>2 DEF SlotInv
      <4> QED
        BY <4>1, <4>2
    <3> QED
      BY <3>2
  <2>3. ASSUME NEW p \in Orders, EngagedRow(commitment[s]), Outlives(commitment[s], order'[p])
        PROVE  BookedRow(commitment[s]) /\ Awaits(item[s])
    <3>1. Outlives(commitment[s], order[p])
      <4>1. CASE p = o
        <5>1. order'[p] = row
          BY <1>1, <4>1
        <5> QED
          BY <2>3, <4>1, <5>1 DEF Outlives
      <4>2. CASE p # o
        BY <1>1, <2>3, <4>2
      <4> QED
        BY <4>1, <4>2
    <3> QED
      BY <2>1, <2>3, <3>1 DEF SlotInv
  <2> QED
    BY <2>1, <2>2, <2>3 DEF SlotInv
<1>4. \A s \in Slots : SlotInv(commitment'[s], item'[s], order')
  BY <1>3
<1>5. \A s \in refundAsked' : item'[s] # Nothing
  BY DEF ShutdownInv
<1> QED
  BY <1>2, <1>4, <1>5 DEF ShutdownInv

LEMMA RefreshKeepsInv ==
  ASSUME ShutdownInv, NEW o \in Orders, RefreshShutdownStatus(o)
  PROVE  ShutdownInv'
<1> DEFINE old == order[o]
           status == IF BecomesInactive(old) THEN "inactive" ELSE old.status
           row == [old EXCEPT !.status = status, !.resolution = ResolutionOf(o)]
<1>1. old \in OrderRow /\ old # Nothing /\ ~old.ended
  BY DEF RefreshShutdownStatus, Live, ShutdownInv, ShutdownTypeOK
<1>2. order' = [order EXCEPT ![o] = row] /\ UNCHANGED <<day, commitment, item, refundAsked>>
      /\ open' = [g \in Grounds |-> open[g] /\ ~(status # old.status /\ g \in GroundsOf(old.scope))]
  BY DEF RefreshShutdownStatus
<1>3. status \in {"winding_down", "scheduled_close", "inactive"}
      /\ ResolutionOf(o) \in {"not_required", "processing", "needs_attention", "completed"}
  BY <1>1 DEF OrderRow, ResolutionOf
<1>4. row \in OrderRow /\ row.scope = old.scope /\ row.mode = old.mode
      /\ row.effectiveAt = old.effectiveAt /\ row.ended = old.ended /\ row.status = status
  <2> HIDE DEF status
  <2> QED
    BY <1>1, <1>3 DEF OrderRow
<1>5. open' \in [Grounds -> BOOLEAN]
  BY <1>2 DEF ShutdownInv, ShutdownTypeOK
<1> HIDE DEF row, status
<1>6. ASSUME NEW p \in Orders
      PROVE  ClosedUnder(order'[p], open')
  <2>1. CASE p = o
    <3>1. order'[p] = row /\ GroundsOf(old.scope) \subseteq Grounds /\ ClosedUnder(old, open)
      BY <1>1, <1>2, <2>1, CourtsOfScope DEF ShutdownInv, ShutdownTypeOK, OrderRow
    <3> QED
      BY <1>1, <1>2, <1>4, <3>1 DEF ClosedUnder
  <2>2. CASE p # o
    <3>1. order'[p] = order[p] /\ order[p] \in OrderRow \cup {Nothing} /\ ClosedUnder(order[p], open)
      BY <1>2, <2>2 DEF ShutdownInv, ShutdownTypeOK
    <3>2. order[p] # Nothing => GroundsOf(order[p].scope) \subseteq Grounds
      BY <3>1, CourtsOfScope DEF OrderRow
    <3> QED
      BY <1>2, <3>1, <3>2 DEF ClosedUnder
  <2> QED
    BY <2>1, <2>2
<1>7. ~row.ended
  BY <1>1, <1>4
<1> QED
  BY <1>1, <1>2, <1>4, <1>5, <1>6, <1>7, OneOrderChanges

LEMMA ReactivateKeepsInv ==
  ASSUME ShutdownInv, NEW o \in Orders, Reactivate(o)
  PROVE  ShutdownInv'
<1> DEFINE old == order[o]
           row == [old EXCEPT !.ended = TRUE]
<1>1. old \in OrderRow /\ old # Nothing /\ o \in Live
  BY DEF Reactivate, Live, ShutdownInv, ShutdownTypeOK
<1>2. order' = [order EXCEPT ![o] = row] /\ UNCHANGED <<day, commitment, item, refundAsked>>
      /\ open' = [g \in Grounds |-> open[g] \/ (g \in order[o].originals /\ LiveOver(g) = {o})]
  BY DEF Reactivate
<1>3. row \in OrderRow /\ row.scope = old.scope /\ row.mode = old.mode
      /\ row.effectiveAt = old.effectiveAt /\ row.ended
  BY <1>1 DEF OrderRow
<1>4. open' \in [Grounds -> BOOLEAN]
  BY <1>2 DEF ShutdownInv, ShutdownTypeOK
<1> HIDE DEF row
<1>5. ASSUME NEW s \in ItemsOf(o), ~item[s].reported, Booked(s)
      PROVE  FALSE
  <2>1. s \in Slots /\ item[s] # Nothing /\ ItemInv(commitment[s], item[s])
    BY <1>5 DEF ItemsOf, ShutdownInv, SlotInv
  <2>2. item[s].status \in {"identified", "needs_attention"}
    BY <1>5, <2>1 DEF ItemInv, Booked, Exists, BookedRow, Awaits
  <2> QED
    BY <1>5, <2>2 DEF Reactivate, MayReactivate
<1>6. ASSUME NEW p \in Orders
      PROVE  ClosedUnder(order'[p], open')
  <2>1. CASE p = o
    BY <1>1, <1>2, <1>3, <2>1 DEF ClosedUnder, ShutdownInv, ShutdownTypeOK
  <2>2. CASE p # o
    <3>1. order'[p] = order[p] /\ order[p] \in OrderRow \cup {Nothing} /\ ClosedUnder(order[p], open)
      BY <1>2, <2>2 DEF ShutdownInv, ShutdownTypeOK
    <3>2. order[p] # Nothing => GroundsOf(order[p].scope) \subseteq Grounds
      BY <3>1, CourtsOfScope DEF OrderRow
    <3>3. order[p] # Nothing /\ ~order[p].ended =>
            \A g \in GroundsOf(order[p].scope) : p \in LiveOver(g)
      BY DEF LiveOver, Live
    <3>4. \A g \in Grounds : p \in LiveOver(g) => open'[g] = open[g]
      BY <1>2, <2>2 DEF ShutdownInv, ShutdownTypeOK
    <3> QED
      BY <3>1, <3>2, <3>3, <3>4 DEF ClosedUnder
  <2> QED
    BY <2>1, <2>2
<1> QED
  BY <1>1, <1>2, <1>3, <1>4, <1>5, <1>6, OneOrderChanges

-----------------------------------------------------------------------------
(* Shutdown: the theorems *)

LEMMA ShutdownInvInit == ShutdownInit => ShutdownInv
<1> SUFFICES ASSUME ShutdownInit PROVE ShutdownInv
  OBVIOUS
<1>1. ShutdownTypeOK
  BY ShutdownAssumption DEF ShutdownInit, ShutdownTypeOK
<1>2. \A s \in Slots : SlotInv(commitment[s], item[s], order)
  BY DEF ShutdownInit, SlotInv, ItemInv, EngagedRow
<1>3. \A o \in Orders : ClosedUnder(order[o], open)
  BY DEF ShutdownInit, ClosedUnder
<1> QED
  BY <1>1, <1>2, <1>3 DEF ShutdownInit, ShutdownInv

LEMMA ShutdownInvStep == ShutdownInv /\ [ShutdownNext]_shutdownVars => ShutdownInv'
<1> SUFFICES ASSUME ShutdownInv, [ShutdownNext]_shutdownVars PROVE ShutdownInv'
  OBVIOUS
<1>1. ASSUME NEW s \in Slots, SlotNext(s) PROVE ShutdownInv'
  BY <1>1, SlotStep
<1>2. ASSUME NEW s \in Slots, ItemNext(s) PROVE ShutdownInv'
  BY <1>2, ProcessKeepsInv, FailureKeepsInv, RetryKeepsInv, ReportKeepsInv DEF ItemNext
<1>3. CASE OwnerNext
  BY <1>3, ActivateKeepsInv, ConfirmKeepsInv, ReactivateKeepsInv DEF OwnerNext
<1>4. ASSUME NEW o \in Orders, RefreshShutdownStatus(o) PROVE ShutdownInv'
  BY <1>4, RefreshKeepsInv
<1>5. CASE DayEnds
  <2>1. UNCHANGED <<open, order, commitment, item, refundAsked>> /\ day' \in 0..LastDay
    BY <1>5, ShutdownAssumption DEF DayEnds, ShutdownInv, ShutdownTypeOK
  <2>2. ShutdownTypeOK'
    BY <2>1 DEF ShutdownInv, ShutdownTypeOK
  <2> QED
    BY <2>1, <2>2 DEF ShutdownInv
<1>6. CASE UNCHANGED shutdownVars
  <2>1. UNCHANGED <<day, open, order, commitment, item, refundAsked>>
    BY <1>6 DEF shutdownVars
  <2>2. ShutdownTypeOK'
    BY <2>1 DEF ShutdownInv, ShutdownTypeOK
  <2> QED
    BY <2>1, <2>2 DEF ShutdownInv
<1> QED
  BY <1>1, <1>2, <1>3, <1>4, <1>5, <1>6 DEF ShutdownNext

LEMMA ShutdownAlways == ShutdownSpec => []ShutdownInv
BY ShutdownInvInit, ShutdownInvStep, PTL DEF ShutdownSpec

\* The rows of shutdowns, items and bookings stay within the schema.
THEOREM ShutdownTypeCorrect == ShutdownSpec => []ShutdownTypeOK
BY ShutdownAlways, PTL DEF ShutdownInv

\* No commitment outlives the cutoff of a shutdown of its court or its venue, unless
\* an item will cancel it, a person has to, or its payment was refunded late
\* (operationalShutdown.ts: assertCourtAcceptsCommitment, confirmOperationalShutdown).
THEOREM CutoffsAreKept == ShutdownSpec => []CutoffIsKept
<1>1. ShutdownInv => CutoffIsKept
  <2> SUFFICES ASSUME ShutdownInv, NEW s \in Slots, Engaged(s),
                      NEW o \in LiveOver(commitment[s].ground),
                      order[o].mode # "winding_down", commitment[s].end > order[o].effectiveAt
               PROVE  /\ Booked(s) /\ item[s] # Nothing
                      /\ item[s].status \in {"identified", "needs_attention"} \/ item[s].reported
    BY DEF CutoffIsKept
  <2>1. o \in Orders /\ Outlives(commitment[s], order[o])
    BY DEF LiveOver, Live, Outlives
  <2>2. EngagedRow(commitment[s]) /\ SlotInv(commitment[s], item[s], order)
    BY DEF ShutdownInv, Engaged, Exists, EngagedRow
  <2>3. BookedRow(commitment[s]) /\ Awaits(item[s])
    BY <2>1, <2>2 DEF SlotInv
  <2> QED
    BY <2>3 DEF BookedRow, Booked, Exists, Awaits
<1> QED
  BY <1>1, ShutdownAlways, PTL

\* A shutdown is ended only when everything it had to cancel is cancelled
\* (reactivateOperationalShutdown), and no later shutdown brings a booking back.
THEOREM EndedShutdownsAreDone == ShutdownSpec => []EndedShutdownIsDone
<1>1. ShutdownInv => EndedShutdownIsDone
  BY DEF ShutdownInv, SlotInv, ShutdownOf, EndedShutdownIsDone, Booked, Exists, BookedRow
<1> QED
  BY <1>1, ShutdownAlways, PTL

\* No court is open while a shutdown that covers it is inactive, whatever shutdowns of
\* the court and of its venue overlap (refreshShutdownStatus, reactivateOperationalShutdown).
THEOREM InactiveCourtsAreClosed == ShutdownSpec => []InactiveMeansClosed
<1>1. ShutdownInv => InactiveMeansClosed
  BY DEF ShutdownInv, ClosedUnder, InactiveMeansClosed, Live
<1> QED
  BY <1>1, ShutdownAlways, PTL
=============================================================================
