-------------------------- MODULE CredentialsProofs --------------------------
(***************************************************************************)
(* Proofs about Credentials, for any number of channels, credentials,      *)
(* enrollment tokens and faults.                                           *)
(*                                                                         *)
(* The inductive invariant says where a thread with a credential in hand   *)
(* may be (under the lock, or alone in the bootstrap), what it has then    *)
(* found out about that credential, and that nobody uses an access token   *)
(* meanwhile.                                                              *)
(***************************************************************************)
EXTENDS Credentials, TLAPS

\* credential_lock is held where the code is inside its with block.
LockOwner == \A t \in Threads : lock = t <=> pc[t] \in Locked

\* The channels start when the bootstrap, which alone enrolls, has ended.
OneAtWork ==
  /\ \A t \in Channels : pc[t] # "idle" => up
  /\ up => pc[Main] = "idle"
  /\ \A t \in Channels : pc[t] \notin {"enroll", "enrolled", "use", "ended"}
  /\ pc[Main] = "enroll" => envToken # NoToken

\* What a thread knows of the credential in its hand.
Hands ==
  \A t \in Threads :
    /\ pc[t] \in {"refresh", "refused"} => held[t] \in Tokens /\ file \in {held[t], Corrupt}
    /\ pc[t] = "refused" => held[t] \notin valid
    /\ pc[t] \in {"granted", "stored", "enrolled"} =>
         held[t] \in Tokens \ abandoned /\ (mishap \/ valid \subseteq {held[t]})
    /\ pc[t] = "stored" => file \in {held[t], Corrupt}
    /\ pc[t] \in {"idle", "waiting", "locked", "use", "enroll", "ended"} => held[t] = NoToken

\* Where a thread is about to change the credential.
Renewing == (Locked \ {"locked"}) \cup {"enroll", "enrolled"}

\* Nobody has access while a credential is being renewed.
NoAccess == \A t \in Threads : pc[t] \in Renewing => ~Usable

\* Whoever is issued a credential cuts off the one before.
OneLiveCredential == \A c, d \in valid : c = d

DeadStaysDead == valid \cap expired = {}

DamageIsMishap == file = Corrupt => mishap

\* No late request can rotate the credential in use.
NotAbandoned == Usable => memory \notin abandoned

IInv ==
  /\ TypeOK /\ LockOwner /\ OneAtWork /\ Hands /\ NoAccess
  /\ DeadStaysDead /\ DamageIsMishap /\ NotAbandoned
  /\ OneLiveCredential /\ UsableIsStored /\ LiveIsStored

USE CredentialAssumption DEF Threads

-----------------------------------------------------------------------------
(* A new token is one that nothing refers to. *)
LEMMA NewToken ==
  Unused # {} => New \in Tokens /\ New \notin Referenced
BY Zenon DEF Unused, New

\* Two threads never renew a credential at a time.
LEMMA Alone ==
  ASSUME LockOwner, OneAtWork,
         NEW t \in Threads, NEW u \in Threads,
         pc[t] \in Locked \cup {"enroll", "enrolled"},
         pc[u] \in Locked \cup {"enroll", "enrolled"}
  PROVE  t = u
BY DEF LockOwner, OneAtWork, Locked

\* A fault is counted within its bound.
LEMMA FaultCounted ==
  ASSUME TypeOK, NEW kind, Fault(kind)
  PROVE  faults' \in 0 .. MaxFaults
BY DEF TypeOK, Fault

-----------------------------------------------------------------------------
(* The inductive step, an action at a time *)

\* A thread that begins a call holds nothing.
LEMMA FastPathKeeps ==
  ASSUME IInv, NEW t \in Threads, FastPath(t)
  PROVE  IInv'
<1> USE DEF IInv, FastPath, Runs, WithAccess, Goto, serverVars, storeVars, Usable, Locked,
    Renewing
<1>1. TypeOK'
  BY DEF TypeOK, Hands
<1>2. LockOwner' /\ OneAtWork'
  BY DEF LockOwner, OneAtWork, TypeOK
<1>3. Hands'
  BY DEF Hands, TypeOK, LockOwner, OneAtWork, OneLiveCredential, DamageIsMishap,
    DeadStaysDead
<1>4. NoAccess' /\ NotAbandoned' /\ UsableIsStored'
  BY DEF NoAccess, NotAbandoned, UsableIsStored, TypeOK, LockOwner, OneAtWork, Hands
<1>5. DeadStaysDead' /\ DamageIsMishap' /\ OneLiveCredential' /\ LiveIsStored'
  BY DEF DeadStaysDead, DamageIsMishap, OneLiveCredential, LiveIsStored, TypeOK, Hands,
    OneAtWork, LockOwner
<1>6. QED
  BY <1>1, <1>2, <1>3, <1>4, <1>5

\* Whoever takes the lock finds it free.
LEMMA TakeLockKeeps ==
  ASSUME IInv, NEW t \in Threads, TakeLock(t)
  PROVE  IInv'
<1> USE DEF IInv, TakeLock, Goto, serverVars, storeVars, Usable, Locked, Renewing
<1>1. TypeOK'
  BY DEF TypeOK, Hands
<1>2. LockOwner' /\ OneAtWork'
  BY DEF LockOwner, OneAtWork, TypeOK
<1>3. Hands'
  BY DEF Hands, TypeOK, LockOwner, OneAtWork, OneLiveCredential, DamageIsMishap,
    DeadStaysDead
<1>4. NoAccess' /\ NotAbandoned' /\ UsableIsStored'
  BY DEF NoAccess, NotAbandoned, UsableIsStored, TypeOK, LockOwner, OneAtWork, Hands
<1>5. DeadStaysDead' /\ DamageIsMishap' /\ OneLiveCredential' /\ LiveIsStored'
  BY DEF DeadStaysDead, DamageIsMishap, OneLiveCredential, LiveIsStored, TypeOK, Hands,
    OneAtWork, LockOwner
<1>6. QED
  BY <1>1, <1>2, <1>3, <1>4, <1>5

\* The lock is given back with nothing in hand.
LEMMA FoundRefreshedKeeps ==
  ASSUME IInv, NEW t \in Threads, FoundRefreshed(t)
  PROVE  IInv'
<1> USE DEF IInv, FoundRefreshed, Recheck, WithAccess, Goto, Unlock, serverVars,
    storeVars, Usable, Locked, Renewing
<1>1. \A u \in Threads : pc[u] \in Locked \cup {"enroll", "enrolled"} => u = t
  BY Alone
<1>2. TypeOK'
  BY <1>1 DEF TypeOK, Hands
<1>3. LockOwner' /\ OneAtWork'
  BY <1>1 DEF LockOwner, OneAtWork, TypeOK
<1>4. Hands'
  BY <1>1 DEF Hands, TypeOK, LockOwner, OneAtWork, OneLiveCredential, DamageIsMishap,
    DeadStaysDead
<1>5. NoAccess' /\ NotAbandoned' /\ UsableIsStored'
  BY <1>1 DEF NoAccess, NotAbandoned, UsableIsStored, TypeOK, LockOwner, OneAtWork, Hands
<1>6. DeadStaysDead' /\ DamageIsMishap' /\ OneLiveCredential' /\ LiveIsStored'
  BY <1>1 DEF DeadStaysDead, DamageIsMishap, OneLiveCredential, LiveIsStored, TypeOK,
    Hands, OneAtWork, LockOwner
<1>7. QED
  BY <1>2, <1>3, <1>4, <1>5, <1>6

\* The credential comes from the file, and nobody has access.
LEMMA ReadFileKeeps ==
  ASSUME IInv, NEW t \in Threads, ReadFile(t)
  PROVE  IInv'
<1> USE DEF IInv, ReadFile, Recheck, Goto, TakeInHand, serverVars, storeVars, Usable,
    Locked, Renewing
<1>1. \A u \in Threads : pc[u] \in Locked \cup {"enroll", "enrolled"} => u = t
  BY Alone
<1>2. TypeOK'
  BY <1>1 DEF TypeOK, Hands
<1>3. LockOwner' /\ OneAtWork'
  BY <1>1 DEF LockOwner, OneAtWork, TypeOK
<1>4. Hands'
  BY <1>1 DEF Hands, TypeOK, LockOwner, OneAtWork, OneLiveCredential, DamageIsMishap,
    DeadStaysDead
<1>5. NoAccess' /\ NotAbandoned' /\ UsableIsStored'
  BY <1>1 DEF NoAccess, NotAbandoned, UsableIsStored, TypeOK, LockOwner, OneAtWork, Hands
<1>6. DeadStaysDead' /\ DamageIsMishap' /\ OneLiveCredential' /\ LiveIsStored'
  BY <1>1 DEF DeadStaysDead, DamageIsMishap, OneLiveCredential, LiveIsStored, TypeOK,
    Hands, OneAtWork, LockOwner
<1>7. QED
  BY <1>2, <1>3, <1>4, <1>5, <1>6

\* The file stays.
LEMMA ReadFailsKeeps ==
  ASSUME IInv, NEW t \in Threads, ReadFails(t)
  PROVE  IInv'
<1> USE DEF IInv, ReadFails, Recheck, Fails, Goto, TakeInHand, Unlock, ForgetAccess,
    serverVars, Usable, Locked, Renewing
<1>1. \A u \in Threads : pc[u] \in Locked \cup {"enroll", "enrolled"} => u = t
  BY Alone
<1>2. faults' \in 0 .. MaxFaults
  BY FaultCounted DEF TypeOK
<1>3. TypeOK'
  BY <1>1, <1>2 DEF TypeOK, Hands
<1>4. LockOwner' /\ OneAtWork'
  BY <1>1 DEF LockOwner, OneAtWork, TypeOK
<1>5. Hands'
  BY <1>1 DEF Hands, TypeOK, LockOwner, OneAtWork, OneLiveCredential, DamageIsMishap,
    DeadStaysDead
<1>6. NoAccess' /\ NotAbandoned' /\ UsableIsStored'
  BY <1>1 DEF NoAccess, NotAbandoned, UsableIsStored, TypeOK, LockOwner, OneAtWork, Hands
<1>7. DeadStaysDead' /\ DamageIsMishap' /\ OneLiveCredential' /\ LiveIsStored'
  BY <1>1 DEF DeadStaysDead, DamageIsMishap, OneLiveCredential, LiveIsStored, TypeOK,
    Hands, OneAtWork, LockOwner
<1>8. QED
  BY <1>3, <1>4, <1>5, <1>6, <1>7

\* What is discarded is not live.
LEMMA NothingStoredKeeps ==
  ASSUME IInv, NEW t \in Threads, NothingStored(t)
  PROVE  IInv'
<1> USE DEF IInv, NothingStored, Recheck, Discard, RemoveFails, NeedsEnrollment, Goto,
    TakeInHand, Unlock, ForgetAccess, serverVars, Usable, Locked, Renewing
<1>1. \A u \in Threads : pc[u] \in Locked \cup {"enroll", "enrolled"} => u = t
  BY Alone
<1>2. faults' \in 0 .. MaxFaults
  BY FaultCounted DEF TypeOK
<1>3. TypeOK'
  BY <1>1, <1>2 DEF TypeOK, Hands
<1>4. LockOwner' /\ OneAtWork'
  BY <1>1 DEF LockOwner, OneAtWork, TypeOK
<1>5. Hands'
  BY <1>1 DEF Hands, TypeOK, LockOwner, OneAtWork, OneLiveCredential, DamageIsMishap,
    DeadStaysDead
<1>6. NoAccess' /\ NotAbandoned' /\ UsableIsStored'
  BY <1>1 DEF NoAccess, NotAbandoned, UsableIsStored, TypeOK, LockOwner, OneAtWork, Hands
<1>7. DeadStaysDead' /\ DamageIsMishap' /\ OneLiveCredential' /\ LiveIsStored'
  BY <1>1 DEF DeadStaysDead, DamageIsMishap, OneLiveCredential, LiveIsStored, TypeOK,
    Hands, OneAtWork, LockOwner
<1>8. QED
  BY <1>3, <1>4, <1>5, <1>6, <1>7

\* The new credential is in a hand before it is in the file.
LEMMA RefreshGrantedKeeps ==
  ASSUME IInv, NEW t \in Threads, RefreshGranted(t)
  PROVE  IInv'
<1> USE NewToken DEF IInv, RefreshGranted, Rotate, IssueCredential, Goto, TakeInHand,
    storeVars, Usable, Locked, Renewing, Referenced
<1>1. \A u \in Threads : pc[u] \in Locked \cup {"enroll", "enrolled"} => u = t
  BY Alone
<1>2. TypeOK'
  BY <1>1 DEF TypeOK, Hands
<1>3. LockOwner' /\ OneAtWork'
  BY <1>1 DEF LockOwner, OneAtWork, TypeOK
<1>4. Hands'
  BY <1>1 DEF Hands, TypeOK, LockOwner, OneAtWork, OneLiveCredential, DamageIsMishap,
    DeadStaysDead
<1>5. NoAccess' /\ NotAbandoned' /\ UsableIsStored'
  BY <1>1 DEF NoAccess, NotAbandoned, UsableIsStored, TypeOK, LockOwner, OneAtWork, Hands
<1>6. DeadStaysDead' /\ DamageIsMishap' /\ OneLiveCredential' /\ LiveIsStored'
  BY <1>1 DEF DeadStaysDead, DamageIsMishap, OneLiveCredential, LiveIsStored, TypeOK,
    Hands, OneAtWork, LockOwner
<1>7. QED
  BY <1>2, <1>3, <1>4, <1>5, <1>6

\* A token that is refused is dead.
LEMMA RefreshRefusedKeeps ==
  ASSUME IInv, NEW t \in Threads, RefreshRefused(t)
  PROVE  IInv'
<1> USE DEF IInv, RefreshRefused, InvalidToken, Goto, serverVars, storeVars, Usable,
    Locked, Renewing
<1>1. \A u \in Threads : pc[u] \in Locked \cup {"enroll", "enrolled"} => u = t
  BY Alone
<1>2. TypeOK'
  BY <1>1 DEF TypeOK, Hands
<1>3. LockOwner' /\ OneAtWork'
  BY <1>1 DEF LockOwner, OneAtWork, TypeOK
<1>4. Hands'
  BY <1>1 DEF Hands, TypeOK, LockOwner, OneAtWork, OneLiveCredential, DamageIsMishap,
    DeadStaysDead
<1>5. NoAccess' /\ NotAbandoned' /\ UsableIsStored'
  BY <1>1 DEF NoAccess, NotAbandoned, UsableIsStored, TypeOK, LockOwner, OneAtWork, Hands
<1>6. DeadStaysDead' /\ DamageIsMishap' /\ OneLiveCredential' /\ LiveIsStored'
  BY <1>1 DEF DeadStaysDead, DamageIsMishap, OneLiveCredential, LiveIsStored, TypeOK,
    Hands, OneAtWork, LockOwner
<1>7. QED
  BY <1>2, <1>3, <1>4, <1>5, <1>6

\* Nobody else can have a credential in hand.
LEMMA HandleRefusalKeeps ==
  ASSUME IInv, NEW t \in Threads, HandleRefusal(t)
  PROVE  IInv'
<1> USE DEF IInv, HandleRefusal, Discard, RemoveFails, NeedsEnrollment, Goto, TakeInHand, Unlock,
    ForgetAccess, serverVars, Usable, Locked, Renewing
<1>1. \A u \in Threads : pc[u] \in Locked \cup {"enroll", "enrolled"} => u = t
  BY Alone
<1>2. faults' \in 0 .. MaxFaults
  BY FaultCounted DEF TypeOK
<1>3. pc' \in [Threads -> {"idle", "waiting", "enroll", "enrolled", "use", "ended"}
                      \cup Locked]
  BY DEF TypeOK
<1>4. held' \in [Threads -> Tokens \cup {NoToken}]
  BY DEF TypeOK, Hands
<1>5. abandoned' \subseteq Tokens \cup Enrollments
  BY DEF TypeOK, Hands, OneAtWork
<1>6. TypeOK'
  BY <1>1, <1>2, <1>3, <1>4, <1>5 DEF TypeOK, Hands
<1>7. LockOwner' /\ OneAtWork'
  BY <1>1 DEF LockOwner, OneAtWork, TypeOK
<1>8. Hands'
  BY <1>1 DEF Hands, TypeOK, LockOwner, OneAtWork, OneLiveCredential, DamageIsMishap,
    DeadStaysDead
<1>9. NoAccess' /\ NotAbandoned' /\ UsableIsStored'
  BY <1>1 DEF NoAccess, NotAbandoned, UsableIsStored, TypeOK, LockOwner, OneAtWork, Hands
<1>10. DeadStaysDead' /\ DamageIsMishap' /\ OneLiveCredential' /\ LiveIsStored'
  BY <1>1 DEF DeadStaysDead, DamageIsMishap, OneLiveCredential, LiveIsStored, TypeOK,
    Hands, OneAtWork, LockOwner
<1>11. QED
  BY <1>6, <1>7, <1>8, <1>9, <1>10

\* The credential stays in the file.
LEMMA RefreshPostponedKeeps ==
  ASSUME IInv, NEW t \in Threads, RefreshPostponed(t)
  PROVE  IInv'
<1> USE DEF IInv, RefreshPostponed, Fails, Goto, TakeInHand, Unlock, ForgetAccess,
    serverVars, Usable, Locked, Renewing
<1>1. \A u \in Threads : pc[u] \in Locked \cup {"enroll", "enrolled"} => u = t
  BY Alone
<1>2. faults' \in 0 .. MaxFaults
  BY FaultCounted DEF TypeOK
<1>3. TypeOK'
  BY <1>1, <1>2 DEF TypeOK, Hands
<1>4. LockOwner' /\ OneAtWork'
  BY <1>1 DEF LockOwner, OneAtWork, TypeOK
<1>5. Hands'
  BY <1>1 DEF Hands, TypeOK, LockOwner, OneAtWork, OneLiveCredential, DamageIsMishap,
    DeadStaysDead
<1>6. NoAccess' /\ NotAbandoned' /\ UsableIsStored'
  BY <1>1 DEF NoAccess, NotAbandoned, UsableIsStored, TypeOK, LockOwner, OneAtWork, Hands
<1>7. DeadStaysDead' /\ DamageIsMishap' /\ OneLiveCredential' /\ LiveIsStored'
  BY <1>1 DEF DeadStaysDead, DamageIsMishap, OneLiveCredential, LiveIsStored, TypeOK,
    Hands, OneAtWork, LockOwner
<1>8. QED
  BY <1>3, <1>4, <1>5, <1>6, <1>7

\* A late request can only be about the credential in the file.
LEMMA RefreshTimesOutKeeps ==
  ASSUME IInv, NEW t \in Threads, RefreshTimesOut(t)
  PROVE  IInv'
<1> USE DEF IInv, RefreshTimesOut, Fails, Goto, TakeInHand, Unlock, ForgetAccess,
    serverVars, Usable, Locked, Renewing
<1>1. \A u \in Threads : pc[u] \in Locked \cup {"enroll", "enrolled"} => u = t
  BY Alone
<1>2. faults' \in 0 .. MaxFaults
  BY FaultCounted DEF TypeOK
<1>3. pc' \in [Threads -> {"idle", "waiting", "enroll", "enrolled", "use", "ended"}
                      \cup Locked]
  BY DEF TypeOK
<1>4. held' \in [Threads -> Tokens \cup {NoToken}]
  BY DEF TypeOK, Hands
<1>5. abandoned' \subseteq Tokens \cup Enrollments
  BY DEF TypeOK, Hands, OneAtWork
<1>6. TypeOK'
  BY <1>1, <1>2, <1>3, <1>4, <1>5 DEF TypeOK, Hands
<1>7. LockOwner' /\ OneAtWork'
  BY <1>1 DEF LockOwner, OneAtWork, TypeOK
<1>8. Hands'
  BY <1>1 DEF Hands, TypeOK, LockOwner, OneAtWork, OneLiveCredential, DamageIsMishap,
    DeadStaysDead
<1>9. NoAccess' /\ NotAbandoned' /\ UsableIsStored'
  BY <1>1 DEF NoAccess, NotAbandoned, UsableIsStored, TypeOK, LockOwner, OneAtWork, Hands
<1>10. DeadStaysDead' /\ DamageIsMishap' /\ OneLiveCredential' /\ LiveIsStored'
  BY <1>1 DEF DeadStaysDead, DamageIsMishap, OneLiveCredential, LiveIsStored, TypeOK,
    Hands, OneAtWork, LockOwner
<1>11. QED
  BY <1>6, <1>7, <1>8, <1>9, <1>10

\* The file takes what the hand holds.
LEMMA WriteFileKeeps ==
  ASSUME IInv, NEW t \in Threads, WriteFile(t)
  PROVE  IInv'
<1> USE DEF IInv, WriteFile, Goto, serverVars, Usable, Locked, Renewing
<1>1. \A u \in Threads : pc[u] \in Locked \cup {"enroll", "enrolled"} => u = t
  BY Alone
<1>2. TypeOK'
  BY <1>1 DEF TypeOK, Hands
<1>3. LockOwner' /\ OneAtWork'
  BY <1>1 DEF LockOwner, OneAtWork, TypeOK
<1>4. Hands'
  BY <1>1 DEF Hands, TypeOK, LockOwner, OneAtWork, OneLiveCredential, DamageIsMishap,
    DeadStaysDead
<1>5. NoAccess' /\ NotAbandoned' /\ UsableIsStored'
  BY <1>1 DEF NoAccess, NotAbandoned, UsableIsStored, TypeOK, LockOwner, OneAtWork, Hands
<1>6. DeadStaysDead' /\ DamageIsMishap' /\ OneLiveCredential' /\ LiveIsStored'
  BY <1>1 DEF DeadStaysDead, DamageIsMishap, OneLiveCredential, LiveIsStored, TypeOK,
    Hands, OneAtWork, LockOwner
<1>7. QED
  BY <1>2, <1>3, <1>4, <1>5, <1>6

\* Either the file has the new credential, or something came between.
LEMMA WriteFailsKeeps ==
  ASSUME IInv, NEW t \in Threads, WriteFails(t)
  PROVE  IInv'
<1> USE DEF IInv, WriteFails, Goto, TakeInHand, Unlock, ForgetAccess, serverVars, Usable,
    Locked, Renewing
<1>1. \A u \in Threads : pc[u] \in Locked \cup {"enroll", "enrolled"} => u = t
  BY Alone
<1>2. faults' \in 0 .. MaxFaults
  BY FaultCounted DEF TypeOK
<1>3. pc' \in [Threads -> {"idle", "waiting", "enroll", "enrolled", "use", "ended"}
                      \cup Locked]
  BY DEF TypeOK
<1>4. held' \in [Threads -> Tokens \cup {NoToken}]
  BY DEF TypeOK, Hands
<1>5. abandoned' \subseteq Tokens \cup Enrollments
  BY DEF TypeOK, Hands, OneAtWork
<1>6. file' \in Tokens \cup {NoFile, Corrupt} /\ mishap' \in BOOLEAN
  BY DEF TypeOK, Hands
<1>7. TypeOK'
  BY <1>1, <1>2, <1>3, <1>4, <1>5, <1>6 DEF TypeOK, Hands
<1>8. LockOwner' /\ OneAtWork'
  BY <1>1 DEF LockOwner, OneAtWork, TypeOK
<1>9. Hands'
  BY <1>1 DEF Hands, TypeOK, LockOwner, OneAtWork, OneLiveCredential, DamageIsMishap,
    DeadStaysDead
<1>10. NoAccess' /\ NotAbandoned' /\ UsableIsStored'
  BY <1>1 DEF NoAccess, NotAbandoned, UsableIsStored, TypeOK, LockOwner, OneAtWork, Hands
<1>11. DeadStaysDead' /\ DamageIsMishap' /\ OneLiveCredential' /\ LiveIsStored'
  BY <1>1 DEF DeadStaysDead, DamageIsMishap, OneLiveCredential, LiveIsStored, TypeOK,
    Hands, OneAtWork, LockOwner
<1>12. QED
  BY <1>7, <1>8, <1>9, <1>10, <1>11

\* The credential in use is the one in the file.
LEMMA InstallAccessKeeps ==
  ASSUME IInv, NEW t \in Threads, InstallAccess(t)
  PROVE  IInv'
<1> USE DEF IInv, InstallAccess, WithAccess, Goto, TakeInHand, Unlock, serverVars, Usable,
    Locked, Renewing
<1>1. \A u \in Threads : pc[u] \in Locked \cup {"enroll", "enrolled"} => u = t
  BY Alone
<1>2. TypeOK'
  BY <1>1 DEF TypeOK, Hands
<1>3. LockOwner' /\ OneAtWork'
  BY <1>1 DEF LockOwner, OneAtWork, TypeOK
<1>4. Hands'
  BY <1>1 DEF Hands, TypeOK, LockOwner, OneAtWork, OneLiveCredential, DamageIsMishap,
    DeadStaysDead
<1>5. NoAccess' /\ NotAbandoned' /\ UsableIsStored'
  BY <1>1 DEF NoAccess, NotAbandoned, UsableIsStored, TypeOK, LockOwner, OneAtWork, Hands
<1>6. DeadStaysDead' /\ DamageIsMishap' /\ OneLiveCredential' /\ LiveIsStored'
  BY <1>1 DEF DeadStaysDead, DamageIsMishap, OneLiveCredential, LiveIsStored, TypeOK,
    Hands, OneAtWork, LockOwner
<1>7. QED
  BY <1>2, <1>3, <1>4, <1>5, <1>6

\* Only the bootstrap is at work.
LEMMA EnrollGrantedKeeps ==
  ASSUME IInv, EnrollGranted
  PROVE  IInv'
<1> USE NewToken DEF IInv, EnrollGranted, Enroll, CanEnroll, IssueCredential, Goto,
    TakeInHand, storeVars, Usable, Locked, Renewing, Referenced
<1>1. TypeOK'
  BY DEF TypeOK, Hands
<1>2. LockOwner' /\ OneAtWork'
  BY DEF LockOwner, OneAtWork, TypeOK
<1>3. Hands'
  BY DEF Hands, TypeOK, LockOwner, OneAtWork, OneLiveCredential, DamageIsMishap,
    DeadStaysDead
<1>4. NoAccess' /\ NotAbandoned' /\ UsableIsStored'
  BY DEF NoAccess, NotAbandoned, UsableIsStored, TypeOK, LockOwner, OneAtWork, Hands
<1>5. DeadStaysDead' /\ DamageIsMishap' /\ OneLiveCredential' /\ LiveIsStored'
  BY DEF DeadStaysDead, DamageIsMishap, OneLiveCredential, LiveIsStored, TypeOK, Hands,
    OneAtWork, LockOwner
<1>6. QED
  BY <1>1, <1>2, <1>3, <1>4, <1>5

\* The enrollment token may still be used, late.
LEMMA EnrollFailsKeeps ==
  ASSUME IInv, EnrollFails
  PROVE  IInv'
<1> USE DEF IInv, EnrollFails, Goto, serverVars, storeVars, Usable, Locked, Renewing
<1>1. faults' \in 0 .. MaxFaults
  BY FaultCounted DEF TypeOK
<1>2. pc' \in [Threads -> {"idle", "waiting", "enroll", "enrolled", "use", "ended"}
                      \cup Locked]
  BY DEF TypeOK
<1>3. held' \in [Threads -> Tokens \cup {NoToken}]
  BY DEF TypeOK, Hands
<1>4. abandoned' \subseteq Tokens \cup Enrollments
  BY DEF TypeOK, Hands, OneAtWork
<1>5. TypeOK'
  BY <1>1, <1>2, <1>3, <1>4 DEF TypeOK, Hands
<1>6. LockOwner' /\ OneAtWork'
  BY DEF LockOwner, OneAtWork, TypeOK
<1>7. Hands'
  BY DEF Hands, TypeOK, LockOwner, OneAtWork, OneLiveCredential, DamageIsMishap,
    DeadStaysDead
<1>8. NoAccess' /\ NotAbandoned' /\ UsableIsStored'
  BY DEF NoAccess, NotAbandoned, UsableIsStored, TypeOK, LockOwner, OneAtWork, Hands
<1>9. DeadStaysDead' /\ DamageIsMishap' /\ OneLiveCredential' /\ LiveIsStored'
  BY DEF DeadStaysDead, DamageIsMishap, OneLiveCredential, LiveIsStored, TypeOK, Hands,
    OneAtWork, LockOwner
<1>10. QED
  BY <1>5, <1>6, <1>7, <1>8, <1>9

\* The channels start with nothing in hand.
LEMMA FirstExchangesKeeps ==
  ASSUME IInv, FirstExchanges
  PROVE  IInv'
<1> USE DEF IInv, FirstExchanges, VerifyAccess, Goto, serverVars, storeVars, Usable,
    Locked, Renewing
<1>1. faults' \in 0 .. MaxFaults
  BY FaultCounted DEF TypeOK
<1>2. TypeOK'
  BY <1>1 DEF TypeOK, Hands
<1>3. LockOwner' /\ OneAtWork'
  BY DEF LockOwner, OneAtWork, TypeOK
<1>4. Hands'
  BY DEF Hands, TypeOK, LockOwner, OneAtWork, OneLiveCredential, DamageIsMishap,
    DeadStaysDead
<1>5. NoAccess' /\ NotAbandoned' /\ UsableIsStored'
  BY DEF NoAccess, NotAbandoned, UsableIsStored, TypeOK, LockOwner, OneAtWork, Hands
<1>6. DeadStaysDead' /\ DamageIsMishap' /\ OneLiveCredential' /\ LiveIsStored'
  BY DEF DeadStaysDead, DamageIsMishap, OneLiveCredential, LiveIsStored, TypeOK, Hands,
    OneAtWork, LockOwner
<1>7. QED
  BY <1>2, <1>3, <1>4, <1>5, <1>6

\* All that counts is in the file, or something came between.
LEMMA RestartKeeps ==
  ASSUME IInv, Restart
  PROVE  IInv'
<1> USE DEF IInv, Restart, ProcessEnded, Unlock, ForgetAccess, serverVars, Usable, Locked,
    Renewing
<1>1. faults' \in 0 .. MaxFaults
  BY FaultCounted DEF TypeOK
<1>2. pc' \in [Threads -> {"idle", "waiting", "enroll", "enrolled", "use", "ended"}
                      \cup Locked]
  BY DEF TypeOK
<1>3. held' \in [Threads -> Tokens \cup {NoToken}]
  BY DEF TypeOK, Hands
<1>4. abandoned' \subseteq Tokens \cup Enrollments
  BY DEF TypeOK, Hands, OneAtWork
<1>5. TypeOK'
  BY <1>1, <1>2, <1>3, <1>4 DEF TypeOK, Hands
<1>6. LockOwner' /\ OneAtWork'
  BY DEF LockOwner, OneAtWork, TypeOK
<1>7. Hands'
  BY DEF Hands, TypeOK, LockOwner, OneAtWork, OneLiveCredential, DamageIsMishap,
    DeadStaysDead
<1>8. NoAccess' /\ NotAbandoned' /\ UsableIsStored'
  BY DEF NoAccess, NotAbandoned, UsableIsStored, TypeOK, LockOwner, OneAtWork, Hands
<1>9. DeadStaysDead' /\ DamageIsMishap' /\ OneLiveCredential' /\ LiveIsStored'
  BY DEF DeadStaysDead, DamageIsMishap, OneLiveCredential, LiveIsStored, TypeOK, Hands,
    OneAtWork, LockOwner
<1>10. QED
  BY <1>5, <1>6, <1>7, <1>8, <1>9

\* A late request leaves every hand as it is, and counts as a mishap if it changes anything.
LEMMA HandleAbandonedKeeps ==
  ASSUME IInv, NEW r \in Tokens \cup Enrollments, HandleAbandoned(r)
  PROVE  IInv'
<1> USE NewToken DEF IInv, HandleAbandoned, Enroll, CanEnroll, Rotate, IssueCredential,
    serverVars, storeVars, agentVars, Usable, Locked, Renewing, Referenced
<1>1. valid' = valid \/ mishap'
  OBVIOUS
<1>2. \A u \in Threads : held[u] \notin valid => held[u] \notin valid'
  BY DEF TypeOK
<1>3. TypeOK'
  BY DEF TypeOK, Hands
<1>4. LockOwner' /\ OneAtWork'
  BY DEF LockOwner, OneAtWork, TypeOK
<1>5. Hands'
  BY <1>1, <1>2 DEF Hands, TypeOK, LockOwner, OneAtWork, OneLiveCredential,
    DamageIsMishap, DeadStaysDead
<1>6. NoAccess' /\ NotAbandoned' /\ UsableIsStored'
  BY DEF NoAccess, NotAbandoned, UsableIsStored, TypeOK, LockOwner, OneAtWork, Hands
<1>7. DeadStaysDead' /\ DamageIsMishap' /\ OneLiveCredential' /\ LiveIsStored'
  BY DEF DeadStaysDead, DamageIsMishap, OneLiveCredential, LiveIsStored, TypeOK, Hands,
    OneAtWork, LockOwner
<1>8. QED
  BY <1>3, <1>4, <1>5, <1>6, <1>7

\* Another installation counts as a mishap.
LEMMA EnrollElsewhereKeeps ==
  ASSUME IInv, NEW e \in Enrollments, EnrollElsewhere(e)
  PROVE  IInv'
<1> USE NewToken DEF IInv, EnrollElsewhere, Enroll, CanEnroll, IssueCredential,
    OutsideAgent, storeVars, agentVars, Usable, Locked, Renewing, Referenced
<1>1. TypeOK'
  BY DEF TypeOK, Hands
<1>2. LockOwner' /\ OneAtWork'
  BY DEF LockOwner, OneAtWork, TypeOK
<1>3. Hands'
  BY DEF Hands, TypeOK, LockOwner, OneAtWork, OneLiveCredential, DamageIsMishap,
    DeadStaysDead
<1>4. NoAccess' /\ NotAbandoned' /\ UsableIsStored'
  BY DEF NoAccess, NotAbandoned, UsableIsStored, TypeOK, LockOwner, OneAtWork, Hands
<1>5. DeadStaysDead' /\ DamageIsMishap' /\ OneLiveCredential' /\ LiveIsStored'
  BY DEF DeadStaysDead, DamageIsMishap, OneLiveCredential, LiveIsStored, TypeOK, Hands,
    OneAtWork, LockOwner
<1>6. QED
  BY <1>1, <1>2, <1>3, <1>4, <1>5

\* No credential of a removed device is live.
LEMMA RemoveDeviceKeeps ==
  ASSUME IInv, RemoveDevice
  PROVE  IInv'
<1> USE DEF IInv, RemoveDevice, OutsideAgent, storeVars, agentVars, Usable, Locked,
    Renewing
<1>1. TypeOK'
  BY DEF TypeOK, Hands
<1>2. LockOwner' /\ OneAtWork'
  BY DEF LockOwner, OneAtWork, TypeOK
<1>3. Hands'
  BY DEF Hands, TypeOK, LockOwner, OneAtWork, OneLiveCredential, DamageIsMishap,
    DeadStaysDead
<1>4. NoAccess' /\ NotAbandoned' /\ UsableIsStored'
  BY DEF NoAccess, NotAbandoned, UsableIsStored, TypeOK, LockOwner, OneAtWork, Hands
<1>5. DeadStaysDead' /\ DamageIsMishap' /\ OneLiveCredential' /\ LiveIsStored'
  BY DEF DeadStaysDead, DamageIsMishap, OneLiveCredential, LiveIsStored, TypeOK, Hands,
    OneAtWork, LockOwner
<1>6. QED
  BY <1>1, <1>2, <1>3, <1>4, <1>5

\* One live credential less.
LEMMA CredentialExpiresKeeps ==
  ASSUME IInv, NEW c \in Tokens, CredentialExpires(c)
  PROVE  IInv'
<1> USE DEF IInv, CredentialExpires, OutsideAgent, storeVars, agentVars, Usable, Locked,
    Renewing
<1>1. TypeOK'
  BY DEF TypeOK, Hands
<1>2. LockOwner' /\ OneAtWork'
  BY DEF LockOwner, OneAtWork, TypeOK
<1>3. Hands'
  BY DEF Hands, TypeOK, LockOwner, OneAtWork, OneLiveCredential, DamageIsMishap,
    DeadStaysDead
<1>4. NoAccess' /\ NotAbandoned' /\ UsableIsStored'
  BY DEF NoAccess, NotAbandoned, UsableIsStored, TypeOK, LockOwner, OneAtWork, Hands
<1>5. DeadStaysDead' /\ DamageIsMishap' /\ OneLiveCredential' /\ LiveIsStored'
  BY DEF DeadStaysDead, DamageIsMishap, OneLiveCredential, LiveIsStored, TypeOK, Hands,
    OneAtWork, LockOwner
<1>6. QED
  BY <1>1, <1>2, <1>3, <1>4, <1>5

\* Nobody loses more than access.
LEMMA AccessLapsesKeeps ==
  ASSUME IInv, AccessLapses
  PROVE  IInv'
<1> USE DEF IInv, AccessLapses, serverVars, agentVars, Usable, Locked, Renewing
<1>1. TypeOK'
  BY DEF TypeOK, Hands
<1>2. LockOwner' /\ OneAtWork'
  BY DEF LockOwner, OneAtWork, TypeOK
<1>3. Hands'
  BY DEF Hands, TypeOK, LockOwner, OneAtWork, OneLiveCredential, DamageIsMishap,
    DeadStaysDead
<1>4. NoAccess' /\ NotAbandoned' /\ UsableIsStored'
  BY DEF NoAccess, NotAbandoned, UsableIsStored, TypeOK, LockOwner, OneAtWork, Hands
<1>5. DeadStaysDead' /\ DamageIsMishap' /\ OneLiveCredential' /\ LiveIsStored'
  BY DEF DeadStaysDead, DamageIsMishap, OneLiveCredential, LiveIsStored, TypeOK, Hands,
    OneAtWork, LockOwner
<1>6. QED
  BY <1>1, <1>2, <1>3, <1>4, <1>5

\* Damage counts as a mishap.
LEMMA DamageFileKeeps ==
  ASSUME IInv, DamageFile
  PROVE  IInv'
<1> USE DEF IInv, DamageFile, serverVars, agentVars, Usable, Locked, Renewing
<1>1. faults' \in 0 .. MaxFaults
  BY FaultCounted DEF TypeOK
<1>2. TypeOK'
  BY <1>1 DEF TypeOK, Hands
<1>3. LockOwner' /\ OneAtWork'
  BY DEF LockOwner, OneAtWork, TypeOK
<1>4. Hands'
  BY DEF Hands, TypeOK, LockOwner, OneAtWork, OneLiveCredential, DamageIsMishap,
    DeadStaysDead
<1>5. NoAccess' /\ NotAbandoned' /\ UsableIsStored'
  BY DEF NoAccess, NotAbandoned, UsableIsStored, TypeOK, LockOwner, OneAtWork, Hands
<1>6. DeadStaysDead' /\ DamageIsMishap' /\ OneLiveCredential' /\ LiveIsStored'
  BY DEF DeadStaysDead, DamageIsMishap, OneLiveCredential, LiveIsStored, TypeOK, Hands,
    OneAtWork, LockOwner
<1>7. QED
  BY <1>2, <1>3, <1>4, <1>5, <1>6

\* The forms of the dashboard that only open or close doors.
LEMMA FormsKeep ==
  ASSUME IInv,
         \/ \E e \in Enrollments : IssueEnrollment(e) \/ CloseEnrollment(e)
         \/ SetDevice \/ UpdateGroup
  PROVE  IInv'
<1> USE DEF IInv, IssueEnrollment, CloseEnrollment, SetDevice, UpdateGroup, OutsideAgent,
    storeVars, agentVars, Usable, Locked, Renewing
<1>1. TypeOK'
  BY DEF TypeOK
<1>2. LockOwner' /\ OneAtWork' /\ Hands' /\ NoAccess' /\ NotAbandoned'
  BY DEF LockOwner, OneAtWork, Hands, NoAccess, NotAbandoned
<1>3. DeadStaysDead' /\ DamageIsMishap' /\ OneLiveCredential' /\ UsableIsStored'
        /\ LiveIsStored'
  BY DEF DeadStaysDead, DamageIsMishap, OneLiveCredential, UsableIsStored, LiveIsStored
<1>4. QED
  BY <1>1, <1>2, <1>3

-----------------------------------------------------------------------------
(* The invariant and what it says *)

\* A new agent satisfies the invariant.
LEMMA InitInvariant == Init => IInv
<1> SUFFICES ASSUME Init PROVE IInv
  OBVIOUS
<1> USE DEF Init, Locked, Usable
<1>1. TypeOK
  <2>1. enrollment \in [Enrollments -> {"none", "unused", "closed"}]
    OBVIOUS
  <2>2. pc \in [Threads -> {"idle"}] /\ held \in [Threads -> {NoToken}]
    OBVIOUS
  <2>3. faults \in 0 .. MaxFaults
    OBVIOUS
  <2>4. QED
    BY <2>1, <2>2, <2>3 DEF TypeOK
<1>2. LockOwner /\ OneAtWork /\ Hands
  BY DEF LockOwner, OneAtWork, Hands
<1>3. QED
  BY <1>1, <1>2 DEF IInv, NoAccess, DeadStaysDead, DamageIsMishap, NotAbandoned,
    OneLiveCredential, UsableIsStored, LiveIsStored

\* A stuttering step changes nothing the invariant is about.
LEMMA StutterKeeps == IInv /\ UNCHANGED vars => IInv'
BY DEF vars, serverVars, storeVars, agentVars, IInv, TypeOK, LockOwner, OneAtWork, Hands,
  NoAccess, DeadStaysDead, DamageIsMishap, NotAbandoned, OneLiveCredential,
  UsableIsStored, LiveIsStored, Usable

\* Every step of a thread, of the server and of everybody else keeps the invariant.
LEMMA NextKeeps == IInv /\ [Next]_vars => IInv'
<1> SUFFICES ASSUME IInv, [Next]_vars PROVE IInv'
  OBVIOUS
<1>1. ASSUME NEW t \in Threads, Thread(t) PROVE IInv'
  BY <1>1, FastPathKeeps, TakeLockKeeps, FoundRefreshedKeeps, ReadFileKeeps,
     ReadFailsKeeps, NothingStoredKeeps, RefreshGrantedKeeps, RefreshRefusedKeeps,
     HandleRefusalKeeps, RefreshPostponedKeeps, RefreshTimesOutKeeps, WriteFileKeeps,
     WriteFailsKeeps, InstallAccessKeeps, EnrollGrantedKeeps, EnrollFailsKeeps,
     FirstExchangesKeeps
  DEF Thread
<1>2. CASE Restart
  BY <1>2, RestartKeeps
<1>3. ASSUME NEW r \in Tokens \cup Enrollments, HandleAbandoned(r) PROVE IInv'
  BY <1>3, HandleAbandonedKeeps
<1>4. CASE Dashboard
  BY <1>4, FormsKeep, RemoveDeviceKeeps DEF Dashboard
<1>5. ASSUME NEW e \in Enrollments, EnrollElsewhere(e) PROVE IInv'
  BY <1>5, EnrollElsewhereKeeps
<1>6. ASSUME NEW c \in Tokens, CredentialExpires(c) PROVE IInv'
  BY <1>6, CredentialExpiresKeeps
<1>7. CASE AccessLapses \/ DamageFile
  BY <1>7, AccessLapsesKeeps, DamageFileKeeps
<1>8. CASE UNCHANGED vars
  BY <1>8, StutterKeeps
<1>9. QED
  BY <1>1, <1>2, <1>3, <1>4, <1>5, <1>6, <1>7, <1>8 DEF Next

(***************************************************************************)
(* The inductive invariant holds in every state: for any number of         *)
(* channels and of faults, whatever requests are answered late.            *)
(***************************************************************************)
THEOREM CredentialsInvariant == Spec => []IInv
BY InitInvariant, NextKeeps, PTL DEF Spec

(***************************************************************************)
(* The server's tables, the file and the threads keep their types.         *)
(***************************************************************************)
THEOREM CredentialsTypeCorrect == Spec => []TypeOK
BY CredentialsInvariant, PTL DEF IInv

(***************************************************************************)
(* No access token is used before its refresh token is in the file         *)
(* (credential_manager.py:289-296).                                        *)
(***************************************************************************)
THEOREM CredentialsUsableIsStored == Spec => []UsableIsStored
BY CredentialsInvariant, PTL DEF IInv

(***************************************************************************)
(* No order of the threads alone leaves the live credential out of the     *)
(* file (credential_manager.py:246-299).                                   *)
(***************************************************************************)
THEOREM CredentialsLiveIsStored == Spec => []LiveIsStored
BY CredentialsInvariant, PTL DEF IInv

\* Whatever discards the file finds a dead credential in it.
LEMMA StepDiscardsOnlyDead ==
  ASSUME IInv, [Next]_vars, file' = NoFile
  PROVE  file \notin valid
<1> USE DEF IInv
<1>1. CASE file' = file
  BY <1>1 DEF TypeOK
<1>2. ASSUME NEW t \in Threads, NothingStored(t) PROVE file \notin valid
  BY <1>2 DEF NothingStored, TypeOK, DeadStaysDead
<1>3. ASSUME NEW t \in Threads, HandleRefusal(t) PROVE file \notin valid
  BY <1>3 DEF HandleRefusal, TypeOK, Hands
<1>4. ASSUME NEW t \in Threads, WriteFile(t) \/ WriteFails(t) PROVE file \notin valid
  BY <1>1, <1>4 DEF WriteFile, WriteFails, TypeOK, Hands
<1>5. CASE DamageFile
  BY <1>5 DEF DamageFile
<1>6. ASSUME NEW t \in Threads, Thread(t), ~NothingStored(t), ~HandleRefusal(t),
             ~WriteFile(t), ~WriteFails(t)
      PROVE  file' = file
  BY <1>6 DEF Thread, FastPath, TakeLock, FoundRefreshed, ReadFile, ReadFails, Fails,
    RefreshGranted, RefreshRefused, RefreshPostponed, RefreshTimesOut, InstallAccess,
    EnrollGranted, EnrollFails, FirstExchanges, storeVars
<1>7. CASE Restart \/ Dashboard \/ AccessLapses \/ UNCHANGED vars
  BY <1>1, <1>7 DEF Restart, Dashboard, IssueEnrollment, CloseEnrollment, SetDevice,
    RemoveDevice, UpdateGroup, AccessLapses, OutsideAgent, storeVars, vars
<1>8. ASSUME NEW r \in Tokens \cup Enrollments, HandleAbandoned(r) PROVE file' = file
  BY <1>8 DEF HandleAbandoned, storeVars
<1>9. ASSUME NEW e \in Enrollments, EnrollElsewhere(e) PROVE file' = file
  BY <1>9 DEF EnrollElsewhere, OutsideAgent, storeVars
<1>10. ASSUME NEW c \in Tokens, CredentialExpires(c) PROVE file' = file
  BY <1>10 DEF CredentialExpires, OutsideAgent, storeVars
<1>11. QED
  BY <1>1, <1>2, <1>3, <1>4, <1>5, <1>6, <1>7, <1>8, <1>9, <1>10 DEF Next

(***************************************************************************)
(* The agent never removes a file whose credential is live                 *)
(* (credential_manager.py:252-276, 345-348).                               *)
(***************************************************************************)
THEOREM CredentialsDiscardOnlyDead == Spec => DiscardOnlyDead
<1>1. IInv /\ [Next]_vars => [file' = NoFile => file \notin valid]_vars
  BY StepDiscardsOnlyDead
<1>2. QED
  BY <1>1, CredentialsInvariant, PTL DEF Spec, DiscardOnlyDead

\* Whatever replaces the live credential without an enrollment finds no access in use.
LEMMA StepRotatesOnlyWhenStale ==
  ASSUME IInv, [Next]_vars, valid' \ valid # {}, enrollment' = enrollment, Usable
  PROVE  memory \notin valid
<1> USE DEF IInv
<1>1. ASSUME NEW t \in Threads, RefreshGranted(t) PROVE memory \notin valid
  BY <1>1 DEF RefreshGranted, NoAccess, Renewing, Locked
<1>2. ASSUME NEW r \in Tokens \cup Enrollments, HandleAbandoned(r) PROVE memory \notin valid
  <2>1. ASSUME NEW e \in Enrollments, Enroll(e) PROVE enrollment' # enrollment
    BY <2>1 DEF Enroll, CanEnroll, TypeOK
  <2>2. CASE r \in Tokens /\ Rotate(r)
    BY <1>2, <2>2 DEF HandleAbandoned, Rotate, NotAbandoned, OneLiveCredential
  <2>3. CASE UNCHANGED serverVars
    BY <2>3 DEF serverVars
  <2>4. QED
    BY <1>2, <2>1, <2>2, <2>3 DEF HandleAbandoned
<1>3. ASSUME NEW e \in Enrollments, EnrollElsewhere(e) PROVE FALSE
  BY <1>3 DEF EnrollElsewhere, Enroll, CanEnroll, TypeOK
<1>4. ASSUME EnrollGranted PROVE FALSE
  <2>1. envToken \in Enrollments
    BY <1>4 DEF EnrollGranted, TypeOK, OneAtWork
  <2>2. QED
    BY <1>4, <2>1 DEF EnrollGranted, Enroll, CanEnroll, TypeOK
<1>5. ASSUME NEW t \in Threads, Thread(t), ~RefreshGranted(t), ~EnrollGranted
      PROVE  valid' = valid
  BY <1>5 DEF Thread, FastPath, TakeLock, FoundRefreshed, ReadFile, ReadFails,
    NothingStored, Discard, RefreshRefused, HandleRefusal, RefreshPostponed,
    RefreshTimesOut, WriteFile, WriteFails, InstallAccess, EnrollFails, FirstExchanges,
    serverVars
<1>6. CASE Restart \/ AccessLapses \/ DamageFile \/ UNCHANGED vars
  BY <1>6 DEF Restart, AccessLapses, DamageFile, serverVars, vars
<1>7. CASE Dashboard
  BY <1>7 DEF Dashboard, IssueEnrollment, CloseEnrollment, SetDevice, RemoveDevice,
    UpdateGroup
<1>8. ASSUME NEW c \in Tokens, CredentialExpires(c) PROVE FALSE
  BY <1>8 DEF CredentialExpires
<1>9. QED
  BY <1>1, <1>2, <1>3, <1>4, <1>5, <1>6, <1>7, <1>8 DEF Next

(***************************************************************************)
(* A rotation never cuts off an access token in use, not even one that the *)
(* server carries out after the agent has given up on it                   *)
(* (credential_manager.py:246-249).                                        *)
(***************************************************************************)
THEOREM CredentialsRotatesOnlyWhenStale == Spec => RotatesOnlyWhenStale
<1>1. IInv /\ [Next]_vars
        => [valid' \ valid # {} /\ enrollment' = enrollment /\ Usable
              => memory \notin valid]_vars
  BY StepRotatesOnlyWhenStale
<1>2. QED
  BY <1>1, CredentialsInvariant, PTL DEF Spec, RotatesOnlyWhenStale
=============================================================================
