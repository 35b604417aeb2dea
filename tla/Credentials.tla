----------------------------- MODULE Credentials -----------------------------
(***************************************************************************)
(* How an agent keeps its access to the server: one-time enrollment tokens *)
(* and rotating refresh tokens on the server (agent_identity.py), the      *)
(* credential file, the access token in memory and credential_lock in the  *)
(* agent (credential_manager.py), and the bootstrap that enrolls           *)
(* (timeweaver.py).                                                        *)
(*                                                                         *)
(* A credential stands for its row, its refresh token and the access       *)
(* tokens issued with it.  A transaction of the server is one step, and so *)
(* is one request, file operation or memory update of a thread.  Tokens    *)
(* are random: a new one differs from all that anything still refers to.   *)
(* The device keeps its name and its group.                                *)
(***************************************************************************)
EXTENDS FiniteSets, Naturals

CONSTANTS
  Channels,     \* the threads that ask for access once the agent is up
  Tokens,       \* credentials; at least as many as can be referred to at once
  Enrollments,  \* agent_enrollment_token
  NoFile, Corrupt, \* contents of the file that are no credential
  NoToken,      \* None, of an access or an enrollment token
  Nobody,       \* holds the lock when it is free
  Faults,       \* those considered: "lost" (a request that the client gives up on),
                \* "busy" (429, 5xx), "read", "write", "remove" (OSError),
                \* "damage" (a file that holds no credential), "crash"
  MaxFaults     \* bound: how many happen

Main == "main"
Threads == Channels \cup {Main}

ASSUME CredentialAssumption ==
  /\ Main \notin Channels /\ Nobody \notin Channels \cup {Main}
  /\ Tokens \cap Enrollments = {}
  /\ {NoFile, Corrupt, NoToken} \cap (Tokens \cup Enrollments) = {}
  /\ NoFile # Corrupt
  /\ MaxFaults \in Nat

VARIABLES
  valid,       \* the device's credentials that are neither revoked nor expired
  expired,     \* credentials whose 90 days are over
  orphaned,    \* unrevoked credentials of a devices row that was deleted
  device,      \* devices.status, "none" without a row
  group,       \* groups.status
  enrollment,  \* each enrollment token's row: "closed" when used, revoked or expired
  abandoned,   \* requests the server has still to handle, though nobody waits
  file,        \* the credential file
  memory,      \* _access_token: the credential it belongs to
  fresh,       \* it is valid for at least ACCESS_REFRESH_LEAD
  lock,        \* who holds credential_lock
  up,          \* the bootstrap has completed
  envToken,    \* the enrollment token in the environment
  pc, held,    \* of each thread: where it is, with which credential in hand
  mishap,      \* history: something has come between the file and the server
  faults       \* history: how many faults happened

serverVars == <<valid, expired, orphaned, device, group, enrollment>>
storeVars == <<file, memory, fresh>>
agentVars == <<lock, up, envToken, pc, held>>
vars == <<serverVars, abandoned, storeVars, agentVars, mishap, faults>>

\* Where a thread holds credential_lock.
Locked == {"locked", "refresh", "refused", "granted", "stored"}

TypeOK ==
  /\ valid \subseteq Tokens /\ expired \subseteq Tokens /\ orphaned \subseteq Tokens
  /\ device \in {"none", "active", "inactive"} /\ group \in {"active", "inactive"}
  /\ enrollment \in [Enrollments -> {"none", "unused", "closed"}]
  /\ abandoned \subseteq Tokens \cup Enrollments
  /\ file \in Tokens \cup {NoFile, Corrupt}
  /\ memory \in Tokens \cup {NoToken} /\ fresh \in BOOLEAN
  /\ lock \in Threads \cup {Nobody} /\ up \in BOOLEAN
  /\ envToken \in Enrollments \cup {NoToken}
  /\ pc \in [Threads -> {"idle", "waiting", "enroll", "enrolled", "use", "ended"}
                           \cup Locked]
  /\ held \in [Threads -> Tokens \cup {NoToken}]
  /\ mishap \in BOOLEAN
  /\ faults \in 0 .. MaxFaults

\* A new agent, with or without an enrollment token.
Init ==
  /\ valid = {} /\ expired = {} /\ orphaned = {}
  /\ device = "none" /\ group = "active"
  /\ envToken \in Enrollments \cup {NoToken}
  /\ enrollment = [e \in Enrollments |-> IF e = envToken THEN "unused" ELSE "none"]
  /\ abandoned = {}
  /\ file = NoFile /\ memory = NoToken /\ fresh = FALSE
  /\ lock = Nobody /\ up = FALSE
  /\ pc = [t \in Threads |-> "idle"]
  /\ held = [t \in Threads |-> NoToken]
  /\ mishap = FALSE /\ faults = 0

Fault(kind) == kind \in Faults /\ faults < MaxFaults /\ faults' = faults + 1

-----------------------------------------------------------------------------
(* Transactions of the server *)

Referenced == {file, memory} \cup {held[t] : t \in Threads} \cup valid \cup abandoned
Unused == Tokens \ Referenced
New == CHOOSE c \in Tokens : c \notin Referenced

\* A credential is inserted, and those of the device before it are revoked.
IssueCredential ==
  /\ Unused # {}
  /\ valid' = {New}
  /\ expired' = expired \ {New} /\ orphaned' = orphaned \ {New}

Rotate(c) ==
  /\ c \in valid /\ device = "active"
  /\ IssueCredential
  /\ UNCHANGED <<device, group, enrollment>>

\* Revoked, expired or unknown.
InvalidToken(c) == c \notin valid \cup orphaned \/ c \in expired

DeviceInactive(c) == ~InvalidToken(c) /\ (c \in orphaned \/ device # "active")

CanEnroll(e) == enrollment[e] = "unused" /\ group = "active" /\ device # "inactive"

Enroll(e) ==
  /\ CanEnroll(e)
  /\ IssueCredential
  /\ device' = "active"
  /\ enrollment' = [enrollment EXCEPT ![e] = "closed"]
  /\ UNCHANGED group

VerifyAccess(c) == c \in valid /\ device = "active"

-----------------------------------------------------------------------------
(* ensure_access_token *)

Usable == memory # NoToken /\ fresh
Goto(t, p) == pc' = [pc EXCEPT ![t] = p]
TakeInHand(t, c) == held' = [held EXCEPT ![t] = c]
Unlock == lock' = Nobody
ForgetAccess == memory' = NoToken /\ fresh' = FALSE

\* What a channel does with its access token is AgentSync's; the bootstrap uses
\* it for its first exchanges.
WithAccess(t) == IF t = Main THEN "use" ELSE "idle"

\* Only the bootstrap enrolls, and only if there is a token.
NeedsEnrollment(t) == IF t = Main /\ envToken # NoToken THEN "enroll" ELSE "idle"

Runs(t) == up <=> t # Main

\* With a usable token in memory the lock is not taken.
FastPath(t) ==
  /\ Runs(t) /\ pc[t] = "idle"
  /\ Goto(t, IF Usable THEN WithAccess(t) ELSE "waiting")
  /\ UNCHANGED <<serverVars, abandoned, storeVars, lock, up, envToken, held, mishap, faults>>

\* Mutant: the refresh is not single-flight.
TakeLock_Shared(t) ==
  /\ pc[t] \in {"waiting", "enrolled"}
  /\ lock' = t
  /\ Goto(t, IF pc[t] = "waiting" THEN "locked" ELSE "granted")
  /\ UNCHANGED <<serverVars, abandoned, storeVars, up, envToken, held, mishap, faults>>

\* Of ensure_access_token, or of install_enrollment with an answer in hand.
TakeLock(t) ==
  /\ pc[t] \in {"waiting", "enrolled"} /\ lock = Nobody
  /\ lock' = t
  /\ Goto(t, IF pc[t] = "waiting" THEN "locked" ELSE "granted")
  /\ UNCHANGED <<serverVars, abandoned, storeVars, up, envToken, held, mishap, faults>>

\* Mutant: memory is not looked at again under the lock.
Recheck_Skipped(t) == FALSE

\* Another thread has refreshed meanwhile.
Recheck(t) == Usable

FoundRefreshed(t) ==
  /\ pc[t] = "locked" /\ Recheck(t)
  /\ Goto(t, WithAccess(t)) /\ Unlock
  /\ UNCHANGED <<serverVars, abandoned, storeVars, up, envToken, held, mishap, faults>>

\* Mutant: whatever the file holds is sent.
ReadFile_Unchecked(t) ==
  /\ pc[t] = "locked" /\ ~Recheck(t)
  /\ TakeInHand(t, file) /\ Goto(t, "refresh")
  /\ UNCHANGED <<serverVars, abandoned, storeVars, lock, up, envToken, mishap, faults>>

\* The file is read, and its refresh token is sent.
ReadFile(t) ==
  /\ pc[t] = "locked" /\ ~Recheck(t)
  /\ file \in Tokens \ expired
  /\ TakeInHand(t, file) /\ Goto(t, "refresh")
  /\ UNCHANGED <<serverVars, abandoned, storeVars, lock, up, envToken, mishap, faults>>

\* The call ends without access; the file stays.
Fails(t) ==
  /\ ForgetAccess /\ Unlock
  /\ TakeInHand(t, NoToken) /\ Goto(t, "idle")
  /\ UNCHANGED <<file, up, envToken>>

\* Mutant: a file that cannot be read is taken for an invalid one.
ReadFails_Discards(t) ==
  /\ pc[t] = "locked" /\ ~Recheck(t) /\ file # NoFile
  /\ Fault("read")
  /\ file' = NoFile /\ ForgetAccess /\ Unlock
  /\ Goto(t, NeedsEnrollment(t))
  /\ UNCHANGED <<serverVars, abandoned, up, envToken, held, mishap>>

\* A permission error or a sharing violation.
ReadFails(t) ==
  /\ pc[t] = "locked" /\ ~Recheck(t) /\ file # NoFile
  /\ Fault("read")
  /\ Fails(t)
  /\ UNCHANGED <<serverVars, abandoned, mishap>>

\* The exception is caught for a file that holds no credential.  Otherwise it ends
\* the thread's call or, as nothing in the bootstrap catches it, the process.
RemoveFails(t) ==
  /\ Fault("remove") /\ UNCHANGED file
  /\ \/ file = Corrupt /\ ForgetAccess /\ Goto(t, NeedsEnrollment(t))
     \/ file # Corrupt /\ t # Main /\ UNCHANGED <<memory, fresh>> /\ Goto(t, "idle")
     \/ file # Corrupt /\ t = Main /\ ForgetAccess /\ Goto(t, "ended")

\* The credential is of no use any more and the file is removed.
Discard(t) ==
  /\ TakeInHand(t, NoToken) /\ Unlock
  /\ \/ file' = NoFile /\ ForgetAccess /\ Goto(t, NeedsEnrollment(t)) /\ UNCHANGED faults
     \/ RemoveFails(t)
  /\ UNCHANGED <<serverVars, abandoned, up, envToken, mishap>>

\* Mutant: a credential that has expired is kept, like one that cannot be read.
NothingStored_KeepsExpired(t) ==
  /\ pc[t] = "locked" /\ ~Recheck(t)
  /\ file \notin Tokens \ expired
  /\ IF file \in expired
     THEN Fails(t) /\ UNCHANGED <<serverVars, abandoned, mishap, faults>>
     ELSE Discard(t)

\* No file, no credential in it, or one that has expired.
NothingStored(t) ==
  /\ pc[t] = "locked" /\ ~Recheck(t)
  /\ file \notin Tokens \ expired
  /\ Discard(t)

\* The server rotates the token ...
RefreshGranted(t) ==
  /\ pc[t] = "refresh"
  /\ Rotate(held[t])
  /\ TakeInHand(t, New) /\ Goto(t, "granted")
  /\ UNCHANGED <<abandoned, storeVars, lock, up, envToken, mishap, faults>>

\* ... or refuses it ...
RefreshRefused(t) ==
  /\ pc[t] = "refresh"
  /\ InvalidToken(held[t])
  /\ Goto(t, "refused")
  /\ UNCHANGED <<serverVars, abandoned, storeVars, lock, up, envToken, held, mishap, faults>>

HandleRefusal(t) == pc[t] = "refused" /\ Discard(t)

\* ... or answers that the device is not active, or that it is busy.
RefreshPostponed(t) ==
  /\ pc[t] = "refresh"
  /\ \/ DeviceInactive(held[t]) /\ UNCHANGED faults
     \/ Fault("busy")
  /\ Fails(t)
  /\ UNCHANGED <<serverVars, abandoned, mishap>>

\* Connection or read timeout: the server may handle the request later, or never.
RefreshTimesOut(t) ==
  /\ pc[t] = "refresh"
  /\ Fault("lost")
  /\ abandoned' = abandoned \cup {held[t]}
  /\ Fails(t)
  /\ UNCHANGED <<serverVars, mishap>>

\* Mutant: the access token is installed before the file is replaced.
WriteFile_MemoryFirst(t) ==
  /\ pc[t] = "granted"
  /\ memory' = held[t] /\ fresh' = TRUE
  /\ Goto(t, "stored")
  /\ UNCHANGED <<serverVars, abandoned, file, lock, up, envToken, held, mishap, faults>>

\* The file is replaced atomically.
WriteFile(t) ==
  /\ pc[t] = "granted"
  /\ file' = held[t]
  /\ Goto(t, "stored")
  /\ UNCHANGED <<serverVars, abandoned, memory, fresh, lock, up, envToken, held, mishap, faults>>

\* An error before the replacement or after it (credential_persist_failed).
WriteFails(t) ==
  /\ pc[t] = "granted"
  /\ Fault("write")
  /\ file' \in {file, held[t]}
  /\ mishap' = (mishap \/ file' # held[t])
  /\ ForgetAccess /\ Unlock
  /\ TakeInHand(t, NoToken) /\ Goto(t, "idle")
  /\ UNCHANGED <<serverVars, abandoned, up, envToken>>

InstallAccess(t) ==
  /\ pc[t] = "stored"
  /\ memory' = held[t] /\ fresh' = TRUE
  /\ Unlock /\ TakeInHand(t, NoToken) /\ Goto(t, WithAccess(t))
  /\ UNCHANGED <<serverVars, abandoned, file, up, envToken, mishap, faults>>

-----------------------------------------------------------------------------
(* The bootstrap *)

EnrollGranted ==
  /\ pc[Main] = "enroll"
  /\ Enroll(envToken)
  /\ TakeInHand(Main, New) /\ Goto(Main, "enrolled")
  /\ UNCHANGED <<abandoned, storeVars, lock, up, envToken, mishap, faults>>

\* Refused, busy or timed out: the bootstrap begins again after a delay.
EnrollFails ==
  /\ pc[Main] = "enroll"
  /\ \/ ~CanEnroll(envToken) /\ UNCHANGED <<abandoned, faults>>
     \/ Fault("busy") /\ UNCHANGED abandoned
     \/ Fault("lost") /\ abandoned' = abandoned \cup {envToken}
  /\ Goto(Main, "idle")
  /\ UNCHANGED <<serverVars, storeVars, lock, up, envToken, held, mishap>>

\* The first heartbeat and snapshot, with the access token just obtained.
FirstExchanges ==
  /\ pc[Main] = "use"
  /\ Goto(Main, "idle")
  /\ \/ up' = VerifyAccess(memory) /\ UNCHANGED faults
     \/ up' = FALSE /\ Fault("busy")
  /\ UNCHANGED <<serverVars, abandoned, storeVars, lock, envToken, held, mishap>>

ProcessEnded == pc[Main] = "ended"

\* A stop or a crash, unless the process has ended by itself, and a start with or
\* without an enrollment token.
Restart ==
  /\ IF ProcessEnded THEN UNCHANGED faults ELSE Fault("crash")
  /\ envToken' \in {e \in Enrollments : enrollment[e] # "none"} \cup {NoToken}
  /\ abandoned' = abandoned \cup {held[t] : t \in {u \in Threads : pc[u] = "refresh"}}
                            \cup {envToken : t \in {u \in Threads : pc[u] = "enroll"}}
  /\ mishap' = (mishap \/ \E t \in Threads : pc[t] \in {"granted", "enrolled"})
  /\ ForgetAccess /\ Unlock /\ up' = FALSE
  /\ pc' = [t \in Threads |-> "idle"] /\ held' = [t \in Threads |-> NoToken]
  /\ UNCHANGED <<serverVars, file>>

-----------------------------------------------------------------------------
(* Late requests, the dashboard, other installations, and time *)

\* The server handles a request whose client has given up; its answer is lost.
HandleAbandoned(r) ==
  /\ r \in abandoned
  /\ abandoned' = abandoned \ {r}
  /\ \/ (r \in Enrollments /\ Enroll(r)) \/ (r \in Tokens /\ Rotate(r))
     \/ ~(r \in Enrollments /\ CanEnroll(r)) /\ ~(r \in valid /\ device = "active")
        /\ UNCHANGED serverVars
  /\ mishap' = (mishap \/ valid' # valid)
  /\ UNCHANGED <<storeVars, agentVars, faults>>

OutsideAgent == UNCHANGED <<abandoned, storeVars, agentVars, faults>>

IssueEnrollment(e) ==
  /\ enrollment[e] = "none" /\ group = "active"
  /\ enrollment' = [enrollment EXCEPT ![e] = "unused"]
  /\ UNCHANGED <<valid, expired, orphaned, device, group, mishap>>
  /\ OutsideAgent

\* Revoked by an operator, or out of time.
CloseEnrollment(e) ==
  /\ enrollment[e] = "unused"
  /\ enrollment' = [enrollment EXCEPT ![e] = "closed"]
  /\ UNCHANGED <<valid, expired, orphaned, device, group, mishap>>
  /\ OutsideAgent

\* Another installation presents the token with the name of this device.
EnrollElsewhere(e) ==
  /\ Enroll(e)
  /\ mishap' = TRUE
  /\ OutsideAgent

\* insert_device, update_device.
SetDevice ==
  /\ device' \in {"active", "inactive"} \ {device}
  /\ UNCHANGED <<valid, expired, orphaned, group, enrollment, mishap>>
  /\ OutsideAgent

\* The credential rows stay.
RemoveDevice ==
  /\ device # "none"
  /\ device' = "none"
  /\ valid' = {} /\ orphaned' = orphaned \cup valid
  /\ UNCHANGED <<expired, group, enrollment, mishap>>
  /\ OutsideAgent

UpdateGroup ==
  /\ group' \in {"active", "inactive"} \ {group}
  /\ UNCHANGED <<valid, expired, orphaned, device, enrollment, mishap>>
  /\ OutsideAgent

CredentialExpires(c) ==
  /\ c \in valid \cup orphaned
  /\ valid' = valid \ {c} /\ orphaned' = orphaned \ {c} /\ expired' = expired \cup {c}
  /\ UNCHANGED <<device, group, enrollment, mishap>>
  /\ OutsideAgent

\* Less than ACCESS_REFRESH_LEAD is left of the access token in memory.
AccessLapses ==
  /\ Usable
  /\ fresh' = FALSE
  /\ UNCHANGED <<serverVars, abandoned, file, memory, agentVars, mishap, faults>>

\* Somebody damages the file.
DamageFile ==
  /\ file \in Tokens
  /\ Fault("damage")
  /\ file' = Corrupt
  /\ mishap' = TRUE
  /\ UNCHANGED <<serverVars, abandoned, memory, fresh, agentVars>>

-----------------------------------------------------------------------------
Thread(t) ==
  \/ FastPath(t) \/ TakeLock(t) \/ FoundRefreshed(t)
  \/ ReadFile(t) \/ ReadFails(t) \/ NothingStored(t)
  \/ RefreshGranted(t) \/ RefreshRefused(t) \/ HandleRefusal(t)
  \/ RefreshPostponed(t) \/ RefreshTimesOut(t)
  \/ WriteFile(t) \/ WriteFails(t) \/ InstallAccess(t)
  \/ t = Main /\ (EnrollGranted \/ EnrollFails \/ FirstExchanges)

Dashboard ==
  \/ \E e \in Enrollments : IssueEnrollment(e) \/ CloseEnrollment(e)
  \/ SetDevice \/ RemoveDevice \/ UpdateGroup

Next ==
  \/ \E t \in Threads : Thread(t)
  \/ Restart
  \/ \E r \in Tokens \cup Enrollments : HandleAbandoned(r)
  \/ Dashboard
  \/ \E e \in Enrollments : EnrollElsewhere(e)
  \/ \E c \in Tokens : CredentialExpires(c)
  \/ AccessLapses \/ DamageFile

Spec == Init /\ [][Next]_vars

(***************************************************************************)
(* The agent's threads run, the server answers, and time ends every access *)
(* token.  Operators and other installations promise nothing.              *)
(***************************************************************************)
FairSpec == Spec /\ WF_vars(AccessLapses) /\ \A t \in Threads : WF_vars(Thread(t))

-----------------------------------------------------------------------------
(* Properties *)

(***************************************************************************)
(* An access token is handed out only once the refresh token that came     *)
(* with it is in the file: a crash costs no more than the access token.    *)
(* (Unless somebody has damaged the file since.)                           *)
(***************************************************************************)
UsableIsStored == Usable => file \in {memory, Corrupt}

(***************************************************************************)
(* The server's live credential is the one in the file, unless a thread is *)
(* on its way with it or something came between the two: no order of the   *)
(* threads alone strands the agent.                                        *)
(***************************************************************************)
LiveIsStored ==
  mishap \/ (\E t \in Threads : held[t] \in valid) \/ valid \subseteq {file}

(***************************************************************************)
(* The agent removes its file only when the credential in it is dead: not  *)
(* when it could not be read, when the server is busy or unreachable, or   *)
(* when the device is paused (credential_manager.py:253-260).              *)
(***************************************************************************)
DiscardOnlyDead == [][file' = NoFile => file \notin valid]_vars

(***************************************************************************)
(* Rotating revokes the access tokens in use: no refresh, timed out ones   *)
(* that are handled late included, replaces the credential of an access    *)
(* token that was still good.                                              *)
(***************************************************************************)
RotatesOnlyWhenStale ==
  [][valid' \ valid # {} /\ enrollment' = enrollment /\ Usable
       => memory \notin valid]_vars

\* The access token in memory is one that the server accepts.
Trusted == Usable /\ VerifyAccess(memory)

\* The agent has lost its credential and cannot enroll: it is past its bootstrap, has
\* no token that would be taken, or a file stands in the way whose device is gone.
Stranded ==
  /\ valid \cap ({file} \cup {held[t] : t \in Threads}) = {}
  /\ \/ up \/ envToken = NoToken \/ file \in orphaned
     \/ envToken # NoToken /\ ~CanEnroll(envToken)

(***************************************************************************)
(* While device and group are active, the agent gets its access back time  *)
(* and again, whatever failed before, unless it has lost its credential    *)
(* where it cannot enroll, or its process has ended and nobody starts it.  *)
(***************************************************************************)
AccessRegained ==
  <>[](device # "inactive" /\ group = "active")
    => []<>Trusted \/ <>[]Stranded \/ <>[]ProcessEnded
=============================================================================
