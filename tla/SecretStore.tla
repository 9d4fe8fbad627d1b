----------------------------- MODULE SecretStore -----------------------------
(***************************************************************************)
(* Package secrets: the probe of the OS keyring, the keyring backend, and  *)
(* the encrypted vault file used where there is no keyring.  Several       *)
(* processes share one keyring and one vault; inside a process vaultMu     *)
(* makes an operation one critical section, between processes only the     *)
(* write of the file is locked.                                            *)
(*                                                                         *)
(* A key is the pair of the password and the salt it was derived from, so  *)
(* a blob opens with a password exactly when its key is that password with *)
(* the salt in its header.  Nonces and ciphertext are left out.            *)
(***************************************************************************)
EXTENDS Integers, FiniteSets

CONSTANTS
    Procs,      \* webox processes
    Accounts,   \* account names, "" among them
    Tokens,     \* secret values
    Passwords,  \* what may be typed: [word, newlines]
    Keyrings,   \* how the OS keyring behaves
    OldVaults,  \* what the vault path may hold at first
    MaxOps      \* bound: operations that start

\* The probe's key is no slot: slots carry a prefix it has not.
ASSUME SecretAssumption ==
    /\ MaxOps \in Nat /\ "none" \notin Tokens /\ "none" \notin Procs
    /\ "probe" \notin Accounts

VARIABLES
    keyring,  \* the keyring's behaviour
    ring,     \* its contents
    disk,     \* the vault file
    stable,   \* the vault file as a power loss would leave it
    lock,     \* the holder of <path>.lock, or "none"
    mem,      \* per process: the backend
    op,       \* per process: the operation under way
    started,  \* operations started
    writer,   \* the process whose open backend wrote the file, or "none"
    left      \* a process died while it probed the keyring

vars == <<keyring, ring, disk, stable, lock, mem, op, started, writer, left>>
-----------------------------------------------------------------------------
\* Blank accounts share one slot.
GitHubPATKey(account) == IF account = "" THEN "default" ELSE account

Slots == {GitHubPATKey(a) : a \in Accounts}
Empty == [k \in Slots |-> "none"]

deriveKey(password, salt) == [password |-> password, salt |-> salt]
NoKey == deriveKey("none", 0)

\* A file: its form, and for a vault the header's salt, the sealing key and
\* the entries.
Blob(key, salt, entries) == [form |-> "vault", key |-> key, salt |-> salt, entries |-> entries]
Opens(file, password) == file.key = deriveKey(password, file.salt)

Locked == [kind |-> "locked", key |-> NoKey, salt |-> 0, entries |-> Empty, dirty |-> FALSE]
Ready == [pc |-> "ready", name |-> "none", err |-> "nil", got |-> "none", oldKey |-> NoKey,
          oldSalt |-> 0, blob |-> Blob(NoKey, 0, Empty), synced |-> FALSE]

\* Passwords: the terminal and the variable give them as they are, a pipe
\* without its trailing newlines.
trimTrailingNewline(typed) == [typed EXCEPT !.newlines = 0]
ReadMasterPassword(typed) == {typed, trimTrailingNewline(typed)}
TooShort(password) == password.word = "short"

Init ==
    /\ keyring \in Keyrings /\ ring = [k \in Slots \cup {"probe"} |-> "none"]
    /\ disk \in OldVaults /\ stable = disk
    /\ lock = "none" /\ started = 0 /\ writer = "none" /\ left = FALSE
    /\ mem = [p \in Procs |-> Locked]
    /\ op = [p \in Procs |-> Ready]

At(p, pc) == op[p].pc = pc
Goto(p, pc) == op' = [op EXCEPT ![p].pc = pc]
Returned(p, err) == op' = [op EXCEPT ![p].pc = "ready", ![p].err = err]
Forget(p) == IF writer = p THEN "none" ELSE writer
Begin(p) == At(p, "ready") /\ started < MaxOps /\ started' = started + 1
-----------------------------------------------------------------------------
(* Detect.                                                                 *)

vaultVars == <<disk, stable, lock, writer, left>>

\* An unsupported platform is a keyring that refuses.  A keyring may report an
\* error of a Set that it has stored: Detect returns before there is a cleanup.
ProbeSet(p) ==
    /\ Begin(p) /\ mem[p].kind = "locked"
    /\ ring' = IF keyring = "refuses" THEN ring ELSE [ring EXCEPT !["probe"] = p]
    /\ op' = [op EXCEPT ![p] =
                  IF keyring \in {"refuses", "stores and refuses"}
                  THEN [Ready EXCEPT !.name = "Detect", !.err = "unavailable"]
                  ELSE [Ready EXCEPT !.pc = "probe get", !.name = "Detect"]]
    /\ UNCHANGED <<keyring, mem, vaultVars>>

\* What the probe's read makes of the keyring.
Probed(p) ==
    CASE keyring = "read fails" -> "unavailable"
      [] keyring = "forgets" \/ ring["probe"] = "none" -> "broken"
      [] keyring = "mixes up" \/ ring["probe"] # p -> "broken"
      [] OTHER -> "nil"

ProbeGet(p) ==
    /\ At(p, "probe get")
    /\ op' = [op EXCEPT ![p].pc = "probe delete", ![p].err = Probed(p)]
    /\ UNCHANGED <<keyring, ring, mem, started, vaultVars>>

\* Mutant: the probe stays when it could not be read.
ProbeDelete_OnlyRead(p) ==
    /\ At(p, "probe delete")
    /\ ring' = IF op[p].err = "nil" THEN [ring EXCEPT !["probe"] = "none"] ELSE ring
    /\ mem' = [mem EXCEPT ![p].kind = IF op[p].err = "nil" THEN "keyring" ELSE "locked"]
    /\ Goto(p, "ready")
    /\ UNCHANGED <<keyring, started, vaultVars>>

\* The error of the delete is thrown away.
ProbeDelete(p) ==
    /\ At(p, "probe delete")
    /\ ring' = IF keyring = "keeps" THEN ring ELSE [ring EXCEPT !["probe"] = "none"]
    /\ mem' = [mem EXCEPT ![p].kind = IF op[p].err = "nil" THEN "keyring" ELSE "locked"]
    /\ Goto(p, "ready")
    /\ UNCHANGED <<keyring, started, vaultVars>>

\* Get, Set and Delete of the keyring backend.  Deleting nothing is fine; any
\* other error of the keyring is passed on, whatever the keyring then holds.
RingOp(p, name, slot, value) ==
    LET done == CASE name = "Set" -> [ring EXCEPT ![slot] = value]
                  [] name = "Delete" -> [ring EXCEPT ![slot] = "none"]
                  [] OTHER -> ring
        Answered(got, err) ==
            op' = [op EXCEPT ![p] = [Ready EXCEPT !.name = name, !.got = got, !.err = err]]
    IN  /\ Begin(p) /\ mem[p].kind = "keyring"
        /\ \/ /\ keyring = "keeps" => name # "Delete" \/ ring[slot] = "none"
              /\ ring' = done
              /\ Answered(IF name = "Get" THEN ring[slot] ELSE "none",
                          IF name = "Get" /\ ring[slot] = "none" THEN "secretNotFound" ELSE "nil")
           \/ ring' \in {ring, done} /\ Answered("none", "keyring")
        /\ UNCHANGED <<keyring, mem, vaultVars>>
-----------------------------------------------------------------------------
(* The vault in memory.                                                    *)

\* Salts are random: one that no key in memory or on disk was made with.
FreshSalt ==
    CHOOSE s \in 1..(3 * Cardinality(Procs) + 3) :
        /\ s \notin {disk.salt, stable.salt}
        /\ \A p \in Procs : s \notin {mem[p].salt, op[p].oldSalt, op[p].blob.salt}

initFallback(password) ==
    LET salt == FreshSalt
    IN  [kind |-> "vault", key |-> deriveKey(password, salt), salt |-> salt, entries |-> Empty,
         dirty |-> FALSE]

loadFallback(password) ==
    [kind |-> "vault", key |-> deriveKey(password, disk.salt), salt |-> disk.salt,
     entries |-> disk.entries, dirty |-> FALSE]

\* NewFallback, where Detect found no keyring.
NewFallback(p, password) ==
    /\ Begin(p) /\ mem[p].kind = "locked" /\ op[p].name = "Detect" /\ op[p].err = "unavailable"
    /\ LET err == CASE TooShort(password) -> "tooShort"
                    [] ~TooShort(password) /\ disk.form = "none" -> "nil"
                    [] ~TooShort(password) /\ disk.form \in {"short", "unknown version"} -> "corrupted"
                    [] ~TooShort(password) /\ disk.form = "unreadable" -> "read"
                    [] ~TooShort(password) /\ disk.form \in {"vault", "other schema"}
                         /\ ~Opens(disk, password) -> "authFailed"
                    [] ~TooShort(password) /\ disk.form = "other schema"
                         /\ Opens(disk, password) -> "corrupted"
                    [] OTHER -> "nil"
       IN  /\ mem' = [mem EXCEPT ![p] =
                          CASE err # "nil" -> Locked
                            [] err = "nil" /\ disk.form = "none" -> initFallback(password)
                            [] OTHER -> loadFallback(password)]
           /\ op' = [op EXCEPT ![p] = [Ready EXCEPT !.name = "NewFallback", !.err = err]]
    /\ UNCHANGED <<keyring, ring, vaultVars>>

Close(p) ==
    /\ At(p, "ready") /\ mem[p].kind = "vault"
    /\ mem' = [mem EXCEPT ![p] = Locked] /\ writer' = Forget(p)
    /\ UNCHANGED <<keyring, ring, op, started, disk, stable, lock, left>>

Get(p, slot) ==
    /\ Begin(p) /\ mem[p].kind = "vault"
    /\ LET v == mem[p].entries[slot]
       IN  op' = [op EXCEPT ![p] = [Ready EXCEPT !.name = "Get", !.got = v,
                                    !.err = IF v = "none" THEN "secretNotFound" ELSE "nil"]]
    /\ UNCHANGED <<keyring, ring, mem, vaultVars>>

\* persistLocked seals what the memory holds.
Persist(p, name, m) ==
    /\ mem' = [mem EXCEPT ![p] = m]
    /\ op' = [op EXCEPT ![p] = [Ready EXCEPT !.pc = "lock", !.name = name, !.oldKey = mem[p].key,
                                !.oldSalt = mem[p].salt, !.blob = Blob(m.key, m.salt, m.entries)]]
    /\ UNCHANGED <<keyring, ring, vaultVars>>

\* Set changes the memory before it is saved.
Set(p, slot, value) ==
    /\ Begin(p) /\ mem[p].kind = "vault"
    /\ Persist(p, "Set", [mem[p] EXCEPT !.entries[slot] = value])

Delete(p, slot) ==
    /\ Begin(p) /\ mem[p].kind = "vault"
    /\ IF mem[p].entries[slot] = "none"
       THEN op' = [op EXCEPT ![p] = [Ready EXCEPT !.name = "Delete"]]
            /\ UNCHANGED <<keyring, ring, mem, vaultVars>>
       ELSE Persist(p, "Delete", [mem[p] EXCEPT !.entries[slot] = "none"])

RotatePassword(p, password) ==
    /\ Begin(p) /\ mem[p].kind = "vault"
    /\ IF TooShort(password)
       THEN op' = [op EXCEPT ![p] = [Ready EXCEPT !.name = "RotatePassword", !.err = "tooShort"]]
            /\ UNCHANGED <<keyring, ring, mem, vaultVars>>
       ELSE Persist(p, "RotatePassword",
                    [mem[p] EXCEPT !.key = deriveKey(password, FreshSalt), !.salt = FreshSalt])

\* Mutant: the failed rotation puts back the key and not the salt.
Restored_KeyOnly(p) ==
    [mem[p] EXCEPT !.key = IF op[p].name = "RotatePassword" THEN op[p].oldKey ELSE @, !.dirty = TRUE]

\* Of a failed save only RotatePassword takes back the memory's change.
Restored(p) ==
    [mem[p] EXCEPT !.key = IF op[p].name = "RotatePassword" THEN op[p].oldKey ELSE @,
                   !.salt = IF op[p].name = "RotatePassword" THEN op[p].oldSalt ELSE @,
                   !.dirty = TRUE]

Fails(p, err) == Returned(p, err) /\ mem' = [mem EXCEPT ![p] = Restored(p)]
-----------------------------------------------------------------------------
(* writeVaultFile.                                                         *)

lockExclusive(p) ==
    /\ At(p, "lock") /\ lock = "none"
    /\ lock' = p /\ Goto(p, "write")
    /\ UNCHANGED <<keyring, ring, disk, stable, mem, started, writer, left>>

\* No lock within its time, or no directory or lock file.
LockFails(p) ==
    /\ At(p, "lock") /\ Fails(p, IF lock = "none" THEN "open lock file" ELSE "secretsLocked")
    /\ UNCHANGED <<keyring, ring, started, vaultVars>>

\* The temporary file is written, then synced and closed.
WriteTemp(p) ==
    /\ At(p, "write") /\ Goto(p, "sync")
    /\ UNCHANGED <<keyring, ring, mem, started, vaultVars>>

SyncTemp(p) ==
    /\ At(p, "sync") /\ op' = [op EXCEPT ![p].pc = "rename", ![p].synced = TRUE]
    /\ UNCHANGED <<keyring, ring, mem, started, vaultVars>>

\* Any of these steps may fail: the temporary file is removed.
WriteFails(p) ==
    /\ op[p].pc \in {"write", "sync", "rename"} /\ lock' = "none"
    /\ Fails(p, op[p].pc)
    /\ UNCHANGED <<keyring, ring, disk, stable, started, writer, left>>

\* A power loss leaves a renamed file that was never synced truncated.
Rename(p) ==
    /\ At(p, "rename") /\ Goto(p, "sync dir")
    /\ disk' = op[p].blob /\ writer' = p
    /\ stable' = IF op[p].synced THEN stable ELSE [op[p].blob EXCEPT !.form = "short"]
    /\ UNCHANGED <<keyring, ring, lock, mem, started, left>>

\* Mutant: the directory is not synced.
syncDir_Skipped(p) ==
    /\ At(p, "sync dir") /\ lock' = "none" /\ Returned(p, "nil")
    /\ mem' = [mem EXCEPT ![p].dirty = FALSE]
    /\ UNCHANGED <<keyring, ring, disk, stable, started, writer, left>>

syncDir(p) ==
    /\ At(p, "sync dir") /\ lock' = "none" /\ Returned(p, "nil")
    /\ stable' = disk
    /\ mem' = [mem EXCEPT ![p].dirty = FALSE]
    /\ UNCHANGED <<keyring, ring, disk, started, writer, left>>

SyncDirFails(p) ==
    /\ At(p, "sync dir") /\ lock' = "none" /\ Fails(p, "sync dir")
    /\ UNCHANGED <<keyring, ring, disk, stable, started, writer, left>>
-----------------------------------------------------------------------------
Probing(p) == At(p, "probe get") \/ At(p, "probe delete")

\* A process dies: flock lets go.
Crash(p) ==
    /\ mem' = [mem EXCEPT ![p] = Locked] /\ op' = [op EXCEPT ![p] = Ready]
    /\ lock' = IF lock = p THEN "none" ELSE lock
    /\ left' = (left \/ Probing(p)) /\ writer' = Forget(p)
    /\ UNCHANGED <<keyring, ring, disk, stable, started>>

PowerLoss ==
    /\ mem' = [p \in Procs |-> Locked] /\ op' = [p \in Procs |-> Ready] /\ lock' = "none"
    /\ disk' \in {disk, stable} /\ stable' = disk' /\ writer' = "none"
    /\ left' = (left \/ \E p \in Procs : Probing(p))
    /\ UNCHANGED <<keyring, ring, started>>

Steps(p) ==
    \/ ProbeGet(p) \/ ProbeDelete(p)
    \/ lockExclusive(p) \/ LockFails(p) \/ WriteTemp(p) \/ SyncTemp(p) \/ WriteFails(p)
    \/ Rename(p) \/ syncDir(p) \/ SyncDirFails(p)

Next ==
    \/ \E p \in Procs :
           \/ ProbeSet(p) \/ Close(p) \/ Crash(p) \/ Steps(p)
           \/ \E typed \in Passwords : \E password \in ReadMasterPassword(typed) :
                  NewFallback(p, password) \/ RotatePassword(p, password)
           \/ \E a \in Accounts : LET k == GitHubPATKey(a)
                 IN  \/ Get(p, k) \/ Delete(p, k) \/ \E v \in Tokens : Set(p, k, v)
                     \/ \E name \in {"Get", "Delete"} : RingOp(p, name, k, "none")
                     \/ \E v \in Tokens : RingOp(p, "Set", k, v)
    \/ PowerLoss

Spec == Init /\ [][Next]_vars
-----------------------------------------------------------------------------
\* Once the path holds a vault some password opens it, also after a power
\* loss and after every failed write or rotation: it is never truncated, and
\* its header never carries the salt of another key (RotatePassword,
\* writeVaultFile).
VaultOpens ==
    \A file \in {disk, stable} :
        \/ file.form = "vault" /\ \E typed \in Passwords :
                                      \E pw \in ReadMasterPassword(typed) : Opens(file, pw)
        \/ file \in OldVaults

\* A process whose saves all succeeded, and after whom no other process
\* wrote, would find the same on the next start: same entries, same password,
\* on stable storage (Set, Delete, RotatePassword).
Coherent ==
    \A p \in Procs :
        writer = p /\ mem[p].kind = "vault" /\ At(p, "ready") /\ ~mem[p].dirty
            => /\ disk = Blob(mem[p].key, mem[p].salt, mem[p].entries)
               /\ stable = disk

\* Where the keyring deletes what it is told to, and stores nothing of a Set
\* it refuses, Detect leaves no probe in it, whatever it found and however many
\* processes probe, unless one died in between (detectWithClient).  Where it
\* does not delete, Detect is content and the probe stays, for the error of
\* Delete is thrown away; so it may where a Set stored and reported an error.
ProbeRemoved ==
    keyring \notin {"keeps", "stores and refuses"}
        => left \/ ring["probe"] = "none" \/ \E p \in Procs : Probing(p)
=============================================================================
