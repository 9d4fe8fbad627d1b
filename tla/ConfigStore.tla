---------------------------- MODULE ConfigStore ----------------------------
(***************************************************************************)
(* config.json shared by webox processes: config.Load with its migration,  *)
(* config.Save, and the three commands of the TUI that save (a profile of  *)
(* the init wizard, a project of the new-project wizard, imported          *)
(* projects).                                                              *)
(*                                                                         *)
(* Each file operation is a step.  dir is the config directory as the      *)
(* processes see it; images holds every state of it that a power loss may  *)
(* leave behind: the one of the last directory fsync and, in order, those  *)
(* of the operations since.  A document is abstracted to its version, its  *)
(* profile aliases and its projects with the alias each refers to.         *)
(***************************************************************************)
EXTENDS Naturals

CONSTANTS
    Proc, Alias, Domain,
    Refused,         \* domains Validate refuses (empty, secret-shaped)
    Originals,       \* what config.json may hold before webox first runs
    Absent, Broken,  \* no file; a file that is not JSON
    NoProc, None,
    MaxPowerLoss     \* bound on power losses

Current == 1
Doc == [version : 0..(Current + 1), profiles : SUBSET Alias,
        projects : SUBSET (Domain \X Alias)]

ASSUME ConfigAssumption ==
    /\ Refused \subseteq Domain /\ NoProc \notin Proc
    /\ {Absent, Broken, None} \cap Doc = {} /\ None \notin {Absent, Broken}
    /\ Originals \subseteq Doc \cup {Absent, Broken}
    /\ MaxPowerLoss \in Nat

VARIABLES
    dir,       \* [file, by: the job that wrote it, torn, backups]
    images,
    lock,      \* holder of the flock on config.json.lock
    proc,      \* the processes
    original,  \* history: what config.json held before webox first ran
    acked,     \* history: the document of the last Save that succeeded
    since,     \* history: the documents renamed into place since then
    losses

files == <<dir, images, lock>>
history == <<original, acked, since>>
vars == <<files, proc, history, losses>>

Start == [pc |-> "start", job |-> "none", cfg |-> None, doc |-> None,
          old |-> None, flushed |-> FALSE]

Init ==
    /\ original \in Originals
    /\ dir = [file |-> original, by |-> "none", torn |-> FALSE, backups |-> {}]
    /\ images = {dir}
    /\ lock = NoProc
    /\ proc = [p \in Proc |-> Start]
    /\ acked = None /\ since = {} /\ losses = 0
-----------------------------------------------------------------------------
(* Documents.                                                              *)
DefaultConfig == [version |-> Current, profiles |-> {}, projects |-> {}]

\* The embedded schema, the secret scan and the profile_alias foreign key.
Validate(d) ==
    /\ d.version = Current
    /\ \A r \in d.projects : r[1] \notin Refused /\ r[2] \in d.profiles

\* migrateV0toV1: the one legacy profile becomes the list.
Migrate(d) == [d EXCEPT !.version = Current]

Legacy(f) == f \in Doc /\ f.version < Current
Migratable(f) == Legacy(f) /\ Validate(Migrate(f))
Loadable(f) == f \in Doc /\ (Validate(f) \/ Migratable(f))
-----------------------------------------------------------------------------
At(p, pc) == proc[p].pc = pc
Goto(p, pc) == proc' = [proc EXCEPT ![p].pc = pc]
NewDir(d) == dir' = d /\ images' = images \cup {d}

\* ConfigLoadedMsg and the Saved messages: the dashboard, or the init wizard
\* while there is no profile.
Screen(cfg) == IF cfg.profiles = {} THEN "init" ELSE "dashboard"
Show(p, cfg) == proc' = [proc EXCEPT ![p] = [Start EXCEPT !.pc = Screen(cfg),
                                                          !.cfg = cfg]]
\* ConfigLoadFailedMsg opens the init wizard without a configuration.
LoadFailed(p) == proc' = [proc EXCEPT ![p] = [Start EXCEPT !.pc = "init"]]

\* loadConfigCmd: stat, read, check the version, validate.
Load(p) ==
    LET f == dir.file IN
    /\ At(p, "start")
    /\ CASE f = Absent -> Show(p, DefaultConfig)
         [] Migratable(f) ->
               proc' = [proc EXCEPT ![p] = [Start EXCEPT !.pc = "backup",
                           !.job = "migrate", !.old = f, !.doc = Migrate(f)]]
         [] Loadable(f) /\ ~Migratable(f) -> Show(p, f)
         [] OTHER -> LoadFailed(p)
    /\ UNCHANGED <<files, history, losses>>

\* Mutant: the backup is made after the save (not at all before it).
Backup_Later(p) ==
    /\ At(p, "backup")
    /\ Goto(p, "lock")
    /\ UNCHANGED <<files, history, losses>>

\* backupOriginal: a new file of its own name, written and fsynced.
Backup(p) ==
    /\ At(p, "backup")
    /\ \/ /\ NewDir([dir EXCEPT !.backups = @ \cup {proc[p].old}])
          /\ Goto(p, "lock")
       \/ LoadFailed(p) /\ UNCHANGED <<dir, images>>
    /\ UNCHANGED <<lock, history, losses>>
-----------------------------------------------------------------------------
(* The commands that save, on the configuration the process holds.         *)
Begin(p, job, doc) ==
    /\ proc' = [proc EXCEPT ![p].pc = "lock", ![p].job = job, ![p].doc = doc]
    /\ UNCHANGED <<files, history, losses>>

SaveProfile(p, a) ==
    LET base == IF proc[p].cfg = None THEN DefaultConfig ELSE proc[p].cfg IN
    /\ At(p, "init")
    /\ Begin(p, "profile", [base EXCEPT !.profiles = @ \cup {a}])

\* wizardExecuteCmd and importPersistCmd add projects of a known profile.
AddProject(p, r) ==
    /\ At(p, "dashboard")
    /\ r[2] \in proc[p].cfg.profiles
    /\ Begin(p, "project", [proc[p].cfg EXCEPT !.projects = @ \cup {r}])
-----------------------------------------------------------------------------
(* Save.                                                                   *)

\* An error returns to the screen the save came from; a failed migration is
\* a failed load.
Fail(p) ==
    IF proc[p].job = "migrate" THEN LoadFailed(p)
    ELSE proc' = [proc EXCEPT ![p] =
                    [Start EXCEPT !.cfg = proc[p].cfg,
                        !.pc = IF proc[p].job = "profile" THEN "init"
                               ELSE "dashboard"]]

\* The deferred unlock runs on every way out.
Unlock == lock' = NoProc

\* lockExclusive.
Lock(p) ==
    /\ At(p, "lock") /\ lock = NoProc
    /\ lock' = p
    /\ Goto(p, "marshal")
    /\ UNCHANGED <<dir, images, history, losses>>

\* The deadline passes, the context is done, or the lock file cannot be
\* opened.
LockFails(p) ==
    /\ At(p, "lock")
    /\ Fail(p)
    /\ UNCHANGED <<files, history, losses>>

\* Mutant: a refused document returns without unlocking.
Marshal_KeepsLock(p) ==
    /\ At(p, "marshal")
    /\ IF Validate(proc[p].doc) THEN Goto(p, "write") ELSE Fail(p)
    /\ UNCHANGED <<files, history, losses>>

\* marshalConfig validates what is about to be written.
Marshal(p) ==
    /\ At(p, "marshal")
    /\ IF Validate(proc[p].doc)
       THEN Goto(p, "write") /\ UNCHANGED lock
       ELSE Fail(p) /\ Unlock
    /\ UNCHANGED <<dir, images, history, losses>>

\* Mutant: the temp file is renamed without fsync.
WriteTemp_NoSync(p) ==
    /\ At(p, "write")
    /\ \/ Goto(p, "rename") /\ UNCHANGED lock
       \/ Fail(p) /\ Unlock
    /\ UNCHANGED <<dir, images, history, losses>>

\* writeTempFile: a new file of its own name is written and fsynced.
WriteTemp(p) ==
    /\ At(p, "write")
    /\ \/ /\ proc' = [proc EXCEPT ![p].pc = "rename", ![p].flushed = TRUE]
          /\ UNCHANGED lock
       \/ Fail(p) /\ Unlock
    /\ UNCHANGED <<dir, images, history, losses>>

Rename(p) ==
    /\ At(p, "rename")
    /\ \/ /\ NewDir([dir EXCEPT !.file = proc[p].doc, !.by = proc[p].job,
                                !.torn = ~proc[p].flushed])
          /\ since' = since \cup {proc[p].doc}
          /\ Goto(p, "sync")
          /\ UNCHANGED lock
       \/ Fail(p) /\ Unlock /\ UNCHANGED <<dir, images, since>>
    /\ UNCHANGED <<original, acked, losses>>

Succeed(p) ==
    /\ acked' = proc[p].doc /\ since' = {}
    /\ Show(p, proc[p].doc)
    /\ UNCHANGED original

\* Mutant: the parent directory is not fsynced.
SyncDirectory_Skipped(p) ==
    /\ At(p, "sync")
    /\ Succeed(p)
    /\ Unlock
    /\ UNCHANGED <<dir, images, losses>>

\* syncDirectory makes the rename, and everything before it, durable.
SyncDirectory(p) ==
    /\ At(p, "sync")
    /\ \/ images' = {dir} /\ Succeed(p)
       \/ Fail(p) /\ UNCHANGED <<images, history>>
    /\ Unlock
    /\ UNCHANGED <<dir, losses>>
-----------------------------------------------------------------------------
\* The process ends (the kernel drops its lock) and is started again.
Exit(p) ==
    /\ proc[p] # Start
    /\ proc' = [proc EXCEPT ![p] = Start]
    /\ lock' = IF lock = p THEN NoProc ELSE lock
    /\ UNCHANGED <<dir, images, history, losses>>

\* The machine loses power: some image is what the disk holds, with garbage
\* in a file whose content was never flushed.
PowerLoss ==
    /\ losses < MaxPowerLoss
    /\ losses' = losses + 1
    /\ \E d \in images :
          dir' = IF d.torn THEN [d EXCEPT !.file = Broken] ELSE d
    /\ images' = {dir'}
    /\ proc' = [p \in Proc |-> Start]
    /\ lock' = NoProc
    /\ UNCHANGED history
-----------------------------------------------------------------------------
\* The steps a process takes without its operator.
Step(p) ==
    \/ Load(p) \/ Backup(p) \/ Lock(p) \/ LockFails(p) \/ Marshal(p)
    \/ WriteTemp(p) \/ Rename(p) \/ SyncDirectory(p)

Next ==
    \/ \E p \in Proc : Step(p) \/ Exit(p)
    \/ \E p \in Proc, a \in Alias : SaveProfile(p, a)
    \/ \E p \in Proc, r \in Domain \X Alias : AddProject(p, r)
    \/ PowerLoss

Spec == Init /\ [][Next]_vars

\* A command that can run runs; lockExclusive gives up at its deadline.
FairSpec == Spec /\ \A p \in Proc : WF_vars(Step(p))
-----------------------------------------------------------------------------
(* Properties.                                                             *)
Saving == {"lock", "marshal", "write", "rename", "sync"}
DirType ==
    [file : Doc \cup {Absent, Broken}, torn : BOOLEAN, backups : SUBSET Doc,
     by : {"none", "migrate", "profile", "project"}]

\* Files, lock and processes stay in their types.
TypeOK ==
    /\ dir \in DirType /\ images \subseteq DirType
    /\ lock \in Proc \cup {NoProc}
    /\ proc \in [Proc ->
          [pc : {"start", "backup", "init", "dashboard"} \cup Saving,
           job : {"none", "migrate", "profile", "project"},
           cfg : Doc \cup {None}, doc : Doc \cup {None},
           old : Doc \cup {None}, flushed : BOOLEAN]]
    /\ original \in Originals /\ acked \in Doc \cup {None}
    /\ since \subseteq Doc /\ losses \in 0..MaxPowerLoss

\* What a power loss may leave behind, now.
Survivors == images \cup {dir}

\* Save: whatever dies in the middle of it, a configuration that could be
\* loaded is replaced only by one that can be loaded.
StaysLoadable ==
    Loadable(original) \/ original = Absent =>
        \A d \in Survivors : ~d.torn /\ (d.file = Absent \/ Loadable(d.file))

\* Save: once it has returned without error, neither a power loss nor
\* another process brings back a document older than the saved one.
SavedIsDurable ==
    acked # None => \A d \in Survivors : d.file \in {acked} \cup since

\* Load: wherever the result of a migration is found, the file it was made
\* from is found next to it.
MigrationBackedUp ==
    \A d \in Survivors : d.by = "migrate" => original \in d.backups

\* lockExclusive / Save: every way out of Save releases the lock, so no
\* process can lock the others out.
LockIsReleased == \A p \in Proc : lock = p ~> lock # p
=============================================================================
