------------------------- MODULE ConfigStoreProofs -------------------------
(***************************************************************************)
(* Proofs about ConfigStore, for any number of processes, aliases, domains *)
(* and power losses.                                                       *)
(*                                                                         *)
(* Typed adds to the types that a process has a document while it saves, a *)
(* configuration on the dashboard and the legacy file while it backs it    *)
(* up.  Safe is the inductive invariant of the three safety properties:    *)
(* who is past lockExclusive holds the lock, so nothing happens between    *)
(* its rename and its directory fsync; what is renamed was validated and   *)
(* flushed; a legacy document is the original, and is backed up before its *)
(* migration is saved.                                                     *)
(***************************************************************************)
EXTENDS ConfigStore, TLAPS

File == Doc \cup {Absent, Broken}
Inside == {"marshal", "write", "rename", "sync"}
Checked == {"write", "rename", "sync"}

Typed ==
    /\ TypeOK
    /\ \A p \in Proc :
          /\ proc[p].pc \in Saving \cup {"backup"} => proc[p].doc \in Doc
          /\ proc[p].pc = "dashboard" => proc[p].cfg \in Doc
          /\ proc[p].pc = "backup" =>
                proc[p].job = "migrate" /\ proc[p].old \in Doc
          /\ proc[p].pc \in Saving =>
                /\ proc[p].job # "none"
                /\ proc[p].job = "project" => proc[p].cfg \in Doc

ProcType ==
    [pc : {"start", "backup", "init", "dashboard"} \cup Saving,
     job : {"none", "migrate", "profile", "project"},
     cfg : Doc \cup {None}, doc : Doc \cup {None},
     old : Doc \cup {None}, flushed : BOOLEAN]

\* A process record with the documents its pc needs.
Sound(r) ==
    /\ r \in ProcType
    /\ r.pc \in Saving \cup {"backup"} => r.doc \in Doc
    /\ r.pc = "dashboard" => r.cfg \in Doc
    /\ r.pc = "backup" => r.job = "migrate" /\ r.old \in Doc
    /\ r.pc \in Saving =>
          r.job # "none" /\ (r.job = "project" => r.cfg \in Doc)

Others ==
    /\ dir \in DirType /\ images \subseteq DirType
    /\ lock \in Proc \cup {NoProc}
    /\ original \in Originals /\ acked \in Doc \cup {None}
    /\ since \subseteq Doc /\ losses \in 0..MaxPowerLoss

\* Typed, process by process.
LEMMA TypedSplit ==
    Typed <=> /\ Others /\ DOMAIN proc = Proc
              /\ proc = [p \in Proc |-> proc[p]]
              /\ \A p \in Proc : Sound(proc[p])
BY SMTT(40) DEF Typed, Others, Sound, ProcType, TypeOK

\* The empty, the failed and the shown process records are sound.
LEMMA Records ==
    /\ Sound(Start)
    /\ Sound([Start EXCEPT !.pc = "init"])
    /\ \A c \in Doc : Sound([Start EXCEPT !.pc = Screen(c), !.cfg = c])
    /\ \A r \in ProcType, s \in {"init", "dashboard"} :
          (s = "dashboard" => r.cfg \in Doc)
             => Sound([Start EXCEPT !.cfg = r.cfg, !.pc = s])
<1>1. Start \in ProcType /\ Start.pc = "start"
  BY DEF Start, ProcType
<1>2. \A c \in Doc \cup {None}, s \in {"init", "dashboard"} :
         LET x == [Start EXCEPT !.pc = s, !.cfg = c] IN
         /\ x \in ProcType /\ x.pc = s /\ x.cfg = c
         /\ [Start EXCEPT !.cfg = c, !.pc = s] = x
  BY DEF Start, ProcType
<1>3. /\ [Start EXCEPT !.pc = "init"] \in ProcType
      /\ [Start EXCEPT !.pc = "init"].pc = "init"
  BY DEF Start, ProcType
<1>4. \A c \in Doc : Screen(c) \in {"init", "dashboard"}
  BY DEF Screen
<1>5. \A r \in ProcType : r.cfg \in Doc \cup {None}
  BY DEF ProcType
<1>6. \A c \in Doc \cup {None}, s \in {"init", "dashboard"} :
         (s = "dashboard" => c \in Doc)
            => Sound([Start EXCEPT !.pc = s, !.cfg = c])
  <2> SUFFICES ASSUME NEW c \in Doc \cup {None}, NEW s \in {"init", "dashboard"},
                      s = "dashboard" => c \in Doc
               PROVE  Sound([Start EXCEPT !.pc = s, !.cfg = c])
    OBVIOUS
  <2>1. PICK x : x = [Start EXCEPT !.pc = s, !.cfg = c]
    BY SMTT(40)
  <2>2. x \in ProcType /\ x.pc = s /\ x.cfg = c
    BY <1>2, <2>1, ZenonT(60)
  <2>3. Sound(x)
    BY <2>2 DEF Sound, Saving
  <2> QED
    BY <2>1, <2>3
<1>7. Sound(Start)
  BY <1>1 DEF Sound, Saving
<1>8. Sound([Start EXCEPT !.pc = "init"])
  BY <1>3 DEF Sound, Saving
<1>9. \A c \in Doc : Sound([Start EXCEPT !.pc = Screen(c), !.cfg = c])
  BY <1>4, <1>6
<1>10. ASSUME NEW r \in ProcType, NEW s \in {"init", "dashboard"},
              s = "dashboard" => r.cfg \in Doc
       PROVE  Sound([Start EXCEPT !.cfg = r.cfg, !.pc = s])
  <2>1. Sound([Start EXCEPT !.pc = s, !.cfg = r.cfg])
    BY <1>5, <1>6, <1>10
  <2> QED
    BY <1>2, <1>5, <2>1
<1> QED
  BY <1>7, <1>8, <1>9, <1>10

\* DefaultConfig and Migrate give documents.
LEMMA Documents ==
    /\ DefaultConfig \in Doc
    /\ \A d \in Doc : Migrate(d) \in Doc
    /\ \A d \in Doc, a \in Alias : [d EXCEPT !.profiles = @ \cup {a}] \in Doc
    /\ \A d \in Doc, r \in Domain \X Alias :
          [d EXCEPT !.projects = @ \cup {r}] \in Doc
BY DEF Doc, DefaultConfig, Migrate, Current

\* A step that replaces one process record by a sound one keeps Typed.
LEMMA TypedUpdate ==
    ASSUME Typed, NEW p \in Proc, NEW r, Sound(r), Others',
           proc' = [proc EXCEPT ![p] = r]
    PROVE  Typed'
<1>1. \A q \in Proc : Sound(proc[q]) /\ proc = [x \in Proc |-> proc[x]]
  BY TypedSplit
<1>2. \A q \in Proc : Sound(proc'[q])
  BY <1>1
<1>3. \A q \in Proc : Sound(proc[q])'
  BY <1>2 DEF Sound, ProcType, Doc, Saving, Current
<1>4. DOMAIN proc' = Proc /\ proc' = [x \in Proc |-> proc'[x]]
  BY <1>1
<1>5. Others' /\ (DOMAIN proc = Proc)' /\ (proc = [x \in Proc |-> proc[x]])'
         /\ (\A q \in Proc : Sound(proc[q]))'
  BY <1>3, <1>4
<1> QED
  BY <1>5 DEF Typed, Others, Sound, ProcType, TypeOK

\* Init: the first directory is well typed and every process is starting.
LEMMA TypedInit == Init => Typed
<1> SUFFICES ASSUME Init PROVE Typed
  OBVIOUS
<1>1. original \in File
  BY ConfigAssumption DEF Init, File
<1>2. dir \in DirType /\ images \subseteq DirType
  BY <1>1 DEF Init, DirType, File
<1>3. Others
  BY <1>2, ConfigAssumption DEF Init, Others
<1>4. \A p \in Proc : proc[p] = Start
  BY DEF Init
<1>5. \A p \in Proc : Sound(proc[p])
  BY <1>4, Records
<1> QED
  BY <1>3, <1>5, TypedSplit DEF Init

\* A save that fails leaves a sound record: the screen it came from, or the
\* init wizard after a failed migration.
LEMMA FailTyped ==
    ASSUME Typed, NEW p \in Proc, proc[p].pc \in Saving, Fail(p), Others'
    PROVE  Typed'
<1>1. Sound(proc[p]) /\ proc[p] \in ProcType
  BY TypedSplit DEF Sound
<1>2. CASE proc[p].job = "migrate"
  <2>1. proc' = [proc EXCEPT ![p] = [Start EXCEPT !.pc = "init"]]
    BY <1>2 DEF Fail, LoadFailed
  <2> QED
    BY <2>1, Records, TypedUpdate
<1>3. CASE proc[p].job # "migrate"
  <2> DEFINE s == IF proc[p].job = "profile" THEN "init" ELSE "dashboard"
             r == [Start EXCEPT !.cfg = proc[p].cfg, !.pc = s]
  <2>1. s \in {"init", "dashboard"} /\ (s = "dashboard" => proc[p].cfg \in Doc)
    BY <1>1, <1>3 DEF Sound, ProcType
  <2>2. Sound(r)
    BY <1>1, <2>1, Records
  <2>3. proc' = [proc EXCEPT ![p] = r]
    BY <1>3 DEF Fail
  <2> QED
    BY <2>2, <2>3, TypedUpdate
<1> QED
  BY <1>2, <1>3

\* Going on to the next step of Save keeps the record sound.
LEMMA GotoTyped ==
    ASSUME Typed, NEW p \in Proc, NEW pc \in Saving, Goto(p, pc), Others',
           proc[p].pc \in Saving \cup {"backup"}
    PROVE  Typed'
<1> DEFINE r == [proc[p] EXCEPT !.pc = pc]
<1>1. Sound(proc[p]) /\ proc[p] \in ProcType
  BY TypedSplit DEF Sound
<1>2. r \in ProcType
  BY <1>1 DEF ProcType
<1>3. r.pc = pc /\ r.doc = proc[p].doc /\ r.job = proc[p].job
         /\ r.cfg = proc[p].cfg /\ r.old = proc[p].old
  BY <1>1 DEF ProcType
<1>4. Sound(r)
  BY <1>1, <1>2, <1>3 DEF Sound, Saving
<1>5. proc' = [proc EXCEPT ![p] = r]
  BY DEF Goto
<1> QED
  BY <1>4, <1>5, TypedUpdate

\* Every step keeps the types.
LEMMA TypedNext == Typed /\ [Next]_vars => Typed'
<1> SUFFICES ASSUME Typed, [Next]_vars PROVE Typed'
  OBVIOUS
<1>0. Others /\ \A p \in Proc : Sound(proc[p]) /\ proc[p] \in ProcType
  BY TypedSplit DEF Sound
<1> USE DEF At
<1>1. CASE UNCHANGED vars
  BY <1>1 DEF vars, files, history, Typed, TypeOK
<1>2. ASSUME NEW p \in Proc, Load(p) PROVE Typed'
  <2>1. Others'
    BY <1>0, <1>2 DEF Load, files, history, Others
  <2>2. CASE dir.file = Absent
    <3>1. Show(p, DefaultConfig)
      BY <1>2, <2>2, ConfigAssumption
         DEF Load, Migratable, Legacy, Loadable
    <3>2. Sound([Start EXCEPT !.pc = Screen(DefaultConfig),
                              !.cfg = DefaultConfig])
      BY Records, Documents
    <3> QED
      BY <2>1, <3>1, <3>2, TypedUpdate DEF Show
  <2>3. CASE Migratable(dir.file)
    <3> DEFINE r == [Start EXCEPT !.pc = "backup", !.job = "migrate",
                       !.old = dir.file, !.doc = Migrate(dir.file)]
    <3>1. dir.file \in Doc /\ Migrate(dir.file) \in Doc
      BY <2>3, Documents DEF Migratable, Legacy
    <3>2. Sound(r)
      BY <3>1 DEF Sound, ProcType, Start, Saving
    <3>3. proc' = [proc EXCEPT ![p] = r]
      BY <1>2, <2>3, <3>1, ConfigAssumption DEF Load
    <3> QED
      BY <2>1, <3>2, <3>3, TypedUpdate
  <2>4. CASE dir.file # Absent /\ ~Migratable(dir.file) /\ Loadable(dir.file)
    <3>1. dir.file \in Doc /\ Show(p, dir.file)
      BY <1>2, <2>4 DEF Load, Loadable
    <3>2. Sound([Start EXCEPT !.pc = Screen(dir.file), !.cfg = dir.file])
      BY <3>1, Records
    <3> QED
      BY <2>1, <3>1, <3>2, TypedUpdate DEF Show
  <2>5. CASE dir.file # Absent /\ ~Migratable(dir.file) /\ ~Loadable(dir.file)
    <3>1. LoadFailed(p)
      BY <1>2, <2>5 DEF Load
    <3> QED
      BY <2>1, <3>1, Records, TypedUpdate DEF LoadFailed
  <2> QED
    BY <2>2, <2>3, <2>4, <2>5
<1>3. ASSUME NEW p \in Proc, Backup(p) PROVE Typed'
  <2>1. proc[p].old \in Doc
    BY <1>0, <1>3 DEF Backup, Sound
  <2>2. [dir EXCEPT !.backups = @ \cup {proc[p].old}] \in DirType
    BY <1>0, <2>1 DEF Others, DirType
  <2>3. Others'
    BY <1>0, <1>3, <2>2 DEF Backup, NewDir, history, Others
  <2>4. CASE Goto(p, "lock")
    BY <1>3, <2>3, <2>4, GotoTyped DEF Backup, Saving
  <2>5. CASE LoadFailed(p)
    BY <2>3, <2>5, Records, TypedUpdate DEF LoadFailed
  <2> QED
    BY <1>3, <2>4, <2>5 DEF Backup
<1>4. ASSUME NEW p \in Proc, NEW job \in {"profile", "project"},
             NEW doc \in Doc, Begin(p, job, doc),
             job = "project" => proc[p].cfg \in Doc
      PROVE  Typed'
  <2> DEFINE r == [proc[p] EXCEPT !.pc = "lock", !.job = job, !.doc = doc]
  <2>1. Sound(r)
    BY <1>0, <1>4 DEF Sound, ProcType, Saving
  <2>2. proc' = [proc EXCEPT ![p] = r]
    BY <1>4 DEF Begin
  <2>3. Others'
    BY <1>0, <1>4 DEF Begin, files, history, Others
  <2> QED
    BY <2>1, <2>2, <2>3, TypedUpdate
<1>5. ASSUME NEW p \in Proc, NEW a \in Alias, SaveProfile(p, a) PROVE Typed'
  <2> DEFINE base == IF proc[p].cfg = None THEN DefaultConfig ELSE proc[p].cfg
  <2>1. base \in Doc
    BY <1>0, Documents DEF ProcType
  <2>2. [base EXCEPT !.profiles = @ \cup {a}] \in Doc
    BY <2>1, Documents
  <2> QED
    BY <1>4, <1>5, <2>2 DEF SaveProfile
<1>6. ASSUME NEW p \in Proc, NEW r \in Domain \X Alias, AddProject(p, r)
      PROVE  Typed'
  <2>1. proc[p].cfg \in Doc
    BY <1>0, <1>6 DEF AddProject, Sound
  <2>2. [proc[p].cfg EXCEPT !.projects = @ \cup {r}] \in Doc
    BY <2>1, Documents
  <2> QED
    BY <1>4, <1>6, <2>1, <2>2 DEF AddProject
<1>7. ASSUME NEW p \in Proc, Lock(p) PROVE Typed'
  <2>1. Others'
    BY <1>0, <1>7 DEF Lock, history, Others
  <2> QED
    BY <1>7, <2>1, GotoTyped DEF Lock, Saving
<1>8. ASSUME NEW p \in Proc, LockFails(p) PROVE Typed'
  <2>1. Others'
    BY <1>0, <1>8 DEF LockFails, files, history, Others
  <2> QED
    BY <1>8, <2>1, FailTyped DEF LockFails, Saving
<1>9. ASSUME NEW p \in Proc, Marshal(p) PROVE Typed'
  <2>1. Others'
    BY <1>0, <1>9 DEF Marshal, history, Others, Unlock
  <2> QED
    BY <1>9, <2>1, FailTyped, GotoTyped DEF Marshal, Saving
<1>10. ASSUME NEW p \in Proc, WriteTemp(p) PROVE Typed'
  <2>1. Others'
    BY <1>0, <1>10 DEF WriteTemp, history, Others, Unlock
  <2>2. CASE Fail(p)
    BY <1>10, <2>1, <2>2, FailTyped DEF WriteTemp, Saving
  <2>3. CASE ~Fail(p)
    <3> DEFINE r == [proc[p] EXCEPT !.pc = "rename", !.flushed = TRUE]
    <3>1. Sound(r)
      BY <1>0, <1>10 DEF WriteTemp, Sound, ProcType, Saving
    <3>2. proc' = [proc EXCEPT ![p] = r]
      BY <1>10, <2>3 DEF WriteTemp
    <3> QED
      BY <2>1, <3>1, <3>2, TypedUpdate
  <2> QED
    BY <2>2, <2>3
<1>11. ASSUME NEW p \in Proc, Rename(p) PROVE Typed'
  <2>1. proc[p].doc \in Doc /\ proc[p].flushed \in BOOLEAN
          /\ proc[p].job \in {"none", "migrate", "profile", "project"}
    BY <1>0, <1>11 DEF Rename, Sound, ProcType, Saving
  <2>2. [dir EXCEPT !.file = proc[p].doc, !.by = proc[p].job,
                    !.torn = ~proc[p].flushed] \in DirType
    BY <1>0, <2>1 DEF Others, DirType
  <2>3. Others'
    BY <1>0, <1>11, <2>1, <2>2 DEF Rename, NewDir, Others, Unlock
  <2> QED
    BY <1>11, <2>3, FailTyped, GotoTyped DEF Rename, Saving
<1>12. ASSUME NEW p \in Proc, SyncDirectory(p) PROVE Typed'
  <2>1. proc[p].doc \in Doc
    BY <1>0, <1>12 DEF SyncDirectory, Sound, Saving
  <2>2. Others'
    BY <1>0, <1>12, <2>1 DEF SyncDirectory, Succeed, history, Others, Unlock
  <2>3. CASE Fail(p)
    BY <1>12, <2>2, <2>3, FailTyped DEF SyncDirectory, Saving
  <2>4. CASE Succeed(p)
    <3>1. Sound([Start EXCEPT !.pc = Screen(proc[p].doc), !.cfg = proc[p].doc])
      BY <2>1, Records
    <3> QED
      BY <2>2, <2>4, <3>1, TypedUpdate DEF Succeed, Show
  <2> QED
    BY <1>12, <2>3, <2>4 DEF SyncDirectory
<1>13. ASSUME NEW p \in Proc, Exit(p) PROVE Typed'
  <2>1. Others'
    BY <1>0, <1>13 DEF Exit, history, Others
  <2> QED
    BY <1>13, <2>1, Records, TypedUpdate DEF Exit
<1>14. CASE PowerLoss
  <2>1. \A d \in images : [d EXCEPT !.file = Broken] \in DirType
    BY <1>0 DEF Others, DirType
  <2>2. dir' \in DirType /\ images' \subseteq DirType
    BY <1>0, <1>14, <2>1 DEF PowerLoss, Others
  <2>3. losses' \in 0..MaxPowerLoss
    BY <1>0, <1>14, ConfigAssumption DEF PowerLoss, Others
  <2>4. lock' \in Proc \cup {NoProc} /\ UNCHANGED history
    BY <1>14 DEF PowerLoss
  <2>5. Others'
    BY <1>0, <2>2, <2>3, <2>4 DEF history, Others
  <2>6. \A q \in Proc : proc'[q] = Start
    BY <1>14 DEF PowerLoss
  <2>7. Start \in ProcType /\ Start.pc = "start"
    BY DEF Start, ProcType
  <2>8. proc' \in [Proc -> ProcType]
    BY <1>14, <2>7 DEF PowerLoss
  <2> QED
    BY <2>5, <2>6, <2>7, <2>8 DEF Typed, TypeOK, Others, ProcType, Saving
<1> QED
  BY <1>1, <1>2, <1>3, <1>5, <1>6, <1>7, <1>8, <1>9, <1>10, <1>11, <1>12,
     <1>13, <1>14 DEF Next, Step

\* Typed is an invariant of the store.
LEMMA AlwaysTyped == Spec => []Typed
BY TypedInit, TypedNext, PTL DEF Spec

\* Files, lock and processes keep their types in every behaviour.
THEOREM TypeCorrect == Spec => []TypeOK
<1>1. Typed => TypeOK
  BY DEF Typed
<1> QED
  BY <1>1, AlwaysTyped, PTL
-----------------------------------------------------------------------------
(* Safety.                                                                 *)

\* Who is past lockExclusive holds the lock, and between its rename and its
\* directory fsync the file is its document.
Locked ==
    \A p \in Proc :
        /\ proc[p].pc \in Inside => lock = p
        /\ proc[p].pc = "sync" => dir.file = proc[p].doc

\* What is about to be renamed was validated and flushed.
Prepared ==
    \A p \in Proc :
        /\ proc[p].pc \in Checked => Validate(proc[p].doc)
        /\ proc[p].pc = "rename" => proc[p].flushed

\* Every image holds the original or a validated document, with its content.
Images ==
    /\ dir \in images
    /\ \A d \in images :
          /\ ~d.torn
          /\ d.file = original \/ (d.file \in Doc /\ Validate(d.file))

\* A migration works on the original, which is backed up before it is saved.
Migrating ==
    \A p \in Proc :
        /\ proc[p].pc = "backup" => proc[p].old = original
        /\ proc[p].pc \in Saving /\ proc[p].job = "migrate"
              => original \in dir.backups

BackedUp == \A d \in images : d.by = "migrate" => original \in d.backups
Durable == acked # None => \A d \in images : d.file \in {acked} \cup since

Safe == Locked /\ Prepared /\ Images /\ Migrating /\ BackedUp /\ Durable

\* Init: one image, the original, and nobody saving.
LEMMA SafeInit == Init => Safe
<1> SUFFICES ASSUME Init PROVE Safe
  OBVIOUS
<1>1. \A p \in Proc : proc[p].pc = "start"
  BY DEF Init, Start
<1>2. Locked /\ Prepared /\ Migrating
  BY <1>1 DEF Locked, Prepared, Migrating, Inside, Checked, Saving
<1>3. dir.file = original /\ dir.by = "none" /\ dir.torn = FALSE
         /\ images = {dir} /\ acked = None
  BY DEF Init
<1>4. Images
  <2>1. dir \in images /\ \A d \in images : d = dir
    BY <1>3
  <2>2. ~dir.torn
    BY <1>3, Zenon
  <2>3. \A d \in images : ~d.torn
    BY <2>1, <2>2, Zenon
  <2>4. \A d \in images : d.file = original
    BY <1>3
  <2> QED
    BY <2>1, <2>3, <2>4 DEF Images
<1>5. BackedUp /\ Durable
  BY <1>3 DEF BackedUp, Durable
<1> QED
  BY <1>2, <1>4, <1>5 DEF Safe

\* A step of p that leaves the files alone and does not enter a stage of Save
\* that p has not earned keeps Safe.
LEMMA SafeQuiet ==
    ASSUME Typed, Safe, NEW p \in Proc, UNCHANGED <<dir, images, history>>,
           \A q \in Proc \ {p} : proc'[q] = proc[q] /\ (lock = q => lock' = q),
           proc'[p].pc \in Inside => lock' = p,
           proc'[p].pc = "sync" => dir.file = proc'[p].doc,
           proc'[p].pc \in Checked => Validate(proc'[p].doc),
           proc'[p].pc = "rename" => proc'[p].flushed,
           proc'[p].pc = "backup" => proc'[p].old = original,
           proc'[p].pc \in Saving /\ proc'[p].job = "migrate"
              => original \in dir.backups
    PROVE  Safe'
<1>1. Locked' /\ Prepared'
  BY DEF Safe, Locked, Prepared, Validate, Current
<1>2. Images' /\ BackedUp' /\ Durable'
  BY DEF Safe, Images, BackedUp, Durable, history, Validate, Current, Doc
<1>3. Migrating'
  BY DEF Safe, Migrating, history, Saving
<1> QED
  BY <1>1, <1>2, <1>3 DEF Safe
\* Where a step that ends a load or a save leaves its process.
LEMMA FailPc ==
    ASSUME Typed, NEW p \in Proc, Fail(p)
    PROVE  proc'[p].pc \in {"init", "dashboard"}
              /\ \A q \in Proc \ {p} : proc'[q] = proc[q]
<1>1. proc = [q \in Proc |-> proc[q]]
  BY TypedSplit
<1>2. CASE proc[p].job = "migrate"
  BY <1>1, <1>2 DEF Fail, LoadFailed, Start
<1>3. CASE proc[p].job # "migrate"
  BY <1>1, <1>3 DEF Fail, Start
<1> QED
  BY <1>2, <1>3

\* A failing load or save is quiet.
LEMMA SafeFail ==
    ASSUME Typed, Safe, NEW p \in Proc, UNCHANGED <<dir, images, history>>,
           proc'[p].pc \in {"start", "init", "dashboard"},
           \A q \in Proc \ {p} : proc'[q] = proc[q] /\ (lock = q => lock' = q)
    PROVE  Safe'
BY SafeQuiet DEF Inside, Checked, Saving

\* Unlocking by the holder takes the lock from nobody else.
LEMMA HolderUnlocks ==
    ASSUME Safe, NEW p \in Proc, proc[p].pc \in Inside,
           lock' \in {lock, NoProc}
    PROVE  \A q \in Proc \ {p} : lock = q => lock' = q
BY DEF Safe, Locked

\* Every step keeps Safe.
LEMMA SafeNext == Typed /\ Safe /\ [Next]_vars => Safe'
<1> SUFFICES ASSUME Typed, Safe, [Next]_vars PROVE Safe'
  OBVIOUS
<1>0. Others /\ proc = [p \in Proc |-> proc[p]]
         /\ \A p \in Proc : Sound(proc[p]) /\ proc[p] \in ProcType
  BY TypedSplit DEF Sound
<1> USE DEF At
<1>1. CASE UNCHANGED vars
  BY <1>1 DEF vars, files, history, Safe, Locked, Prepared, Images, Migrating,
              BackedUp, Durable
<1>2. ASSUME NEW p \in Proc, Load(p) PROVE Safe'
  <2>1. UNCHANGED <<dir, images, lock, history>>
    BY <1>2 DEF Load, files
  <2>2. CASE Migratable(dir.file)
    <3>1. dir.file \in Doc /\ dir.file.version < Current
      BY <2>2 DEF Migratable, Legacy
    <3>2. dir.file = original
      BY <3>1 DEF Safe, Images, Validate, Current
    <3>3. proc' = [proc EXCEPT ![p] = [Start EXCEPT !.pc = "backup",
                     !.job = "migrate", !.old = dir.file,
                     !.doc = Migrate(dir.file)]]
      BY <1>2, <2>2, <3>1, ConfigAssumption DEF Load
    <3>4. proc'[p].pc = "backup" /\ proc'[p].old = dir.file
             /\ \A q \in Proc \ {p} : proc'[q] = proc[q]
      BY <1>0, <3>3 DEF Start
    <3> QED
      BY <2>1, <3>2, <3>4, SafeQuiet DEF Inside, Checked, Saving
  <2>3. CASE ~Migratable(dir.file)
    <3>1. \/ LoadFailed(p)
          \/ \E c \in Doc : Show(p, c)
      BY <1>2, <2>3, Documents DEF Load, Loadable
    <3>2. proc'[p].pc \in {"init", "dashboard"}
             /\ \A q \in Proc \ {p} : proc'[q] = proc[q]
      BY <1>0, <3>1 DEF LoadFailed, Show, Start, Screen
    <3> QED
      BY <2>1, <3>2, SafeFail
  <2> QED
    BY <2>2, <2>3
<1>3. ASSUME NEW p \in Proc, Backup(p) PROVE Safe'
  <2>1. CASE LoadFailed(p) /\ UNCHANGED <<dir, images>>
    <3>1. proc'[p].pc = "init" /\ \A q \in Proc \ {p} : proc'[q] = proc[q]
      BY <1>0, <2>1 DEF LoadFailed, Start
    <3> QED
      BY <1>3, <2>1, <3>1, SafeFail DEF Backup
  <2>2. CASE NewDir([dir EXCEPT !.backups = @ \cup {proc[p].old}])
                /\ Goto(p, "lock")
    <3> DEFINE new == [dir EXCEPT !.backups = @ \cup {proc[p].old}]
    <3>1. dir' = new /\ images' = images \cup {new} /\ UNCHANGED <<lock, history>>
      BY <1>3, <2>2 DEF Backup, NewDir
    <3>2. /\ new.file = dir.file /\ new.by = dir.by /\ new.torn = dir.torn
          /\ new.backups = dir.backups \cup {proc[p].old}
      BY <1>0 DEF Others, DirType
    <3>3. proc[p].old = original
      BY <1>3 DEF Backup, Safe, Migrating
    <3>4. proc'[p].pc = "lock" /\ proc'[p].doc = proc[p].doc
             /\ \A q \in Proc \ {p} : proc'[q] = proc[q]
      BY <1>0, <2>2 DEF Goto, ProcType
    <3>5. Locked' /\ Prepared'
      BY <3>1, <3>2, <3>4
         DEF Safe, Locked, Prepared, Inside, Checked, Validate, Current
    <3>6. Migrating'
      BY <3>1, <3>2, <3>3, <3>4 DEF Safe, Migrating, Saving, history
    <3>7. ~new.torn
      <4>1. ~dir.torn
        BY Zenon DEF Safe, Images
      <4> QED
        BY <3>2, <4>1, Zenon
    <3>8. Images'
      <4>1. dir' \in images'
        BY <3>1
      <4>2. \A d \in images' : ~d.torn
        BY <3>1, <3>7, Zenon DEF Safe, Images
      <4>3. \A d \in images' :
               d.file = original \/ (d.file \in Doc /\ Validate(d.file))
        BY <3>1, <3>2 DEF Safe, Images
      <4> QED
        BY <3>1, <4>1, <4>2, <4>3 DEF Images, history, Validate, Doc, Current
    <3>9. BackedUp'
      BY <3>1, <3>2, <3>3 DEF Safe, BackedUp, history
    <3>10. Durable'
      BY <3>1, <3>2 DEF Safe, Images, Durable, history
    <3> QED
      BY <3>5, <3>6, <3>8, <3>9, <3>10 DEF Safe
  <2> QED
    BY <1>3, <2>1, <2>2 DEF Backup
<1>4. ASSUME NEW p \in Proc, NEW job \in {"profile", "project"},
             NEW doc, Begin(p, job, doc)
      PROVE  Safe'
  <2>1. UNCHANGED <<dir, images, lock, history>>
    BY <1>4 DEF Begin, files
  <2>2. proc'[p].pc = "lock" /\ proc'[p].job = job
           /\ \A q \in Proc \ {p} : proc'[q] = proc[q]
    BY <1>0, <1>4 DEF Begin, ProcType
  <2> QED
    BY <2>1, <2>2, SafeQuiet DEF Inside, Checked, Saving
<1>5. ASSUME NEW p \in Proc, NEW a \in Alias, SaveProfile(p, a) PROVE Safe'
  BY <1>4, <1>5 DEF SaveProfile
<1>6. ASSUME NEW p \in Proc, NEW r \in Domain \X Alias, AddProject(p, r)
      PROVE  Safe'
  BY <1>4, <1>6 DEF AddProject
<1>7. ASSUME NEW p \in Proc, Lock(p) PROVE Safe'
  <2>1. UNCHANGED <<dir, images, history>> /\ lock' = p /\ lock = NoProc
    BY <1>7 DEF Lock
  <2>2. proc'[p].pc = "marshal" /\ proc'[p].job = proc[p].job
           /\ \A q \in Proc \ {p} : proc'[q] = proc[q]
    BY <1>0, <1>7 DEF Lock, Goto, ProcType
  <2>3. proc[p].job = "migrate" => original \in dir.backups
    BY <1>7 DEF Lock, Safe, Migrating, Saving
  <2> QED
    BY <2>1, <2>2, <2>3, SafeQuiet, ConfigAssumption
       DEF Inside, Checked, Saving
<1>8. ASSUME NEW p \in Proc, LockFails(p) PROVE Safe'
  BY <1>8, FailPc, SafeFail DEF LockFails, files
<1>9. ASSUME NEW p \in Proc, Marshal(p) PROVE Safe'
  <2>1. UNCHANGED <<dir, images, history>> /\ lock' \in {lock, NoProc}
    BY <1>9 DEF Marshal, Unlock
  <2>2. \A q \in Proc \ {p} : lock = q => lock' = q
    BY <1>9, <2>1, HolderUnlocks DEF Marshal, Inside
  <2>3. CASE Validate(proc[p].doc)
    <3>1. proc'[p].pc = "write" /\ proc'[p].job = proc[p].job
             /\ proc'[p].doc = proc[p].doc
             /\ \A q \in Proc \ {p} : proc'[q] = proc[q]
      BY <1>0, <1>9, <2>3 DEF Marshal, Goto, ProcType
    <3>2. lock' = p
      BY <1>9, <2>3 DEF Marshal, Safe, Locked, Inside
    <3>3. proc[p].job = "migrate" => original \in dir.backups
      BY <1>9 DEF Marshal, Safe, Migrating, Saving
    <3>4. Validate(proc'[p].doc)
      BY <2>3, <3>1
    <3> QED
      BY <2>1, <2>2, <3>1, <3>2, <3>3, <3>4, SafeQuiet
         DEF Inside, Checked, Saving
  <2>4. CASE ~Validate(proc[p].doc)
    BY <1>9, <2>1, <2>2, <2>4, FailPc, SafeFail DEF Marshal
  <2> QED
    BY <2>3, <2>4
<1>10. ASSUME NEW p \in Proc, WriteTemp(p) PROVE Safe'
  <2>1. UNCHANGED <<dir, images, history>> /\ lock' \in {lock, NoProc}
    BY <1>10 DEF WriteTemp, Unlock
  <2>2. \A q \in Proc \ {p} : lock = q => lock' = q
    BY <1>10, <2>1, HolderUnlocks DEF WriteTemp, Inside
  <2>3. CASE Fail(p)
    BY <2>1, <2>2, <2>3, FailPc, SafeFail
  <2>4. CASE ~Fail(p)
    <3> DEFINE r == [proc[p] EXCEPT !.pc = "rename", !.flushed = TRUE]
    <3>0. proc'[p] = r /\ \A q \in Proc \ {p} : proc'[q] = proc[q]
      BY <1>0, <1>10, <2>4 DEF WriteTemp
    <3>1. proc'[p].pc = "rename" /\ proc'[p].job = proc[p].job
             /\ proc'[p].doc = proc[p].doc
             /\ \A q \in Proc \ {p} : proc'[q] = proc[q]
      BY <1>0, <3>0 DEF ProcType
    <3>2. lock' = p /\ Validate(proc[p].doc)
      BY <1>10, <2>4 DEF WriteTemp, Safe, Locked, Prepared, Inside, Checked
    <3>3. proc[p].job = "migrate" => original \in dir.backups
      BY <1>10 DEF WriteTemp, Safe, Migrating, Saving
    <3>4. Validate(proc'[p].doc)
      BY <3>1, <3>2
    <3>5. proc'[p].flushed
      <4>1. r.flushed = TRUE
        BY <1>0 DEF ProcType
      <4> QED
        BY <3>0, <4>1, Zenon
    <3> QED
      BY <2>1, <2>2, <3>1, <3>2, <3>3, <3>4, <3>5, SafeQuiet
         DEF Inside, Checked, Saving
  <2> QED
    BY <2>3, <2>4
<1>11. ASSUME NEW p \in Proc, Rename(p) PROVE Safe'
  <2>1. lock = p /\ Validate(proc[p].doc) /\ proc[p].doc \in Doc
    BY <1>0, <1>11 DEF Rename, Safe, Locked, Prepared, Inside, Checked, Sound,
                       Saving
  <2>2. CASE Fail(p) /\ Unlock /\ UNCHANGED <<dir, images, since>>
    <3>1. UNCHANGED <<dir, images, history>> /\ lock' \in {lock, NoProc}
      BY <1>11, <2>2 DEF Rename, Unlock, history
    <3> QED
      BY <2>1, <2>2, <3>1, FailPc, SafeFail
  <2>3. CASE Goto(p, "sync") /\ UNCHANGED lock /\ since' = since \cup {proc[p].doc}
                /\ NewDir([dir EXCEPT !.file = proc[p].doc, !.by = proc[p].job,
                                      !.torn = ~proc[p].flushed])
    <3> DEFINE new == [dir EXCEPT !.file = proc[p].doc, !.by = proc[p].job,
                                  !.torn = ~proc[p].flushed]
    <3>1. dir' = new /\ images' = images \cup {new} /\ UNCHANGED <<lock, original, acked>>
      BY <1>11, <2>3 DEF Rename, NewDir
    <3>2. new.file = proc[p].doc /\ new.by = proc[p].job
             /\ new.torn = (~proc[p].flushed) /\ new.backups = dir.backups
      BY <1>0 DEF Others, DirType
    <3>3. proc'[p].pc = "sync" /\ proc'[p].doc = proc[p].doc
             /\ proc'[p].job = proc[p].job
             /\ \A q \in Proc \ {p} : proc'[q] = proc[q]
      BY <1>0, <2>3 DEF Goto, ProcType
    <3>4. \A q \in Proc \ {p} : proc[q].pc \notin Inside
      BY <2>1 DEF Safe, Locked
    <3>5. Locked'
      BY <2>1, <3>1, <3>2, <3>3, <3>4 DEF Locked, Inside
    <3>6. Prepared'
      BY <2>1, <3>3 DEF Safe, Prepared, Checked
    <3>7. proc[p].job = "migrate" => original \in dir.backups
      BY <1>11 DEF Rename, Safe, Migrating, Saving
    <3>8. Migrating'
      BY <3>1, <3>2, <3>3, <3>7 DEF Safe, Migrating, Saving
    <3>9. proc[p].flushed
      BY <1>11, Zenon DEF Rename, Safe, Prepared
    <3>10. ~new.torn
      BY <3>2, <3>9, Zenon
    <3>11. Images'
      <4>1. dir' \in images'
        BY <3>1
      <4>2. \A d \in images' : ~d.torn
        BY <3>1, <3>10, Zenon DEF Safe, Images
      <4>3. \A d \in images' :
               d.file = original \/ (d.file \in Doc /\ Validate(d.file))
        BY <2>1, <3>1, <3>2 DEF Safe, Images
      <4> QED
        BY <3>1, <4>1, <4>2, <4>3 DEF Images, Validate, Doc, Current
    <3>12. BackedUp'
      BY <3>1, <3>2, <3>7 DEF Safe, BackedUp
    <3>13. Durable'
      BY <2>3, <3>1, <3>2 DEF Safe, Durable
    <3> QED
      BY <3>5, <3>6, <3>8, <3>11, <3>12, <3>13 DEF Safe
  <2> QED
    BY <1>11, <2>2, <2>3 DEF Rename
<1>12. ASSUME NEW p \in Proc, SyncDirectory(p) PROVE Safe'
  <2>1. lock = p /\ dir.file = proc[p].doc /\ lock' = NoProc /\ dir' = dir
           /\ proc[p].doc \in Doc
    BY <1>0, <1>12 DEF SyncDirectory, Unlock, Safe, Locked, Inside, Sound, Saving
  <2>2. CASE Fail(p) /\ UNCHANGED <<images, history>>
    BY <2>1, <2>2, FailPc, SafeFail
  <2>3. CASE images' = {dir} /\ Succeed(p)
    <3>1. acked' = proc[p].doc /\ since' = {} /\ original' = original
      BY <2>3 DEF Succeed
    <3>2. proc'[p].pc \in {"init", "dashboard"}
             /\ \A q \in Proc \ {p} : proc'[q] = proc[q]
      BY <1>0, <2>3 DEF Succeed, Show, Start, Screen
    <3>3. \A q \in Proc \ {p} : proc[q].pc \notin Inside
      BY <2>1 DEF Safe, Locked
    <3>4. Locked' /\ Prepared'
      BY <3>2, <3>3 DEF Locked, Prepared, Inside, Checked
    <3>5. Migrating'
      BY <2>1, <3>1, <3>2 DEF Safe, Migrating, Saving
    <3>6. Images' /\ BackedUp'
      BY <2>1, <2>3, <3>1
         DEF Safe, Images, BackedUp, Validate, Doc, Current
    <3>7. Durable'
      BY <2>1, <2>3, <3>1 DEF Durable
    <3> QED
      BY <3>4, <3>5, <3>6, <3>7 DEF Safe
  <2> QED
    BY <1>12, <2>2, <2>3 DEF SyncDirectory
<1>13. ASSUME NEW p \in Proc, Exit(p) PROVE Safe'
  <2>1. proc'[p].pc = "start" /\ \A q \in Proc \ {p} : proc'[q] = proc[q]
    BY <1>0, <1>13 DEF Exit, Start
  <2> QED
    BY <1>13, <2>1, SafeFail DEF Exit
<1>14. CASE PowerLoss
  <2>1. PICK d \in images : dir' = IF d.torn THEN [d EXCEPT !.file = Broken] ELSE d
    BY <1>14 DEF PowerLoss
  <2>2. dir' = d
    BY <2>1, Zenon DEF Safe, Images
  <2>3. images' = {d} /\ UNCHANGED history
    BY <1>14, <2>2 DEF PowerLoss
  <2>4. \A p \in Proc : proc'[p].pc = "start"
    BY <1>14 DEF PowerLoss, Start
  <2>5. Locked' /\ Prepared' /\ Migrating'
    BY <2>4 DEF Locked, Prepared, Migrating, Inside, Checked, Saving
  <2>6. Images' /\ BackedUp' /\ Durable'
    BY <2>2, <2>3 DEF Safe, Images, BackedUp, Durable, history, Validate, Doc,
                      Current
  <2> QED
    BY <2>5, <2>6 DEF Safe
<1> QED
  BY <1>1, <1>2, <1>3, <1>5, <1>6, <1>7, <1>8, <1>9, <1>10, <1>11, <1>12,
     <1>13, <1>14 DEF Next, Step

\* Safe is an invariant of the store.
LEMMA AlwaysSafe == Spec => [](Typed /\ Safe)
<1>1. Init => Typed /\ Safe
  BY TypedInit, SafeInit
<1>2. (Typed /\ Safe) /\ [Next]_vars => (Typed /\ Safe)'
  BY TypedNext, SafeNext
<1> QED
  BY <1>1, <1>2, PTL DEF Spec

\* A loadable configuration is never replaced by anything but a loadable one,
\* in memory or on the disk after a power loss.
THEOREM LoadableForever == Spec => []StaysLoadable
<1>1. Safe => StaysLoadable
  BY DEF Safe, Images, StaysLoadable, Survivors, Loadable
<1> QED
  BY <1>1, AlwaysSafe, PTL

\* An acknowledged save is never undone by a crash, a power loss or another
\* process's save of an older document.
THEOREM DurableOnceSaved == Spec => []SavedIsDurable
<1>1. Safe => SavedIsDurable
  BY DEF Safe, Images, Durable, SavedIsDurable, Survivors
<1> QED
  BY <1>1, AlwaysSafe, PTL

\* The result of a migration is never found without the backup of what it was
\* made from.
THEOREM BackupFirst == Spec => []MigrationBackedUp
<1>1. Safe => MigrationBackedUp
  BY DEF Safe, Images, BackedUp, MigrationBackedUp, Survivors
<1> QED
  BY <1>1, AlwaysSafe, PTL
=============================================================================
