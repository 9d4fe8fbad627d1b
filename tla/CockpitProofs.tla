--------------------------- MODULE CockpitProofs ---------------------------
(***************************************************************************)
(* Proofs about the cockpit's Update loop and about the status cache its   *)
(* refreshes read: first Cockpit, then StatusCache.  Neither part uses the *)
(* other's state.                                                          *)
(***************************************************************************)
EXTENDS Cockpit, StatusCache, FiniteSetTheorems, TLAPS

(***************************************************************************)
(* The parts of the Model, the commands in flight and the captured         *)
(* configurations the arguments below speak of.                            *)
(***************************************************************************)
InJobs == BagToSet(jobs)
Sent(tag) == \E job \in InJobs : job[1] = tag
Started == {"profile", "rollback", "discard", "scan", "import", "check", "execute"}
Unsaved == Started \ {"profile"}
Starting == <<"config">> \in InJobs \/ <<"pending">> \in InJobs

IsConfig(cfg) == DOMAIN cfg = {"profiles", "projects"} /\ cfg.projects \in Seq(Domain)

Shaped ==
    /\ DOMAIN m = {"state", "tab", "sel", "focused", "offsets", "cfg", "form", "catalog",
                   "saving", "resume", "import", "running", "modal", "live", "statuses",
                   "runs", "wizard"}
    /\ IsConfig(m.cfg)
    /\ DOMAIN m.import = {"loading", "saving", "rows"}
    /\ DOMAIN m.modal = {"open", "project", "run", "loading", "lines"}
    /\ IsABag(jobs)

\* The lock of each screen and the command whose reply opens it.  The modal's
\* has to be about its own project: replies of others pass it by.
Locks ==
    /\ m.saving => Sent("profile")
    /\ m.import.loading => Sent("scan")
    /\ m.import.saving => Sent("import")
    /\ m.modal.loading => /\ m.modal.open
                          /\ \E job \in InJobs : job[1] = "logs" /\ job[2] = m.modal.project
    /\ m.wizard = "Executing" => Sent("execute")
    /\ m.wizard = "RollingBack" => Sent("rollback")

Lines == m.modal.lines # <<None, None>> => m.modal.lines[1] = m.modal.project

\* While a start-up file is read the operator has started nothing.
StartsAlone ==
    /\ \A job \in {<<"config">>, <<"pending">>} : job \in InJobs => jobs[job] = 1
    /\ Starting => \A tag \in Started :
                       ~Sent(tag)
    /\ <<"config">> \in InJobs => m.cfg.projects = <<>>

\* The resume screen opens at start-up only: no wizard waits behind it for the
\* rollback whose reply it would take for its own.
ResumeFirst ==
    Starting \/ m.state = "Resume" => m.wizard \notin {"Executing", "RollingBack"}

\* One profile is saved at a time, the init wizard waits for it, and nothing
\* that could leave the wizard or change the configuration is in flight.
SavesAlone ==
    /\ \A job \in InJobs : job[1] = "profile" =>
          /\ jobs[job] = 1 /\ \A other \in InJobs : other[1] = "profile" => other = job
          /\ IsConfig(job[2]) /\ job[2].projects = m.cfg.projects
          /\ m.state = "Init" /\ m.saving
    /\ m.state = "Init" => \A tag \in Unsaved : ~Sent(tag)

\* Every configuration captured by a save in flight has the projects that the
\* panel does not list: these come from config.json alone.
Fixed(cfg) == ToSet(cfg.projects) \ Panel
Agrees(job) == IsConfig(job[2]) /\ Fixed(job[2]) = Fixed(m.cfg)
SavesAgree ==
    /\ m.import.rows \subseteq Panel
    /\ \A job \in InJobs : job[1] \in {"import", "execute"} => Agrees(job)

CockpitInv ==
    Shaped /\ Locks /\ Lines /\ StartsAlone /\ ResumeFirst /\ SavesAlone /\ SavesAgree
-----------------------------------------------------------------------------
\* What consuming the messages done and starting the commands cmds does to
\* the commands in flight.
JobStep(done, cmds) ==
    /\ IsABag(jobs')
    /\ InJobs' \subseteq InJobs \cup cmds
    /\ cmds \subseteq InJobs' /\ InJobs \ done \subseteq InJobs'
    /\ \A e \in InJobs' : e \notin done \cup cmds => jobs'[e] = jobs[e]
    /\ \A e \in cmds : e \notin InJobs => jobs'[e] = 1
    /\ \A e \in done : e \in InJobs /\ jobs[e] = 1 /\ e \notin cmds => e \notin InJobs'

\* Perform: a command that is not started a second time is in flight already.
LEMMA Performed ==
    ASSUME NEW done, NEW cmds, IsABag(jobs), Perform(done, cmds)
    PROVE  JobStep(done, cmds)
<1> DEFINE left == jobs (-) SetToBag(done)
<1> DEFINE bound(c) == IF c[1] \in Idempotent THEN 1 ELSE MaxCopies
<1> DEFINE new == {c \in cmds : BagIn(c, left) => left[c] < bound(c)}
<1>1. \A c : bound(c) \in Nat \ {0}
  BY CockpitAssumption
<1>0. \A e \in DOMAIN jobs : jobs[e] \in Nat /\ jobs[e] > 0
  BY DEF IsABag
<1>2. /\ DOMAIN left = {e \in DOMAIN jobs : e \in done => jobs[e] - 1 > 0}
      /\ \A e \in DOMAIN left : left[e] = IF e \in done THEN jobs[e] - 1 ELSE jobs[e]
  <2> DEFINE one == SetToBag(done)
  <2> DEFINE B == [e \in DOMAIN jobs |-> IF e \in DOMAIN one THEN jobs[e] - one[e]
                                        ELSE jobs[e]]
  <2>1. left = [e \in {d \in DOMAIN B : B[d] > 0} |-> B[e]]
    BY DEF (-)
  <2>2. DOMAIN one = done /\ \A e \in done : one[e] = 1
    BY DEF SetToBag
  <2> HIDE DEF one
  <2>3. /\ DOMAIN B = DOMAIN jobs
        /\ \A e \in DOMAIN jobs : B[e] = IF e \in done THEN jobs[e] - 1 ELSE jobs[e]
    BY <2>2
  <2> HIDE DEF B, left
  <2>4. DOMAIN left = {d \in DOMAIN B : B[d] > 0} /\ \A e \in DOMAIN left : left[e] = B[e]
    BY <2>1
  <2>5. QED
    BY <1>0, <2>3, <2>4
<1>4. \A e \in DOMAIN left : left[e] \in Nat /\ left[e] > 0
  BY <1>0, <1>2
<1>5. jobs' = left (+) SetToBag(new)
  BY DEF Perform
<1> HIDE DEF bound
<1>6. /\ new \subseteq cmds
      /\ \A c \in cmds \ new : c \in DOMAIN left
      /\ \A c \in cmds : c \notin DOMAIN left => c \in new
  BY <1>1, <1>4 DEF BagIn, BagToSet
<1> HIDE DEF left, new
<1>7. /\ DOMAIN jobs' = DOMAIN left \cup new
      /\ \A e \in DOMAIN jobs' : jobs'[e] = (IF e \in DOMAIN left THEN left[e] ELSE 0)
                                           + (IF e \in new THEN 1 ELSE 0)
      /\ jobs' = [e \in DOMAIN jobs' |-> jobs'[e]]
  BY <1>5 DEF SetToBag, (+)
<1>8. \A e \in DOMAIN jobs' : jobs'[e] \in {n \in Nat : n > 0}
  BY <1>4, <1>7
<1>9. IsABag(jobs')
  BY <1>7, <1>8 DEF IsABag
<1>10. QED
  BY <1>0, <1>2, <1>4, <1>6, <1>7, <1>9 DEF JobStep, InJobs, BagToSet

\* A list of the rows has every row.
LEMMA Listed ==
    ASSUME NEW S, IsFiniteSet(S)
    PROVE  SetToSeq(S) \in Seq(S) /\ ToSet(SetToSeq(S)) = S
<1> DEFINE n == Cardinality(S)
<1> DEFINE s == SetToSeq(S)
<1>1. n \in Nat /\ ExistsBijection(1..n, S)
  BY FS_CardinalityType
<1>2. \E f \in [1..n -> S] : IsInjective(f)
  BY <1>1, Zenon DEF ExistsBijection, Bijection, Injection, Surjection
<1>3. s \in [1..n -> S] /\ IsInjective(s)
  BY <1>2, Zenon DEF SetToSeq
<1>4. s \in Injection(1..n, S)
  BY <1>3, Zenon DEF Injection
<1>5. Cardinality(1..n) = n
  <2>1. IF 1 > n THEN n = 0 ELSE n - 1 + 1 = n
    BY <1>1
  <2>2. Cardinality(1..n) = IF 1 > n THEN 0 ELSE n - 1 + 1
    BY <1>1, FS_Interval, 1 \in Int, n \in Int
  <2>3. QED
    BY <2>1, <2>2
<1>6. s \in Surjection(1..n, S)
  BY <1>4, <1>5, FS_Injection
<1> HIDE DEF s
<1>7. \A x \in S : \E i \in 1..n : s[i] = x
  BY <1>6, Zenon DEF Surjection
<1> HIDE DEF n
<1>8. s \in Seq(S) /\ DOMAIN s = 1..n
  BY <1>1, <1>3
<1>9. ToSet(s) = S
  BY <1>3, <1>7, <1>8 DEF ToSet
<1>10. QED
  BY <1>8, <1>9 DEF s

\* Appending a list adds its elements.
LEMMA Appended ==
    ASSUME NEW S, NEW s \in Seq(S), NEW t \in Seq(S)
    PROVE  s \o t \in Seq(S) /\ ToSet(s \o t) = ToSet(s) \cup ToSet(t)
<1>1. /\ s \o t \in Seq(S) /\ Len(s \o t) = Len(s) + Len(t)
      /\ \A i \in 1..Len(s) : (s \o t)[i] = s[i]
      /\ \A i \in 1..Len(t) : (s \o t)[Len(s) + i] = t[i]
      /\ DOMAIN s = 1..Len(s) /\ DOMAIN t = 1..Len(t) /\ DOMAIN (s \o t) = 1..Len(s \o t)
  OBVIOUS
<1> DEFINE u == s \o t
<1> HIDE DEF u
<1>2. \A i \in 1..Len(u) : i \in 1..Len(s) \/ \E j \in 1..Len(t) : i = Len(s) + j
  <2> SUFFICES ASSUME NEW i \in 1..Len(u), i \notin 1..Len(s)
               PROVE  i - Len(s) \in 1..Len(t) /\ i = Len(s) + (i - Len(s))
    OBVIOUS
  <2>1. QED
    BY <1>1 DEF u
<1>3. \A j \in 1..Len(t) : Len(s) + j \in 1..Len(u)
  BY <1>1 DEF u
<1>4. \A i \in 1..Len(s) : i \in 1..Len(u)
  BY <1>1 DEF u
<1>5. ToSet(u) \subseteq ToSet(s) \cup ToSet(t)
  BY <1>1, <1>2, SMTT(40) DEF u, ToSet
<1>6. ToSet(s) \subseteq ToSet(u) /\ ToSet(t) \subseteq ToSet(u)
  BY <1>1, <1>3, <1>4 DEF u, ToSet
<1>7. QED
  BY <1>1, <1>5, <1>6 DEF u
-----------------------------------------------------------------------------
(* What a step has to respect for each part of the invariant.              *)

\* A wizard that ignores keys has its command in flight after the step.
WizardWaits(done, cmds) ==
    /\ m'.wizard = "Executing" => \/ m.wizard = "Executing" /\ \A e \in done : e[1] # "execute"
                                  \/ \E c \in cmds : c[1] = "execute"
    /\ m'.wizard = "RollingBack" => \/ m.wizard = "RollingBack" /\ \A e \in done : e[1] # "rollback"
                                    \/ \E c \in cmds : c[1] = "rollback"

LEMMA KeepLocks ==
    ASSUME Locks, NEW done, NEW cmds, JobStep(done, cmds),
           m'.saving => \/ m.saving /\ \A e \in done : e[1] # "profile"
                        \/ \E c \in cmds : c[1] = "profile",
           m'.import.loading => \/ m.import.loading /\ \A e \in done : e[1] # "scan"
                                \/ \E c \in cmds : c[1] = "scan",
           m'.import.saving => \/ m.import.saving /\ \A e \in done : e[1] # "import"
                               \/ \E c \in cmds : c[1] = "import",
           m'.modal.loading => (m.modal.loading /\ m.modal.open => m'.modal.open),
           m'.modal.loading =>
               \/ /\ m.modal.loading /\ m'.modal.project = m.modal.project
                  /\ \A e \in done : e[1] = "logs" => e[2] # m.modal.project
               \/ /\ m'.modal.open
                  /\ \E c \in cmds : c[1] = "logs" /\ c[2] = m'.modal.project,
           WizardWaits(done, cmds)
    PROVE  Locks'
BY DEF Locks, Sent, JobStep, WizardWaits

LEMMA KeepStarts ==
    ASSUME StartsAlone, NEW done, NEW cmds, JobStep(done, cmds),
           \A c \in cmds : c[1] \notin {"config", "pending"},
           Starting => \A c \in cmds :
               c[1] \notin Started,
           <<"config">> \in InJobs /\ <<"config">> \notin done =>
               m'.cfg.projects = m.cfg.projects
    PROVE  StartsAlone' /\ (Starting' => Starting)
<1>1. <<"config">> \notin cmds /\ <<"pending">> \notin cmds
  OBVIOUS
<1>2. \A job \in {<<"config">>, <<"pending">>} : job \in InJobs' =>
        job \in InJobs /\ job \notin done /\ jobs'[job] = jobs[job]
  BY <1>1 DEF JobStep, StartsAlone
<1>3. Starting' => Starting
  BY <1>2 DEF Starting
<1>4. \A tag \in Started :
        Starting' => ~Sent(tag)'
  BY <1>3 DEF StartsAlone, Sent, JobStep
<1>5. QED
  BY <1>2, <1>3, <1>4 DEF StartsAlone

LEMMA KeepSaves ==
    ASSUME SavesAlone, StartsAlone, NEW done, NEW cmds, JobStep(done, cmds),
           \A c \in cmds : c[1] # "profile",
           Sent("profile") => /\ m'.state = "Init" /\ m'.saving
                              /\ m'.cfg.projects = m.cfg.projects
                              /\ \A e \in done : e[1] # "profile",
           m'.state = "Init" => /\ m.state = "Init" \/ Starting
                                /\ \A c \in cmds : c[1] \notin Unsaved
    PROVE  SavesAlone'
<1>1. ASSUME NEW job \in InJobs', job[1] = "profile"
      PROVE  /\ job \in InJobs /\ Sent("profile")
             /\ jobs'[job] = jobs[job]
  <2>1. job \in InJobs
    BY <1>1 DEF JobStep
  <2>2. Sent("profile")
    BY <1>1, <2>1 DEF Sent
  <2>3. job \notin done \cup cmds
    BY <1>1, <2>2
  <2>4. QED
    BY <2>1, <2>2, <2>3 DEF JobStep
<1>2. ASSUME NEW job \in InJobs', job[1] = "profile"
      PROVE  /\ jobs'[job] = 1 /\ \A other \in InJobs' : other[1] = "profile" => other = job
             /\ IsConfig(job[2]) /\ job[2].projects = m'.cfg.projects
             /\ m'.state = "Init" /\ m'.saving
  BY <1>1, <1>2 DEF SavesAlone
<1>3. \A tag \in Unsaved :
        m'.state = "Init" => ~Sent(tag)'
  BY DEF SavesAlone, StartsAlone, Sent, JobStep, Unsaved
<1>4. QED
  BY <1>2, <1>3 DEF SavesAlone, IsConfig

LEMMA KeepAgreed ==
    ASSUME SavesAgree, NEW done, NEW cmds, JobStep(done, cmds),
           Fixed(m'.cfg) = Fixed(m.cfg), m'.import.rows \subseteq Panel,
           \A c \in cmds : c[1] \in {"import", "execute"} => Agrees(c)
    PROVE  SavesAgree'
<1>1. \A job \in InJobs' : job[1] \in {"import", "execute"} => Agrees(job)
  BY DEF JobStep, SavesAgree
<1>2. \A job : Agrees(job) => Agrees(job)'
  BY DEF Agrees, IsConfig, Fixed
<1>3. QED
  BY <1>1, <1>2 DEF SavesAgree

LEMMA KeepResume ==
    ASSUME ResumeFirst, Starting' => Starting,
           m'.state = "Resume" => m.state = "Resume" \/ Starting,
           m'.wizard \in {"Executing", "RollingBack"} =>
               m'.wizard = m.wizard \/ (~Starting /\ m'.state # "Resume")
    PROVE  ResumeFirst'
BY DEF ResumeFirst

\* Most steps leave the configuration, the locks, the import preview and the
\* modal alone.
Same(x) ==
    /\ DOMAIN x = DOMAIN m /\ x.cfg = m.cfg /\ x.import = m.import
    /\ x.modal = m.modal /\ (x.saving <=> m.saving)

\* No project of config.json is forgotten by this step.
Grows == Fixed(m.cfg) \subseteq ToSet(m'.cfg.projects)

LEMMA Harmless ==
    ASSUME CockpitInv, NEW done, NEW cmds, Perform(done, cmds), Same(m'),
           m'.state = "Init" => m.state = "Init",
           m'.state = "Resume" => m.state = "Resume",
           Sent("profile") => m'.state = "Init",
           WizardWaits(done, cmds),
           m'.wizard \in {"Executing", "RollingBack"} =>
               m'.wizard = m.wizard \/ (~Starting /\ m'.state # "Resume"),
           \A c \in cmds : \/ c[1] \in {"refresh", "poll", "action"}
                           \/ /\ c[1] \in {"rollback", "discard", "check", "execute"}
                              /\ ~Starting /\ m'.state # "Init"
                              /\ c[1] = "execute" => Agrees(c),
           \A e \in done : e[1] \notin {"profile", "scan", "import", "logs"}
    PROVE  CockpitInv' /\ Grows
<1> USE DEF CockpitInv
<1>1. JobStep(done, cmds)
  BY Performed DEF Shaped
<1>2. Shaped'
  BY <1>1 DEF Shaped, Same, IsConfig, JobStep
<1>3. Locks'
  <2>1. \A e \in done : e[1] # "profile" /\ e[1] # "scan" /\ e[1] # "import" /\ e[1] # "logs"
    OBVIOUS
  <2>2. QED
    BY <1>1, <2>1, KeepLocks DEF Same
<1>4. Lines'
  BY DEF Lines, Same
<1>5. StartsAlone' /\ (Starting' => Starting)
  <2>1. \A c \in cmds : c[1] \notin {"config", "pending"}
    OBVIOUS
  <2>2. Starting => \A c \in cmds : c[1] \notin Started
    BY DEF Started
  <2>3. QED
    BY <1>1, <2>1, <2>2, KeepStarts DEF Same
<1>6. ResumeFirst'
  BY <1>5, KeepResume
<1>7. SavesAlone'
  <2>1. \A c \in cmds : c[1] # "profile"
    OBVIOUS
  <2>2. m'.state = "Init" => \A c \in cmds : c[1] \notin Unsaved
    BY DEF Unsaved, Started
  <2>3. Sent("profile") => m'.saving
    BY DEF SavesAlone, Sent, Same
  <2>4. QED
    BY <1>1, <2>1, <2>2, <2>3, KeepSaves DEF Same
<1>8. SavesAgree'
  <2>1. \A c \in cmds : c[1] \in {"import", "execute"} => Agrees(c)
    OBVIOUS
  <2>2. m'.cfg = m.cfg /\ m'.import = m.import
    BY DEF Same
  <2>3. Fixed(m'.cfg) = Fixed(m.cfg) /\ m'.import.rows \subseteq Panel
    BY <2>2 DEF SavesAgree
  <2>4. QED
    BY <1>1, <2>1, <2>3, KeepAgreed
<1>9. QED
  BY <1>2, <1>3, <1>4, <1>5, <1>6, <1>7, <1>8 DEF Grows, Same, Fixed

-----------------------------------------------------------------------------
(* Keys and replies that are harmless in this sense.                       *)

\* No profile is being saved away from the init wizard.
LEMMA NoProfile ==
    ASSUME CockpitInv, m.state # "Init" \/ Starting \/ ~m.saving
    PROVE  ~Sent("profile")
BY DEF CockpitInv, SavesAlone, StartsAlone, Sent, Started

\* A key that starts no command.
LEMMA QuietKey ==
    ASSUME CockpitInv, Perform({}, {}), Same(m'), m'.state = "Init" <=> m.state = "Init",
           m'.state = "Resume" => m.state = "Resume",
           m'.wizard = m.wizard \/ m'.wizard \notin {"Executing", "RollingBack"}
    PROVE  CockpitInv' /\ Grows
<1>1. Sent("profile") => m'.state = "Init"
  BY NoProfile
<1>2. WizardWaits({}, {})
  BY DEF WizardWaits
<1>3. QED
  BY <1>1, <1>2, Harmless

\* Keys that only move about or change what no reply depends on.
LEMMA QuietKeys ==
    ASSUME CockpitInv,
           \/ KeyTab \/ KeyUnfocus \/ ScrollTile \/ KeyAdvance \/ KeyStepBack
           \/ (\E fits \in BOOLEAN : KeyType(fits)) \/ KeyDiscard \/ KeyOpen
           \/ KeyCatalog \/ KeyCatalogBack \/ (\E row : KeyCatalogMove(row))
           \/ KeyCatalogDetail \/ KeyCatalogCopy \/ Click
           \/ KeyDetailBack \/ KeyLiveLogs \/ KeyLeaveLogs
           \/ KeyNew \/ KeyWizardBack \/ KeyWizardLeave
    PROVE  CockpitInv' /\ Grows
<1> USE DEF Become, On, Same
<1>0. DOMAIN m = {"state", "tab", "sel", "focused", "offsets", "cfg", "form", "catalog",
                  "saving", "resume", "import", "running", "modal", "live", "statuses", "runs",
                  "wizard"}
  BY DEF CockpitInv, Shaped
<1>1. CASE KeyTab \/ KeyUnfocus
  BY <1>0, <1>1, QuietKey DEF KeyTab, KeyUnfocus
<1>2. CASE ScrollTile
  BY <1>0, <1>2, QuietKey DEF ScrollTile
<1>3. ASSUME NEW fits \in BOOLEAN, KeyType(fits) PROVE CockpitInv' /\ Grows
  BY <1>0, <1>3, QuietKey DEF KeyType
<1>4. CASE KeyAdvance \/ KeyStepBack
  BY <1>0, <1>4, QuietKey DEF KeyAdvance, KeyStepBack
<1>5. CASE KeyDiscard
  BY <1>0, <1>5, QuietKey DEF KeyDiscard
<1>6. CASE KeyOpen
  BY <1>0, <1>6, QuietKey DEF KeyOpen, OnDashboard, Drilled
<1>7. CASE KeyCatalog \/ KeyCatalogBack
  BY <1>0, <1>7, QuietKey DEF KeyCatalog, KeyCatalogBack, OnDashboard
<1>8. ASSUME NEW row, KeyCatalogMove(row) PROVE CockpitInv' /\ Grows
  BY <1>0, <1>8, QuietKey DEF KeyCatalogMove
<1>9. CASE KeyCatalogDetail
  BY <1>0, <1>9, QuietKey DEF KeyCatalogDetail
<1>10. CASE KeyCatalogCopy
  BY <1>0, <1>10, QuietKey DEF KeyCatalogCopy
<1>11. CASE Click
  <2>1. ASSUME NEW row, m' = Drilled([m EXCEPT !.sel = row - 1])
        PROVE  Same(m') /\ m'.state = "Detail" /\ m'.wizard = m.wizard
    BY <1>0, <2>1 DEF Drilled
  <2>2. CASE m' = [m EXCEPT !.focused = TRUE]
    BY <1>0, <1>11, <2>2, QuietKey DEF Click
  <2>3. CASE m' = Drilled(m)
    BY <1>0, <1>11, <2>3, QuietKey DEF Click, Drilled
  <2>4. CASE m' = [m EXCEPT !.state = "Dashboard"]
    BY <1>0, <1>11, <2>4, QuietKey DEF Click
  <2>5. QED
    BY <1>0, <1>11, <2>1, <2>2, <2>3, <2>4, QuietKey DEF Click
<1>12. CASE KeyDetailBack \/ KeyLiveLogs \/ KeyLeaveLogs
  BY <1>0, <1>12, QuietKey DEF KeyDetailBack, KeyLiveLogs, KeyLeaveLogs, OnDetail
<1>13. CASE KeyNew
  BY <1>0, <1>13, QuietKey DEF KeyNew, OnDashboard
<1>14. CASE KeyWizardBack
  BY <1>0, <1>14, QuietKey DEF KeyWizardBack, OnWizard
<1>15. CASE KeyWizardLeave
  BY <1>0, <1>15, QuietKey DEF KeyWizardLeave
<1>16. QED
  BY <1>1, <1>2, <1>3, <1>4, <1>5, <1>6, <1>7, <1>8, <1>9, <1>10, <1>11, <1>12, <1>13,
     <1>14, <1>15

\* Keys, timers and replies that start probes, actions or a recovery, or only
\* record what a probe found.
LEMMA HarmlessSteps ==
    ASSUME CockpitInv,
           \/ KeyRollback \/ KeyConfirmDiscard \/ (\E up \in BOOLEAN : KeySelect(up))
           \/ (\E kind \in ActionKind : KeyAction(kind)) \/ RefreshTick \/ CICDTick
           \/ (\E projects \in SUBSET Watched : StatusRefreshed(projects)) \/ CICDFetched
           \/ Action \/ Rollback \/ Discard
    PROVE  CockpitInv' /\ Grows
<1> USE DEF Same
<1>0. DOMAIN m = {"state", "tab", "sel", "focused", "offsets", "cfg", "form", "catalog",
                  "saving", "resume", "import", "running", "modal", "live", "statuses", "runs",
                  "wizard"}
  BY DEF CockpitInv, Shaped
<1> DEFINE Calm(done) == /\ m'.wizard = m.wizard
                         /\ \A e \in done : e[1] \notin {"execute", "rollback"}
<1>15. ASSUME NEW done, NEW cmds, Calm(done) PROVE WizardWaits(done, cmds)
  BY <1>15 DEF WizardWaits
<1>1. CASE KeyRollback \/ KeyConfirmDiscard
  <2>1. PICK c \in {<<"rollback">>, <<"discard">>} : m' = m /\ Perform({}, {c})
    BY <1>1 DEF KeyRollback, KeyConfirmDiscard, Become
  <2>2. m.state = "Resume" /\ ~Starting
    BY <1>1 DEF KeyRollback, KeyConfirmDiscard, On, Ready, Starting, InJobs
  <2>3. c[1] \in {"rollback", "discard"}
    BY <2>1
  <2>4. Sent("profile") => m'.state = "Init"
    BY <2>2, NoProfile
  <2>5. QED
    BY <2>1, <2>2, <2>3, <2>4, <1>15, Harmless
<1>2. \A x : \A c \in pollCICDPipeline(x) : c[1] = "poll"
  BY DEF pollCICDPipeline
<1>3. \A x : refreshVisibleProjects(x)[1] = "refresh"
  BY DEF refreshVisibleProjects
<1>4. Sent("profile") => m.state = "Init"
  BY NoProfile
<1>5. ASSUME NEW up \in BOOLEAN, KeySelect(up) PROVE CockpitInv' /\ Grows
  <2>1. PICK x : /\ x = [m EXCEPT !.sel = clampIndex(IF up THEN @ - 1 ELSE @ + 1, Len(m.cfg.projects))]
                 /\ m' = x /\ Perform({}, pollCICDPipeline(x))
    BY <1>5 DEF KeySelect, Become
  <2>2. Same(m') /\ m'.state = m.state /\ m'.wizard = m.wizard
    BY <1>0, <2>1
  <2>3. QED
    BY <1>2, <1>4, <2>1, <2>2, <1>15, Harmless
<1>6. ASSUME NEW kind \in ActionKind, KeyAction(kind) PROVE CockpitInv' /\ Grows
  <2>1. /\ m' = [m EXCEPT !.running = TRUE]
        /\ Perform({}, {projectActionCmd(kind, selectedProject(m))})
    BY <1>6 DEF KeyAction, Become
  <2>2. projectActionCmd(kind, selectedProject(m))[1] = "action"
    BY DEF projectActionCmd
  <2>3. Same(m') /\ m'.state = m.state /\ m'.wizard = m.wizard
    BY <1>0, <2>1
  <2>4. QED
    BY <1>4, <2>1, <2>2, <2>3, <1>15, Harmless
<1>7. CASE RefreshTick
  <2>1. PICK cmds \in {{}, {refreshVisibleProjects(m)}} : m' = m /\ Perform({}, cmds)
    BY <1>7 DEF RefreshTick, Become
  <2>2. \A c \in cmds : c[1] = "refresh"
    BY <1>3, <2>1
  <2>3. QED
    BY <1>4, <2>1, <2>2, <1>15, Harmless
<1>8. CASE CICDTick
  <2>1. m' = m /\ Perform({}, pollCICDPipeline(m))
    BY <1>8 DEF CICDTick, Become
  <2>2. QED
    BY <1>2, <1>4, <2>1, <1>15, Harmless
<1>9. ASSUME NEW projects \in SUBSET Watched, StatusRefreshed(projects) PROVE CockpitInv' /\ Grows
  <2>1. /\ Perform({<<"refresh", projects>>}, {})
        /\ m' = [m EXCEPT !.statuses = @ \cup FetchProjectStatuses(projects)]
    BY <1>9 DEF StatusRefreshed, Apply
  <2>2. Same(m') /\ m'.state = m.state /\ m'.wizard = m.wizard
    BY <1>0, <2>1
  <2>3. QED
    BY <1>4, <2>1, <2>2, <1>15, Harmless
<1>10. CASE CICDFetched
  <2>1. PICK d \in Linked, run \in Run \cup {None} :
          Perform({<<"poll", d>>}, {}) /\ m' = [m EXCEPT !.runs[d] = run]
    BY <1>10 DEF CICDFetched, Apply
  <2>2. Same(m') /\ m'.state = m.state /\ m'.wizard = m.wizard
    BY <1>0, <2>1
  <2>3. QED
    BY <1>4, <2>1, <2>2, <1>15, Harmless
<1>11. CASE Action
  <2>1. PICK job \in InJobs, cmds \in {{}, {refreshVisibleProjects(m)}} :
          job[1] = "action" /\ Perform({job}, cmds) /\ m' = [m EXCEPT !.running = FALSE]
    BY <1>11 DEF Action, ActionCompleted, Apply, InJobs
  <2>2. \A c \in cmds : c[1] = "refresh"
    BY <1>3, <2>1
  <2>3. Same(m') /\ m'.state = m.state /\ m'.wizard = m.wizard
    BY <1>0, <2>1
  <2>4. QED
    BY <1>4, <2>1, <2>2, <2>3, <1>15, Harmless
<1>12. ASSUME NEW job \in {<<"rollback">>, <<"discard">>}, InFlight(job)
       PROVE  m.state # "Init"
  BY <1>12 DEF InFlight, BagIn, CockpitInv, SavesAlone, Sent, InJobs, Unsaved, Started
<1>13. CASE Rollback \/ Discard
  <2>1. PICK job \in {<<"rollback">>, <<"discard">>} :
          /\ InFlight(job) /\ Perform({job}, {})
          /\ m' \in {m, [m EXCEPT !.state = "Dashboard", !.wizard = "Done"],
                     [m EXCEPT !.state = "Dashboard", !.resume = NoResume]}
          /\ job[1] = "rollback" => m.state = "Resume" \/ m'.wizard = "Done"
    BY <1>0, <1>13 DEF Rollback, RolledBack, Discard, Discarded, Apply
  <2>2. m.state # "Init" /\ job[1] \in {"rollback", "discard"}
    BY <1>12, <2>1
  <2>3. /\ Same(m') /\ m'.state # "Init"
        /\ m'.state = "Resume" => m.state = "Resume"
        /\ m'.wizard \in {m.wizard, "Done"}
    BY <1>0, <2>1, <2>2
  <2>4. WizardWaits({job}, {})
    BY <2>1, <2>2, <2>3 DEF WizardWaits, CockpitInv, ResumeFirst
  <2>5. m'.wizard \in {"Executing", "RollingBack"} => m'.wizard = m.wizard
    BY <2>3
  <2>6. QED
    BY <1>4, <2>1, <2>2, <2>3, <2>4, <2>5, Harmless
<1>14. QED
  BY <1>1, <1>5, <1>6, <1>7, <1>8, <1>9, <1>10, <1>11, <1>13

-----------------------------------------------------------------------------
(* Start-up, the end, and the saving of a profile.                         *)

\* The two files: whatever has been shown so far, the operator has started
\* nothing that the answer could meet.
LEMMA StartSteps ==
    ASSUME CockpitInv, Config \/ Pending
    PROVE  CockpitInv' /\ Grows
<1> USE DEF CockpitInv
<1>0. DOMAIN m = {"state", "tab", "sel", "focused", "offsets", "cfg", "form", "catalog",
                  "saving", "resume", "import", "running", "modal", "live", "statuses", "runs",
                  "wizard"}
  BY DEF Shaped
<1>1. /\ Starting /\ ~Sent("profile")
      /\ \A tag \in Started : ~Sent(tag)
  <2>1. Starting
    BY DEF Config, ConfigLoaded, ConfigUnusable, Pending, PendingLoaded, InFlight, BagIn,
           Starting, InJobs
  <2>2. QED
    BY <2>1 DEF StartsAlone, Started
<1>2. CASE ConfigLoaded
  <2> DEFINE cfg == [profiles |-> TRUE, projects |-> Configured]
  <2>1. /\ <<"config">> \in InJobs
        /\ m' \in {[m EXCEPT !.cfg = cfg, !.state = "Resume"],
                   [m EXCEPT !.cfg = cfg, !.state = "Dashboard",
                             !.sel = clampIndex(@, Len(Configured))]}
    BY <1>2 DEF ConfigLoaded, Apply, InFlight, BagIn, InJobs
  <2>2. PICK cmds : /\ Perform({<<"config">>}, cmds)
                    /\ \A c \in cmds : c[1] \in {"refresh", "poll"}
    <3>1. CASE m.resume.snapshot # "none"
      BY <1>2, <3>1 DEF ConfigLoaded, Apply
    <3>2. CASE ~(m.resume.snapshot # "none")
      <4> DEFINE x == [m EXCEPT !.cfg = cfg, !.state = "Dashboard",
                                !.sel = clampIndex(@, Len(Configured))]
      <4>1. Perform({<<"config">>}, {refreshVisibleProjects(x)} \cup pollCICDPipeline(x))
        BY <1>2, <3>2, Zenon DEF ConfigLoaded
      <4>2. /\ refreshVisibleProjects(x)[1] = "refresh"
            /\ \A c \in pollCICDPipeline(x) : c[1] = "poll"
        BY DEF refreshVisibleProjects, pollCICDPipeline
      <4> HIDE DEF x
      <4>3. QED
        BY <4>1, <4>2
    <3>3. QED
      BY <3>1, <3>2
  <2>3. JobStep({<<"config">>}, cmds)
    BY <2>2, Performed DEF Shaped
  <2>4. /\ DOMAIN m' = DOMAIN m /\ m'.cfg = cfg /\ m'.state # "Init"
        /\ m'.import = m.import /\ m'.modal = m.modal /\ m'.saving = m.saving
        /\ m'.wizard = m.wizard
    BY <1>0, <2>1
  <2>5. IsConfig(cfg)
    BY CockpitAssumption DEF IsConfig
  <2> HIDE DEF cfg
  <2>6. Shaped'
    BY <2>3, <2>4, <2>5 DEF Shaped, JobStep, IsConfig
  <2>7. Locks'
    <3>1. WizardWaits({<<"config">>}, cmds)
      BY <2>4 DEF WizardWaits
    <3>2. QED
      BY <2>3, <2>4, <3>1, KeepLocks
  <2>8. Lines'
    BY <2>4 DEF Lines
  <2>9. StartsAlone' /\ (Starting' => Starting)
    BY <2>2, <2>3, KeepStarts DEF Started
  <2>10. SavesAlone'
    BY <1>1, <2>2, <2>3, <2>4, KeepSaves
  <2>11. SavesAgree'
    <3>1. \A job \in InJobs' : job[1] \notin {"import", "execute"}
      BY <1>1, <2>2, <2>3 DEF JobStep, Sent, Started
    <3>2. QED
      BY <2>4, <3>1 DEF SavesAgree
  <2>12. Grows
    BY <2>1 DEF StartsAlone, Grows, Fixed, ToSet
  <2>13. ResumeFirst'
    BY <1>1, <2>4, <2>9, KeepResume
  <2>14. QED
    BY <2>6, <2>7, <2>8, <2>9, <2>10, <2>11, <2>12, <2>13
<1>3. ASSUME NEW job \in {<<"config">>, <<"pending">>}, Perform({job}, {}),
             DOMAIN m' = DOMAIN m, m'.cfg = m.cfg, m'.import = m.import,
             m'.modal = m.modal, m'.wizard = m.wizard, m'.saving => m.saving
      PROVE  CockpitInv' /\ Grows
  <2>1. JobStep({job}, {})
    BY <1>3, Performed DEF Shaped
  <2>2. job[1] \in {"config", "pending"}
    BY <1>3
  <2>3. Shaped'
    BY <1>3, <2>1 DEF Shaped, JobStep, IsConfig
  <2>4. Locks'
    <3>1. WizardWaits({job}, {})
      BY <1>3, <2>2 DEF WizardWaits
    <3>2. QED
      BY <1>3, <2>1, <2>2, <3>1, KeepLocks
  <2>5. Lines'
    BY <1>3 DEF Lines
  <2>6. StartsAlone' /\ (Starting' => Starting)
    BY <1>3, <2>1, KeepStarts
  <2>7. SavesAlone'
    BY <1>1, <2>1, KeepSaves
  <2>8. SavesAgree'
    BY <1>3, <2>1, KeepAgreed DEF SavesAgree
  <2>9. ResumeFirst'
    BY <1>1, <1>3, <2>6, KeepResume
  <2>10. QED
    BY <1>3, <2>3, <2>4, <2>5, <2>6, <2>7, <2>8, <2>9 DEF Grows, Fixed
<1>4. ASSUME NEW failed \in BOOLEAN, ConfigUnusable(failed) PROVE CockpitInv' /\ Grows
  <2>1. /\ Perform({<<"config">>}, {})
        /\ m' \in {[m EXCEPT !.state = "Resume"],
                   [m EXCEPT !.state = "Init", !.form = newInitWizardForm, !.saving = FALSE]}
    BY <1>4 DEF ConfigUnusable, Apply
  <2>2. QED
    BY <1>0, <1>3, <2>1
<1>5. CASE Pending
  <2>1. PICK found \in {"none", "clean", "broken"} : PendingLoaded(found)
    BY <1>5 DEF Pending
  <2>2. /\ Perform({<<"pending">>}, {})
        /\ \/ m' = m
           \/ m' = [m EXCEPT !.state = "Resume",
                             !.resume = [snapshot |-> found, discarding |-> FALSE]]
    BY <2>1 DEF PendingLoaded, Apply
  <2>3. QED
    BY <1>0, <1>3, <2>2
<1>6. QED
  BY <1>2, <1>4, <1>5 DEF Config

\* The Model of a program that has ended.
LEMMA EndStep ==
    ASSUME NEW state \in {"Stopped", "Panicked"}, End(state)
    PROVE  CockpitInv' /\ ~Awake'
<1>1. m' = [NewModel EXCEPT !.state = state] /\ jobs' = EmptyBag
  BY DEF End
<1>2. InJobs' = {} /\ IsABag(jobs')
  BY <1>1 DEF InJobs, BagToSet, EmptyBag, SetToBag, IsABag
<1>3. /\ DOMAIN m' = {"state", "tab", "sel", "focused", "offsets", "cfg", "form", "catalog",
                      "saving", "resume", "import", "running", "modal", "live", "statuses",
                      "runs", "wizard"}
      /\ m'.cfg = NoConfig /\ m'.import = NoImport /\ m'.modal = NoModal
      /\ m'.saving = FALSE /\ m'.state = state /\ m'.wizard = "Domain"
  BY <1>1 DEF NewModel
<1>4. Shaped'
  BY <1>2, <1>3 DEF Shaped, IsConfig, NoConfig, NoImport, NoModal
<1>5. Locks' /\ Lines'
  BY <1>3 DEF Locks, Lines, NoImport, NoModal
<1>6. StartsAlone' /\ SavesAlone' /\ ResumeFirst'
  BY <1>2, <1>3 DEF StartsAlone, Starting, SavesAlone, ResumeFirst
<1>7. SavesAgree'
  BY <1>2, <1>3 DEF SavesAgree, NoImport
<1>8. ~Awake'
  BY <1>3 DEF Awake
<1>9. QED
  BY <1>4, <1>5, <1>6, <1>7, <1>8 DEF CockpitInv

\* The profile is saved, once at a time.
LEMMA ProfileSteps ==
    ASSUME CockpitInv, KeySaveProfile \/ Profile
    PROVE  CockpitInv' /\ Grows
<1> USE DEF CockpitInv
<1>0. DOMAIN m = {"state", "tab", "sel", "focused", "offsets", "cfg", "form", "catalog",
                  "saving", "resume", "import", "running", "modal", "live", "statuses", "runs",
                  "wizard"}
  BY DEF Shaped
<1>1. CASE KeySaveProfile
  <2> DEFINE cfg == [m.cfg EXCEPT !.profiles = TRUE]
  <2> DEFINE job == <<"profile", cfg>>
  <2>1. /\ m' = [m EXCEPT !.saving = TRUE] /\ Perform({}, {job})
        /\ ~Starting /\ m.state = "Init" /\ ~m.saving
    BY <1>1 DEF KeySaveProfile, Become, OnInit, On, Ready, Starting, InJobs
  <2>2. ~Sent("profile")
    BY <2>1, NoProfile
  <2>3. IsConfig(cfg) /\ cfg.projects = m.cfg.projects
    BY DEF Shaped, IsConfig
  <2> HIDE DEF cfg
  <2>4. job[1] = "profile" /\ job[2] = cfg
    OBVIOUS
  <2> HIDE DEF job
  <2>5. JobStep({}, {job})
    BY <2>1, Performed DEF Shaped
  <2>6. /\ DOMAIN m' = DOMAIN m /\ m'.cfg = m.cfg /\ m'.import = m.import
        /\ m'.modal = m.modal /\ m'.saving = TRUE /\ m'.state = m.state
        /\ m'.wizard = m.wizard
    BY <1>0, <2>1
  <2>7. Shaped'
    BY <2>5, <2>6 DEF Shaped, JobStep, IsConfig
  <2>8. Locks'
    <3>1. WizardWaits({}, {job})
      BY <2>6 DEF WizardWaits
    <3>2. QED
      BY <2>4, <2>5, <2>6, <3>1, KeepLocks
  <2>9. Lines'
    BY <2>6 DEF Lines
  <2>10. StartsAlone' /\ (Starting' => Starting)
    BY <2>1, <2>4, <2>5, <2>6, KeepStarts
  <2>11. SavesAlone'
    <3>1. job \notin InJobs /\ jobs'[job] = 1
      BY <2>2, <2>4, <2>5 DEF Sent, JobStep
    <3>2. \A other \in InJobs' : other[1] = "profile" => other = job
      BY <2>2, <2>5 DEF Sent, JobStep
    <3>3. \A tag \in Unsaved : ~Sent(tag)'
      BY <2>1, <2>4, <2>5 DEF SavesAlone, Sent, JobStep, Unsaved
    <3>4. QED
      BY <2>1, <2>3, <2>4, <2>6, <3>1, <3>2, <3>3 DEF SavesAlone, IsConfig
  <2>12. SavesAgree'
    BY <2>4, <2>5, <2>6, KeepAgreed DEF SavesAgree
  <2>13. ResumeFirst'
    BY <2>6, <2>10, KeepResume
  <2>14. QED
    BY <2>6, <2>7, <2>8, <2>9, <2>10, <2>11, <2>12, <2>13 DEF Grows, Fixed
<1>2. ASSUME NEW job \in InJobs, job[1] = "profile", NEW cmds, Perform({job}, cmds),
             \A c \in cmds : c[1] = "refresh",
             DOMAIN m' = DOMAIN m, IsConfig(m'.cfg), m'.cfg.projects = m.cfg.projects,
             m'.import = m.import, m'.modal = m.modal, m'.saving = FALSE,
             m'.wizard = m.wizard, m'.state # "Resume"
      PROVE  CockpitInv' /\ Grows
  <2>1. JobStep({job}, cmds)
    BY <1>2, Performed DEF Shaped
  <2>2. \A other \in InJobs' : other[1] # "profile"
    BY <1>2, <2>1 DEF SavesAlone, JobStep
  <2>3. m.state = "Init" /\ Sent("profile")
    BY <1>2 DEF SavesAlone, Sent
  <2>4. Shaped'
    BY <1>2, <2>1 DEF Shaped, JobStep, IsConfig
  <2>5. Locks'
    <3>1. WizardWaits({job}, cmds)
      BY <1>2 DEF WizardWaits
    <3>2. QED
      BY <1>2, <2>1, <3>1, KeepLocks
  <2>6. Lines'
    BY <1>2 DEF Lines
  <2>7. StartsAlone' /\ (Starting' => Starting)
    BY <1>2, <2>1, KeepStarts DEF Started
  <2>8. \A tag \in Unsaved : ~Sent(tag)'
    BY <1>2, <2>1, <2>3 DEF SavesAlone, Sent, JobStep, Unsaved, Started
  <2>9. SavesAlone'
    BY <2>2, <2>8 DEF SavesAlone
  <2>10. SavesAgree'
    BY <1>2, <2>1, KeepAgreed DEF SavesAgree, Fixed
  <2>11. ResumeFirst'
    BY <1>2, <2>7, KeepResume
  <2>12. QED
    BY <1>2, <2>4, <2>5, <2>6, <2>7, <2>9, <2>10, <2>11 DEF Grows, Fixed
<1>3. CASE ProfileSaved
  <2>1. PICK job, x :
          /\ job \in InJobs /\ job[1] = "profile" /\ m' = x /\ Perform({job}, {refreshVisibleProjects(x)})
          /\ x = [m EXCEPT !.cfg = job[2], !.state = "Dashboard", !.saving = FALSE,
                           !.form = doneInitWizardForm,
                           !.sel = clampIndex(@, Len(job[2].projects))]
    BY <1>3 DEF ProfileSaved, InJobs
  <2>2. IsConfig(job[2]) /\ job[2].projects = m.cfg.projects
    BY <2>1 DEF SavesAlone
  <2>3. /\ DOMAIN m' = DOMAIN m /\ m'.cfg = job[2] /\ m'.import = m.import
        /\ m'.modal = m.modal /\ m'.saving = FALSE /\ m'.wizard = m.wizard
        /\ m'.state = "Dashboard"
    BY <1>0, <2>1
  <2>4. refreshVisibleProjects(x)[1] = "refresh"
    BY DEF refreshVisibleProjects
  <2>5. QED
    BY <1>2, <2>1, <2>2, <2>3, <2>4
<1>4. CASE ProfileSaveFailed
  <2>1. PICK job \in InJobs :
          /\ job[1] = "profile" /\ Perform({job}, {})
          /\ m' = [m EXCEPT !.saving = FALSE, !.form.step = Len(InitSteps) - 1]
    BY <1>4 DEF ProfileSaveFailed, Apply, InJobs
  <2>2. /\ DOMAIN m' = DOMAIN m /\ m'.cfg = m.cfg /\ m'.import = m.import
        /\ m'.modal = m.modal /\ m'.saving = FALSE /\ m'.wizard = m.wizard
        /\ m'.state = "Init"
    BY <1>0, <2>1 DEF SavesAlone
  <2>3. IsConfig(m.cfg)
    BY DEF Shaped
  <2>4. QED
    BY <1>2, <2>1, <2>2, <2>3
<1>5. QED
  BY <1>1, <1>3, <1>4 DEF Profile
-----------------------------------------------------------------------------
(* The logs modal and the import preview.                                  *)

LEMMA ModalSteps ==
    ASSUME CockpitInv, KeyOpenLogs \/ KeyCloseLogs \/ Logs
    PROVE  CockpitInv' /\ Grows
<1> USE DEF CockpitInv
<1>0. DOMAIN m = {"state", "tab", "sel", "focused", "offsets", "cfg", "form", "catalog",
                  "saving", "resume", "import", "running", "modal", "live", "statuses", "runs",
                  "wizard"}
  BY DEF Shaped
<1>1. ASSUME NEW done, NEW cmds, Perform(done, cmds),
             \A c \in cmds : c[1] = "logs", \A e \in done : e[1] = "logs",
             DOMAIN m' = DOMAIN m, m'.cfg = m.cfg, m'.import = m.import,
             m'.saving = m.saving, m'.state = m.state, m'.wizard = m.wizard,
             DOMAIN m'.modal = DOMAIN m.modal,
             m'.modal.loading => (m.modal.loading /\ m.modal.open => m'.modal.open),
             m'.modal.loading =>
               \/ /\ m.modal.loading /\ m'.modal.project = m.modal.project
                  /\ \A e \in done : e[1] = "logs" => e[2] # m.modal.project
               \/ /\ m'.modal.open
                  /\ \E c \in cmds : c[1] = "logs" /\ c[2] = m'.modal.project,
             Lines'
      PROVE  CockpitInv' /\ Grows
  <2>1. JobStep(done, cmds)
    BY <1>1, Performed DEF Shaped
  <2>2. Shaped'
    BY <1>1, <2>1 DEF Shaped, JobStep, IsConfig
  <2>3. \A e \in done : e[1] # "profile" /\ e[1] # "scan" /\ e[1] # "import"
    BY <1>1
  <2>4. Locks'
    <3>1. WizardWaits(done, cmds)
      BY <1>1 DEF WizardWaits
    <3>2. QED
      BY <1>1, <2>1, <2>3, <3>1, KeepLocks
  <2>5. StartsAlone' /\ (Starting' => Starting)
    BY <1>1, <2>1, KeepStarts DEF Started
  <2>6. Sent("profile") => m'.state = "Init" /\ m'.saving
    BY <1>1 DEF SavesAlone, Sent
  <2>7. SavesAlone'
    BY <1>1, <2>1, <2>3, <2>6, KeepSaves DEF Unsaved, Started
  <2>8. SavesAgree'
    BY <1>1, <2>1, KeepAgreed DEF SavesAgree
  <2>9. ResumeFirst'
    BY <1>1, <2>5, KeepResume
  <2>10. QED
    BY <1>1, <2>2, <2>4, <2>5, <2>7, <2>8, <2>9 DEF Grows, Fixed
<1>2. CASE KeyOpenLogs
  <2>1. PICK d \in Linked :
          /\ m' = [m EXCEPT !.modal = [NoModal EXCEPT !.open = TRUE, !.project = d,
                                         !.run = m.runs[d], !.loading = TRUE]]
          /\ Perform({}, {loadCICDLogsCmd(d, m.runs[d])})
    BY <1>2 DEF KeyOpenLogs, Become
  <2>2. loadCICDLogsCmd(d, m.runs[d])[1] = "logs" /\ loadCICDLogsCmd(d, m.runs[d])[2] = d
    BY DEF loadCICDLogsCmd
  <2>3. /\ DOMAIN m' = DOMAIN m /\ m'.cfg = m.cfg /\ m'.import = m.import
        /\ m'.saving = m.saving /\ m'.state = m.state /\ m'.wizard = m.wizard
        /\ m'.modal = [NoModal EXCEPT !.open = TRUE, !.project = d,
                                         !.run = m.runs[d], !.loading = TRUE]
    BY <1>0, <2>1
  <2>4. /\ DOMAIN m'.modal = DOMAIN m.modal /\ m'.modal.project = d /\ m'.modal.open
        /\ m'.modal.lines = <<None, None>>
    BY <2>3 DEF NoModal, Shaped
  <2>5. Lines'
    BY <2>4 DEF Lines
  <2>6. QED
    BY <1>1, <2>1, <2>2, <2>3, <2>4, <2>5
<1>3. CASE KeyCloseLogs
  <2>1. m' = [m EXCEPT !.modal = NoModal] /\ Perform({}, {})
    BY <1>3 DEF KeyCloseLogs, Become
  <2>2. /\ DOMAIN m' = DOMAIN m /\ m'.cfg = m.cfg /\ m'.import = m.import
        /\ m'.saving = m.saving /\ m'.state = m.state /\ m'.wizard = m.wizard
        /\ m'.modal = NoModal
    BY <1>0, <2>1
  <2>3. /\ DOMAIN m'.modal = DOMAIN m.modal /\ ~m'.modal.loading
        /\ m'.modal.lines = <<None, None>>
    BY <2>2 DEF NoModal, Shaped
  <2>4. Lines'
    BY <2>3 DEF Lines
  <2>5. QED
    BY <1>1, <2>1, <2>2, <2>3, <2>4
<1>4. CASE Logs
  <2>1. PICK ok \in BOOLEAN, d \in Linked, run \in Run :
          /\ Perform({loadCICDLogsCmd(d, run)}, {})
          /\ m' = IF ~m.modal.open \/ m.modal.project # d THEN m
                  ELSE [m EXCEPT !.modal.loading = FALSE,
                                 !.modal.lines = IF ok THEN <<d, run>> ELSE @]
    BY <1>4 DEF Logs, CICDLogsFetched, Apply
  <2>2. loadCICDLogsCmd(d, run)[1] = "logs" /\ loadCICDLogsCmd(d, run)[2] = d
    BY DEF loadCICDLogsCmd
  <2>3. CASE ~m.modal.open \/ m.modal.project # d
    <3>1. m' = m
      BY <2>1, <2>3
    <3>2. m.modal.loading => d # m.modal.project
      BY <2>3 DEF Locks
    <3>3. Lines'
      BY <3>1 DEF Lines
    <3>4. QED
      BY <1>1, <2>1, <2>2, <3>1, <3>2, <3>3
  <2>4. CASE m.modal.open /\ m.modal.project = d
    <3> DEFINE modal == [m.modal EXCEPT !.loading = FALSE,
                                        !.lines = IF ok THEN <<d, run>> ELSE @]
    <3>1. m' = [m EXCEPT !.modal = modal]
      BY <1>0, <2>1, <2>4 DEF Shaped
    <3>2. /\ DOMAIN modal = DOMAIN m.modal /\ modal.loading = FALSE
          /\ modal.project = m.modal.project /\ modal.lines \in {<<d, run>>, m.modal.lines}
      BY DEF Shaped
    <3> HIDE DEF modal
    <3>3. /\ DOMAIN m' = DOMAIN m /\ m'.cfg = m.cfg /\ m'.import = m.import
          /\ m'.saving = m.saving /\ m'.state = m.state /\ m'.wizard = m.wizard
          /\ m'.modal = modal
      BY <1>0, <3>1
    <3>4. Lines'
      BY <2>4, <3>2, <3>3 DEF Lines
    <3>5. QED
      BY <1>1, <2>1, <2>2, <3>2, <3>3, <3>4
  <2>5. QED
    BY <2>3, <2>4
<1>5. QED
  BY <1>2, <1>3, <1>4

LEMMA ImportSteps ==
    ASSUME CockpitInv, KeyImport \/ KeyImportBack \/ Scan \/ KeyImportAll \/ Import
    PROVE  CockpitInv' /\ Grows
<1> USE DEF CockpitInv
<1>0. DOMAIN m = {"state", "tab", "sel", "focused", "offsets", "cfg", "form", "catalog",
                  "saving", "resume", "import", "running", "modal", "live", "statuses", "runs",
                  "wizard"}
  BY DEF Shaped
<1>1. ASSUME NEW done, NEW cmds, Perform(done, cmds), ~Starting, ~Sent("profile"),
             \A c \in cmds : c[1] \in {"scan", "import", "refresh"},
             \A e \in done : e[1] \in {"scan", "import"},
             DOMAIN m' = DOMAIN m, IsConfig(m'.cfg), m'.modal = m.modal,
             m'.saving = m.saving, m'.state # "Init", m'.wizard = m.wizard,
             m'.state = "Resume" => m.state = "Resume",
             DOMAIN m'.import = DOMAIN m.import,
             m'.import.loading => \/ m.import.loading /\ \A e \in done : e[1] # "scan"
                                  \/ \E c \in cmds : c[1] = "scan",
             m'.import.saving => \/ m.import.saving /\ \A e \in done : e[1] # "import"
                                 \/ \E c \in cmds : c[1] = "import",
             Fixed(m'.cfg) = Fixed(m.cfg), m'.import.rows \subseteq Panel,
             \A c \in cmds : c[1] = "import" => Agrees(c)
      PROVE  CockpitInv' /\ Grows
  <2>1. JobStep(done, cmds)
    BY <1>1, Performed DEF Shaped
  <2>2. Shaped'
    BY <1>1, <2>1 DEF Shaped, JobStep, IsConfig
  <2>3. \A e \in done : e[1] # "profile" /\ e[1] # "logs"
    BY <1>1
  <2>4. Locks'
    <3>1. WizardWaits(done, cmds)
      BY <1>1 DEF WizardWaits
    <3>2. QED
      BY <1>1, <2>1, <2>3, <3>1, KeepLocks
  <2>5. Lines'
    BY <1>1 DEF Lines
  <2>6. StartsAlone' /\ (Starting' => Starting)
    BY <1>1, <2>1, KeepStarts DEF Starting
  <2>7. SavesAlone'
    BY <1>1, <2>1, KeepSaves
  <2>8. SavesAgree'
    BY <1>1, <2>1, KeepAgreed
  <2>9. ResumeFirst'
    BY <1>1, <2>6, KeepResume
  <2>10. QED
    BY <1>1, <2>1, <2>2, <2>4, <2>5, <2>6, <2>7, <2>8, <2>9 DEF Grows, Fixed
<1>2. ASSUME m'.cfg = m.cfg PROVE Fixed(m'.cfg) = Fixed(m.cfg) /\ IsConfig(m'.cfg)
  BY <1>2 DEF Shaped, IsConfig
<1>3. ASSUME Ready, m.state # "Init" PROVE ~Starting /\ ~Sent("profile")
  BY <1>3, NoProfile DEF Ready, Starting, InJobs
<1>4. ASSUME NEW tag \in {"scan", "import"}, Sent(tag)
      PROVE  ~Starting /\ ~Sent("profile") /\ m.state # "Init"
  <2>1. ~Starting /\ m.state # "Init"
    BY <1>4 DEF StartsAlone, SavesAlone, Unsaved, Started
  <2>2. QED
    BY <2>1, NoProfile
<1>5. DOMAIN NoImport = DOMAIN m.import /\ ~NoImport.loading /\ ~NoImport.saving
      /\ NoImport.rows = {}
  BY DEF NoImport, Shaped
<1>6. CASE KeyImport
  <2> DEFINE job == <<"scan", ToSet(m.cfg.projects)>>
  <2>1. /\ m' = [m EXCEPT !.state = "Import", !.import = [NoImport EXCEPT !.loading = TRUE]]
        /\ Perform({}, {job}) /\ Ready /\ m.state = "Dashboard"
    BY <1>6 DEF KeyImport, Become, OnDashboard, On
  <2>2. /\ DOMAIN m' = DOMAIN m /\ m'.cfg = m.cfg /\ m'.modal = m.modal
        /\ m'.saving = m.saving /\ m'.state = "Import" /\ m'.wizard = m.wizard
        /\ m'.import = [NoImport EXCEPT !.loading = TRUE]
    BY <1>0, <2>1
  <2>3. /\ DOMAIN m'.import = DOMAIN m.import /\ ~m'.import.saving /\ m'.import.rows = {}
    BY <2>2 DEF NoImport, Shaped
  <2>4. job[1] = "scan"
    OBVIOUS
  <2> HIDE DEF job
  <2>5. ~Starting /\ ~Sent("profile") /\ Fixed(m'.cfg) = Fixed(m.cfg) /\ IsConfig(m'.cfg)
    BY <1>2, <1>3, <2>1, <2>2
  <2>6. m'.import.rows \subseteq Panel /\ \A c \in {job} : c[1] = "scan"
    BY <2>3, <2>4
  <2>7. /\ DOMAIN m' = DOMAIN m /\ m'.modal = m.modal /\ m'.saving = m.saving
        /\ m'.state # "Init" /\ m'.wizard = m.wizard
        /\ m'.state = "Resume" => m.state = "Resume"
    BY <2>2
  <2>8. /\ m'.import.loading => \E c \in {job} : c[1] = "scan"
        /\ \A c \in {job} : c[1] \in {"scan", "import", "refresh"}
        /\ \A c \in {job} : c[1] = "import" => Agrees(c)
    BY <2>4
  <2>9. Perform({}, {job}) /\ DOMAIN m'.import = DOMAIN m.import /\ ~m'.import.saving
    BY <2>1, <2>3
  <2>10. QED
    BY <1>1, <2>5, <2>6, <2>7, <2>8, <2>9
<1>7. CASE KeyImportBack
  <2>1. /\ m' = [m EXCEPT !.state = "Dashboard", !.import = NoImport]
        /\ Perform({}, {}) /\ Ready /\ m.state = "Import"
    BY <1>7 DEF KeyImportBack, OnImport, On, Become
  <2>2. /\ DOMAIN m' = DOMAIN m /\ m'.cfg = m.cfg /\ m'.modal = m.modal
        /\ m'.saving = m.saving /\ m'.state = "Dashboard" /\ m'.import = NoImport
        /\ m'.wizard = m.wizard
    BY <1>0, <2>1
  <2>3. QED
    BY <1>1, <1>2, <1>3, <1>5, <2>1, <2>2
<1>8. CASE Scan
  <2>1. PICK job \in InJobs, listed \in SUBSET Panel :
          /\ job[1] = "scan" /\ Perform({job}, {})
          /\ \/ m' = [m EXCEPT !.state = "Import",
                               !.import = [NoImport EXCEPT !.rows =
                                             unmanagedRows(listed, job[2])]]
             \/ m' = [m EXCEPT !.state = "Dashboard", !.import = NoImport]
    BY <1>8 DEF Scan, ImportScanned, Apply, InJobs
  <2>2. Sent("scan")
    BY <2>1 DEF Sent
  <2>3. /\ DOMAIN m' = DOMAIN m /\ m'.cfg = m.cfg /\ m'.modal = m.modal
        /\ m'.saving = m.saving /\ m'.wizard = m.wizard
        /\ m'.state \in {"Import", "Dashboard"}
        /\ m'.import \in {NoImport, [NoImport EXCEPT !.rows = unmanagedRows(listed, job[2])]}
    BY <1>0, <2>1
  <2>4. /\ DOMAIN m'.import = DOMAIN m.import /\ ~m'.import.loading /\ ~m'.import.saving
        /\ m'.import.rows \subseteq Panel
    BY <2>3 DEF NoImport, Shaped, unmanagedRows
  <2>5. QED
    BY <1>1, <1>2, <1>4, <2>1, <2>2, <2>3, <2>4
<1>9. CASE KeyImportAll
  <2> DEFINE rows == m.import.rows
  <2> DEFINE cfg == [m.cfg EXCEPT !.projects = @ \o SetToSeq(rows)]
  <2> DEFINE job == <<"import", cfg>>
  <2>1. /\ m' = [m EXCEPT !.import.saving = TRUE] /\ Perform({}, {job})
        /\ Ready /\ m.state = "Import" /\ rows # {}
    BY <1>9 DEF KeyImportAll, OnImport, On, Become
  <2>2. /\ DOMAIN m' = DOMAIN m /\ m'.cfg = m.cfg /\ m'.modal = m.modal
        /\ m'.saving = m.saving /\ m'.state = "Import" /\ m'.wizard = m.wizard
        /\ m'.import = [m.import EXCEPT !.saving = TRUE]
    BY <1>0, <2>1
  <2>3. /\ DOMAIN m'.import = DOMAIN m.import /\ m'.import.rows = rows
        /\ m'.import.loading = m.import.loading
    BY <2>2 DEF Shaped
  <2>4. rows \subseteq Panel
    BY DEF SavesAgree
  <2>5. IsConfig(cfg) /\ Fixed(cfg) = Fixed(m.cfg)
    <3>1. IsFiniteSet(rows) /\ rows \subseteq Domain
      BY <2>4, FS_Subset, CockpitAssumption
    <3>2. SetToSeq(rows) \in Seq(rows) /\ ToSet(SetToSeq(rows)) = rows
      BY <3>1, Listed
    <3>3. SetToSeq(rows) \in Seq(Domain)
      BY <3>1, <3>2
    <3> DEFINE t == SetToSeq(rows)
    <3> DEFINE s == m.cfg.projects
    <3>4. s \in Seq(Domain) /\ DOMAIN m.cfg = {"profiles", "projects"}
      BY DEF Shaped, IsConfig
    <3> HIDE DEF t, s
    <3>5. s \o t \in Seq(Domain) /\ ToSet(s \o t) = ToSet(s) \cup ToSet(t)
      BY <3>3, <3>4, Appended DEF t
    <3>6. DOMAIN cfg = {"profiles", "projects"} /\ cfg.projects = s \o t
      BY <3>4 DEF s, t
    <3>7. ToSet(t) = rows
      BY <3>2 DEF t
    <3> HIDE DEF cfg, rows
    <3>8. Fixed(cfg) = Fixed(m.cfg)
      BY <2>4, <3>5, <3>6, <3>7 DEF s, Fixed
    <3>9. QED
      BY <3>5, <3>6, <3>8 DEF IsConfig
  <2> HIDE DEF cfg
  <2>6. job[1] = "import" /\ job[2] = cfg
    OBVIOUS
  <2>7. Agrees(job)
    BY <2>5, <2>6 DEF Agrees
  <2> HIDE DEF job, rows
  <2>8. ~Starting /\ ~Sent("profile") /\ Fixed(m'.cfg) = Fixed(m.cfg) /\ IsConfig(m'.cfg)
    BY <1>2, <1>3, <2>1, <2>2
  <2>9. /\ DOMAIN m' = DOMAIN m /\ m'.modal = m.modal /\ m'.saving = m.saving
        /\ m'.state # "Init" /\ m'.wizard = m.wizard
        /\ m'.state = "Resume" => m.state = "Resume"
    BY <2>2
  <2>10. /\ m'.import.loading => m.import.loading /\ \A e \in {} : e[1] # "scan"
         /\ m'.import.saving => \E c \in {job} : c[1] = "import"
         /\ \A c \in {job} : c[1] \in {"scan", "import", "refresh"}
         /\ \A c \in {job} : c[1] = "import" => Agrees(c)
    BY <2>3, <2>6, <2>7
  <2>11. /\ Perform({}, {job}) /\ DOMAIN m'.import = DOMAIN m.import
         /\ m'.import.rows \subseteq Panel
    BY <2>1, <2>3, <2>4
  <2>12. QED
    BY <1>1, <2>8, <2>9, <2>10, <2>11
<1>10. CASE ImportPersisted
  <2>1. PICK job, x :
          /\ job \in InJobs /\ job[1] = "import" /\ m' = x
          /\ Perform({job}, {refreshVisibleProjects(x)})
          /\ x = [m EXCEPT !.cfg = job[2], !.state = "Dashboard", !.import = NoImport]
    BY <1>10 DEF ImportPersisted, InJobs
  <2>2. /\ DOMAIN m' = DOMAIN m /\ m'.cfg = job[2] /\ m'.modal = m.modal
        /\ m'.saving = m.saving /\ m'.state = "Dashboard" /\ m'.import = NoImport
        /\ m'.wizard = m.wizard
    BY <1>0, <2>1
  <2>3. Agrees(job)
    BY <2>1 DEF SavesAgree
  <2>4. Fixed(m'.cfg) = Fixed(m.cfg) /\ IsConfig(m'.cfg)
    BY <2>2, <2>3 DEF Agrees, Fixed, IsConfig
  <2>5. refreshVisibleProjects(x)[1] = "refresh"
    BY DEF refreshVisibleProjects
  <2>6. Sent("import")
    BY <2>1 DEF Sent
  <2>7. QED
    BY <1>1, <1>4, <1>5, <2>1, <2>2, <2>4, <2>5, <2>6
<1>11. CASE ImportPersistFailed
  <2>1. PICK job \in InJobs :
          job[1] = "import" /\ Perform({job}, {}) /\ m' = [m EXCEPT !.import.saving = FALSE]
    BY <1>11 DEF ImportPersistFailed, Apply, InJobs
  <2>2. /\ DOMAIN m' = DOMAIN m /\ m'.cfg = m.cfg /\ m'.modal = m.modal
        /\ m'.saving = m.saving /\ m'.state = m.state /\ m'.wizard = m.wizard
        /\ m'.import = [m.import EXCEPT !.saving = FALSE]
    BY <1>0, <2>1
  <2>3. /\ DOMAIN m'.import = DOMAIN m.import /\ m'.import.rows = m.import.rows
        /\ m'.import.loading = m.import.loading /\ ~m'.import.saving
    BY <2>2 DEF Shaped
  <2>4. m'.import.rows \subseteq Panel
    BY <2>3 DEF SavesAgree
  <2>5. Sent("import")
    BY <2>1 DEF Sent
  <2>6. /\ ~Starting /\ ~Sent("profile") /\ m.state # "Init"
        /\ Fixed(m'.cfg) = Fixed(m.cfg) /\ IsConfig(m'.cfg)
    BY <1>2, <1>4, <2>2, <2>5
  <2>7. /\ DOMAIN m' = DOMAIN m /\ m'.modal = m.modal /\ m'.saving = m.saving
        /\ m'.state # "Init" /\ m'.wizard = m.wizard
        /\ m'.state = "Resume" => m.state = "Resume"
    BY <2>2, <2>6
  <2>8. /\ m'.import.loading => m.import.loading /\ \A e \in {job} : e[1] # "scan"
        /\ \A e \in {job} : e[1] \in {"scan", "import"}
    BY <2>1, <2>3
  <2>9. Perform({job}, {}) /\ DOMAIN m'.import = DOMAIN m.import /\ ~m'.import.saving
    BY <2>1, <2>3
  <2>10. QED
    BY <1>1, <2>4, <2>6, <2>7, <2>8, <2>9
<1>12. QED
  BY <1>6, <1>7, <1>8, <1>9, <1>10, <1>11 DEF Import

-----------------------------------------------------------------------------
(* The new-project wizard.                                                 *)

\* What starts an execution, a rollback or a check, and their replies: a
\* check's may come while the wizard executes, and an execution's puts its own
\* configuration in place of whatever is there by then.
LEMMA WizardSteps ==
    ASSUME CockpitInv,
           KeyCheckDomain \/ KeyWizardRollback \/ (\E d \in Panel : KeyExecute(d)) \/ Wizard
    PROVE  CockpitInv' /\ Grows
<1> USE DEF CockpitInv
<1>0. DOMAIN m = {"state", "tab", "sel", "focused", "offsets", "cfg", "form", "catalog",
                  "saving", "resume", "import", "running", "modal", "live", "statuses", "runs",
                  "wizard"}
  BY DEF Shaped
<1>1. ASSUME Ready, m.state # "Init" PROVE ~Starting /\ ~Sent("profile")
  BY <1>1, NoProfile DEF Ready, Starting, InJobs
<1>2. ASSUME NEW tag \in {"check", "execute"}, Sent(tag)
      PROVE  ~Starting /\ ~Sent("profile") /\ m.state # "Init"
  <2>1. ~Starting /\ m.state # "Init"
    BY <1>2 DEF StartsAlone, SavesAlone, Unsaved, Started
  <2>2. QED
    BY <2>1, NoProfile
<1>3. CASE KeyCheckDomain
  <2>1. m' = m /\ Perform({}, {<<"check">>}) /\ Ready /\ m.state = "Wizard"
    BY <1>3 DEF KeyCheckDomain, OnWizard, On, Become
  <2>2. WizardWaits({}, {<<"check">>}) /\ Same(m')
    BY <2>1 DEF WizardWaits, Same
  <2>3. QED
    BY <1>1, <2>1, <2>2, Harmless
<1>4. CASE KeyWizardRollback
  <2>1. /\ m' = [m EXCEPT !.wizard = "RollingBack"] /\ Perform({}, {<<"rollback">>})
        /\ Ready /\ m.state = "Wizard"
    BY <1>4 DEF KeyWizardRollback, OnWizard, On, Become
  <2>2. Same(m') /\ m'.state = m.state /\ m'.wizard = "RollingBack"
    BY <1>0, <2>1 DEF Same
  <2>3. WizardWaits({}, {<<"rollback">>})
    BY <2>2 DEF WizardWaits
  <2>4. QED
    BY <1>1, <2>1, <2>2, <2>3, Harmless
<1>5. ASSUME NEW d \in Panel, KeyExecute(d) PROVE CockpitInv' /\ Grows
  <2> DEFINE cfg == [m.cfg EXCEPT !.projects = Append(@, d)]
  <2> DEFINE job == <<"execute", cfg>>
  <2>1. /\ m' = [m EXCEPT !.wizard = "Executing"] /\ Perform({}, {job})
        /\ Ready /\ m.state = "Wizard"
    BY <1>5 DEF KeyExecute, OnWizard, On, Become
  <2>2. IsConfig(cfg) /\ Fixed(cfg) = Fixed(m.cfg)
    <3> DEFINE s == m.cfg.projects
    <3>1. s \in Seq(Domain) /\ DOMAIN m.cfg = {"profiles", "projects"}
      BY DEF Shaped, IsConfig
    <3>2. d \in Domain
      BY CockpitAssumption
    <3>3. cfg.projects = Append(s, d) /\ DOMAIN cfg = {"profiles", "projects"}
      BY <3>1
    <3> HIDE DEF s, cfg
    <3>4. /\ Append(s, d) \in Seq(Domain) /\ Len(Append(s, d)) = Len(s) + 1
          /\ \A i \in 1..Len(s) : Append(s, d)[i] = s[i]
          /\ Append(s, d)[Len(s) + 1] = d /\ Len(s) \in Nat
      BY <3>1, <3>2
    <3> DEFINE t == Append(s, d)
    <3> HIDE DEF t
    <3>5. /\ DOMAIN t = 1..Len(s) + 1 /\ DOMAIN s = 1..Len(s)
          /\ \A i \in 1..Len(s) : t[i] = s[i]
          /\ t[Len(s) + 1] = d
      BY <3>1, <3>4 DEF t
    <3>6. ToSet(t) = ToSet(s) \cup {d}
      <4>1. \A i : i \in 1..Len(s) + 1 <=> i \in 1..Len(s) \/ i = Len(s) + 1
        BY <3>4
      <4>2. QED
        BY <3>5, <4>1 DEF ToSet
    <3>7. QED
      BY <3>3, <3>4, <3>6 DEF IsConfig, Fixed, s, t
  <2> HIDE DEF cfg
  <2>3. job[1] = "execute" /\ job[2] = cfg
    OBVIOUS
  <2> HIDE DEF job
  <2>4. Agrees(job)
    BY <2>2, <2>3 DEF Agrees
  <2>5. Same(m') /\ m'.state = m.state /\ m'.wizard = "Executing"
    BY <1>0, <2>1 DEF Same
  <2>6. WizardWaits({}, {job})
    BY <2>3, <2>5 DEF WizardWaits
  <2>7. QED
    BY <1>1, <2>1, <2>3, <2>4, <2>5, <2>6, Harmless
<1>6. ASSUME NEW ok \in BOOLEAN, DomainChecked(ok) PROVE CockpitInv' /\ Grows
  <2>1. /\ Perform({<<"check">>}, {}) /\ <<"check">> \in InJobs
        /\ m' \in {m, [m EXCEPT !.wizard = "Review"]}
    BY <1>6 DEF DomainChecked, Apply, InFlight, BagIn, InJobs
  <2>2. Sent("check")
    BY <2>1 DEF Sent
  <2>3. Same(m') /\ m'.state = m.state /\ m'.wizard \in {m.wizard, "Review"}
    BY <1>0, <2>1 DEF Same
  <2>4. WizardWaits({<<"check">>}, {})
    BY <2>3 DEF WizardWaits
  <2>5. QED
    BY <1>2, <2>1, <2>2, <2>3, <2>4, Harmless
<1>7. ASSUME NEW ok \in BOOLEAN, Executed(ok) PROVE CockpitInv' /\ Grows
  <2>1. PICK job, x, cmds :
          /\ job \in InJobs /\ job[1] = "execute" /\ Perform({job}, cmds) /\ m' = x
          /\ \/ /\ x = [m EXCEPT !.cfg = job[2], !.state = "Dashboard",
                                 !.sel = Len(job[2].projects) - 1, !.wizard = "Done"]
                /\ cmds = {refreshVisibleProjects(x)}
             \/ x = [m EXCEPT !.wizard = "Failure"] /\ cmds = {}
    BY <1>7 DEF Executed, Apply, InJobs
  <2>2. ~Starting /\ ~Sent("profile") /\ m.state # "Init"
    BY <1>2, <2>1 DEF Sent
  <2>3. \A c \in cmds : c[1] = "refresh"
    BY <2>1 DEF refreshVisibleProjects
  <2>4. Agrees(job) /\ IsConfig(m.cfg)
    BY <2>1 DEF SavesAgree, Shaped
  <2>5. /\ DOMAIN m' = DOMAIN m /\ m'.cfg \in {m.cfg, job[2]} /\ m'.import = m.import
        /\ m'.modal = m.modal /\ m'.saving = m.saving
        /\ m'.state \in {m.state, "Dashboard"} /\ m'.wizard \in {"Failure", "Done"}
    BY <1>0, <2>1
  <2>6. IsConfig(m'.cfg) /\ Fixed(m'.cfg) = Fixed(m.cfg)
    BY <2>4, <2>5 DEF Agrees, IsConfig, Fixed
  <2>7. JobStep({job}, cmds)
    BY <2>1, Performed DEF Shaped
  <2>8. WizardWaits({job}, cmds)
    BY <2>5 DEF WizardWaits
  <2>9. Shaped' /\ Lines'
    BY <2>5, <2>6, <2>7 DEF Shaped, Lines, JobStep
  <2>10. Locks'
    BY <2>1, <2>5, <2>7, <2>8, KeepLocks
  <2>11. StartsAlone' /\ (Starting' => Starting)
    BY <2>2, <2>3, <2>7, KeepStarts DEF Starting
  <2>12. SavesAlone'
    BY <2>2, <2>3, <2>5, <2>7, KeepSaves
  <2>13. SavesAgree'
    BY <2>3, <2>5, <2>6, <2>7, KeepAgreed DEF SavesAgree
  <2>14. ResumeFirst'
    BY <2>5, <2>11, KeepResume
  <2>15. QED
    BY <2>6, <2>9, <2>10, <2>11, <2>12, <2>13, <2>14 DEF Grows, Fixed
<1>8. QED
  BY <1>3, <1>4, <1>5, <1>6, <1>7 DEF Wizard
-----------------------------------------------------------------------------
(* The invariant, and what it gives.                                       *)

\* The fresh Model has no lock, and the two files are read once each.
LEMMA CockpitInvInit == Init => CockpitInv
<1> SUFFICES ASSUME Init PROVE CockpitInv
  OBVIOUS
<1> DEFINE files == {<<"config">>, <<"pending">>}
<1>1. m = NewModel /\ jobs = SetToBag(files)
  BY DEF Init
<1>2. /\ InJobs = files /\ \A job \in files : jobs[job] = 1
      /\ jobs = [job \in files |-> 1]
  BY <1>1 DEF InJobs, BagToSet, SetToBag
<1>3. IsABag(jobs)
  BY <1>2 DEF IsABag
<1>4. /\ DOMAIN m = {"state", "tab", "sel", "focused", "offsets", "cfg", "form", "catalog",
                     "saving", "resume", "import", "running", "modal", "live", "statuses",
                     "runs", "wizard"}
      /\ m.cfg = NoConfig /\ m.import = NoImport /\ m.modal = NoModal
      /\ m.saving = FALSE /\ m.state = "Dashboard" /\ m.wizard = "Domain"
  BY <1>1 DEF NewModel
<1>5. Shaped
  BY <1>3, <1>4 DEF Shaped, IsConfig, NoConfig, NoImport, NoModal
<1>6. Locks /\ Lines
  BY <1>4 DEF Locks, Lines, NoImport, NoModal
<1>7. \A tag \in Started \cup {"execute"} : ~Sent(tag)
  BY <1>2 DEF Sent, Started
<1>8. StartsAlone
  BY <1>2, <1>4, <1>7 DEF StartsAlone, NoConfig, NoImport
<1>9. SavesAlone /\ ResumeFirst
  BY <1>4, <1>7 DEF SavesAlone, ResumeFirst, Sent, Started
<1>10. SavesAgree
  BY <1>4, <1>7 DEF SavesAgree, NoImport, Sent, Started
<1>11. QED
  BY <1>5, <1>6, <1>8, <1>9, <1>10 DEF CockpitInv

\* One step of the operator, of a reply or of a timer.
LEMMA CockpitInvNext ==
    ASSUME CockpitInv, [Next]_vars
    PROVE  CockpitInv' /\ (Awake' => Grows)
<1>1. CASE UNCHANGED vars
  <2>1. m' = m /\ jobs' = jobs
    BY <1>1 DEF vars
  <2>2. QED
    BY <2>1 DEF CockpitInv, Shaped, Locks, Lines, StartsAlone, ResumeFirst, SavesAlone,
                SavesAgree, Agrees, Fixed, IsConfig, InJobs, Sent, Starting, Grows
<1>2. CASE KeyQuit
  BY <1>2, EndStep DEF KeyQuit
<1>3. CASE KeyHome
  BY <1>1, <1>3, EndStep DEF KeyHome
<1>4. CASE KeyCatalogMove(RowAbove(CatalogRows, SelectedRow))
           \/ KeyCatalogMove(RowBelow(CatalogRows, SelectedRow))
  <2>1. \E row : KeyCatalogMove(row)
    BY <1>4
  <2>2. QED
    BY <2>1, QuietKeys, Zenon
<1>5. CASE \/ KeyTab \/ KeyUnfocus \/ ScrollTile \/ KeyAdvance \/ KeyStepBack
           \/ (\E fits \in BOOLEAN : KeyType(fits)) \/ KeyDiscard \/ KeyOpen
           \/ KeyCatalog \/ KeyCatalogBack \/ KeyCatalogDetail \/ KeyCatalogCopy
           \/ Click \/ KeyDetailBack \/ KeyLiveLogs \/ KeyLeaveLogs
           \/ KeyNew \/ KeyWizardBack \/ KeyWizardLeave
  BY <1>5, QuietKeys, Zenon
<1>6. CASE \/ KeyRollback \/ KeyConfirmDiscard \/ (\E up \in BOOLEAN : KeySelect(up))
           \/ (\E kind \in ActionKind : KeyAction(kind)) \/ RefreshTick \/ CICDTick
           \/ (\E projects \in SUBSET Watched : StatusRefreshed(projects)) \/ CICDFetched
           \/ Action \/ Rollback \/ Discard
  BY <1>6, HarmlessSteps, Zenon
<1>7. CASE Config \/ Pending
  BY <1>7, StartSteps
<1>8. CASE KeySaveProfile \/ Profile
  BY <1>8, ProfileSteps
<1>9. CASE KeyOpenLogs \/ KeyCloseLogs \/ Logs
  BY <1>9, ModalSteps
<1>10. CASE KeyImport \/ KeyImportBack \/ Scan \/ KeyImportAll \/ Import
  BY <1>10, ImportSteps
<1>11. CASE KeyCheckDomain \/ KeyWizardRollback \/ (\E d \in Panel : KeyExecute(d)) \/ Wizard
  BY <1>11, WizardSteps
<1>12. QED
  BY <1>1, <1>2, <1>3, <1>4, <1>5, <1>6, <1>7, <1>8, <1>9, <1>10, <1>11, Zenon
     DEF Next, Operator

LEMMA CockpitInvHolds == Spec => []CockpitInv
<1>1. CockpitInv /\ [Next]_vars => CockpitInv'
  BY CockpitInvNext
<1>2. QED
  BY CockpitInvInit, <1>1, PTL DEF Spec

\* A screen that ignores keys while it waits is never left waiting: the reply
\* that opens it again is in flight (handleInitKey, handleImportKey and the
\* log modal of tui/update.go), for any projects, runs and timers.
THEOREM LocksAreReleased == Spec => []LockHasReply
<1>1. CockpitInv => LockHasReply
  BY DEF CockpitInv, Locks, LockHasReply, Sent, InJobs
<1>2. QED
  BY CockpitInvHolds, <1>1, PTL

\* The log modal never shows lines of another project than its title names,
\* however late replies arrive (applyCICDLogsFetched).
THEOREM ModalShowsItsProject == Spec => []ModalLinesOfProject
<1>1. CockpitInv => ModalLinesOfProject
  BY DEF CockpitInv, Lines, ModalLinesOfProject
<1>2. QED
  BY CockpitInvHolds, <1>1, PTL

\* A project that only config.json can have brought is never forgotten, however
\* late a save is applied whose configuration was captured before other saves
\* (applyInitPersisted, applyImportPersisted, applyExecution).  Of a project
\* imported or made in the session this is false.
THEOREM ProjectsAreKept == Spec => ConfiguredKept
<1>1. CockpitInv /\ [Next]_vars =>
          [Awake' => ToSet(m.cfg.projects) \ Panel \subseteq ToSet(m'.cfg.projects)]_vars
  BY CockpitInvNext DEF Grows, Fixed
<1>2. QED
  BY CockpitInvHolds, <1>1, PTL DEF Spec, ConfiguredKept
-----------------------------------------------------------------------------
(* Statuses: what the refresh timers promise is in the Model or under way. *)

\* A project has a status, or a command in flight that brings it.
Covered(d) == d \in m.statuses \/ \E job \in InJobs : job[1] = "refresh" /\ d \in job[2]

\* No timer runs before the configuration has been read: the reply that does
\* not schedule one, as a snapshot waits, adds projects to no promise.
StatusInv ==
    /\ <<"config">> \in InJobs => timers.refresh = 0
    /\ timers.refresh > 0 => \A d \in ToSet(m.cfg.projects) \cap Watched : Covered(d)

\* A step that leaves rows, statuses and timers as they are, and consumes no
\* status reply.
LEMMA SteadyStep ==
    ASSUME CockpitInv, StatusInv, NEW done, NEW cmds, Perform(done, cmds),
           \A c \in cmds : c[1] # "config", \A e \in done : e[1] # "refresh",
           m'.cfg.projects = m.cfg.projects, m'.statuses = m.statuses,
           timers'.refresh = timers.refresh
    PROVE  StatusInv'
<1>1. JobStep(done, cmds)
  BY Performed DEF CockpitInv, Shaped
<1>2. <<"config">> \in InJobs' => <<"config">> \in InJobs
  BY <1>1 DEF JobStep
<1>3. \A d : Covered(d) => Covered(d)'
  BY <1>1 DEF Covered, JobStep
<1>4. QED
  BY <1>2, <1>3 DEF StatusInv

\* A step that starts a refresh of the rows it leaves.
LEMMA RefreshStep ==
    ASSUME CockpitInv, NEW done, NEW cmds, Perform(done, cmds),
           refreshVisibleProjects(m') \in cmds, \A c \in cmds : c[1] # "config",
           <<"config">> \in InJobs => <<"config">> \in done
    PROVE  StatusInv'
<1>1. JobStep(done, cmds)
  BY Performed DEF CockpitInv, Shaped
<1>2. <<"config">> \notin InJobs'
  BY <1>1 DEF JobStep, CockpitInv, StartsAlone
<1>3. \A d \in ToSet(m'.cfg.projects) \cap Watched : Covered(d)'
  BY <1>1 DEF Covered, JobStep, refreshVisibleProjects
<1>4. QED
  BY <1>2, <1>3 DEF StatusInv

\* Keys: none changes the rows.
LEMMA StatusKeys ==
    ASSUME CockpitInv, StatusInv,
           \/ KeyTab \/ KeyUnfocus \/ ScrollTile \/ KeyAdvance \/ KeyStepBack
           \/ (\E fits \in BOOLEAN : KeyType(fits)) \/ KeySaveProfile
           \/ KeyRollback \/ KeyDiscard \/ KeyConfirmDiscard
           \/ (\E up \in BOOLEAN : KeySelect(up)) \/ KeyOpen \/ KeyImport
           \/ KeyCatalog \/ KeyCatalogBack \/ (\E row : KeyCatalogMove(row))
           \/ KeyCatalogDetail \/ KeyCatalogCopy \/ KeyOpenLogs \/ KeyCloseLogs \/ Click
           \/ KeyDetailBack \/ KeyLiveLogs \/ KeyLeaveLogs
           \/ (\E kind \in ActionKind : KeyAction(kind))
           \/ KeyImportBack \/ KeyImportAll \/ KeyNew \/ KeyCheckDomain \/ KeyWizardBack
           \/ KeyWizardLeave \/ KeyWizardRollback \/ (\E d \in Panel : KeyExecute(d))
           \/ RefreshTick \/ CICDTick
    PROVE  StatusInv'
<1>0. DOMAIN m = {"state", "tab", "sel", "focused", "offsets", "cfg", "form", "catalog",
                  "saving", "resume", "import", "running", "modal", "live", "statuses", "runs",
                  "wizard"}
  BY DEF CockpitInv, Shaped
<1>1. ASSUME NEW x, NEW cmds, Become(x, cmds), x.cfg = m.cfg, x.statuses = m.statuses,
             \A c \in cmds : c[1] # "config"
      PROVE  StatusInv'
  <2>1. m' = x /\ Perform({}, cmds) /\ timers' = timers
    BY <1>1 DEF Become
  <2>2. QED
    BY <1>1, <2>1, SteadyStep
<1>2. \A x : \A c \in pollCICDPipeline(x) : c[1] = "poll"
  BY DEF pollCICDPipeline
<1>25. ASSUME Perform({}, {}), UNCHANGED <<timers, uses>>, m'.cfg = m.cfg,
              m'.statuses = m.statuses
       PROVE  StatusInv'
  BY <1>25, SteadyStep
<1>3. /\ \A x : refreshVisibleProjects(x)[1] = "refresh"
      /\ \A kind, d : projectActionCmd(kind, d)[1] = "action"
      /\ \A d, run : loadCICDLogsCmd(d, run)[1] = "logs"
  BY DEF refreshVisibleProjects, projectActionCmd, loadCICDLogsCmd
<1>4. CASE KeyTab \/ KeyUnfocus \/ ScrollTile
  BY <1>0, <1>1, <1>4 DEF KeyTab, KeyUnfocus, ScrollTile
<1>5. CASE KeyAdvance \/ KeyStepBack \/ KeyDiscard
  BY <1>0, <1>1, <1>5 DEF KeyAdvance, KeyStepBack, KeyDiscard
<1>6. ASSUME NEW fits \in BOOLEAN, KeyType(fits) PROVE StatusInv'
  BY <1>0, <1>1, <1>6 DEF KeyType
<1>7. CASE KeySaveProfile
  <2>1. PICK job : job[1] = "profile" /\ Become([m EXCEPT !.saving = TRUE], {job})
    BY <1>7 DEF KeySaveProfile
  <2>2. QED
    BY <1>0, <1>1, <2>1
<1>8. CASE KeyRollback \/ KeyConfirmDiscard \/ KeyCheckDomain
  <2>1. PICK c \in {<<"rollback">>, <<"discard">>, <<"check">>} : Become(m, {c})
    BY <1>8 DEF KeyRollback, KeyConfirmDiscard, KeyCheckDomain
  <2>2. c[1] \in {"rollback", "discard", "check"}
    BY <2>1
  <2>3. QED
    BY <1>1, <2>1, <2>2
<1>9. ASSUME NEW up \in BOOLEAN, KeySelect(up) PROVE StatusInv'
  <2>1. PICK x : /\ x = [m EXCEPT !.sel = clampIndex(IF up THEN @ - 1 ELSE @ + 1, Len(m.cfg.projects))]
                 /\ Become(x, pollCICDPipeline(x))
    BY <1>9 DEF KeySelect
  <2>2. QED
    BY <1>0, <1>1, <1>2, <2>1
<1>10. CASE KeyOpen \/ KeyCatalog \/ KeyCatalogBack \/ KeyCloseLogs
  <2>1. CASE KeyOpen
    BY <1>0, <1>25, <2>1 DEF Become, KeyOpen, Drilled
  <2>2. CASE KeyCatalog
    BY <1>0, <1>25, <2>2 DEF Become, KeyCatalog
  <2>3. CASE KeyCatalogBack
    BY <1>0, <1>25, <2>3 DEF Become, KeyCatalogBack
  <2>4. CASE KeyCloseLogs
    BY <1>0, <1>25, <2>4 DEF Become, KeyCloseLogs
  <2>5. QED
    BY <1>10, <2>1, <2>2, <2>3, <2>4
<1>11. CASE KeyImport
  <2>1. PICK job : /\ job[1] = "scan"
                   /\ Become([m EXCEPT !.state = "Import",
                                       !.import = [NoImport EXCEPT !.loading = TRUE]], {job})
    BY <1>11 DEF KeyImport
  <2>2. QED
    BY <1>0, <1>1, <2>1
<1>12. ASSUME NEW row, KeyCatalogMove(row) PROVE StatusInv'
  BY <1>0, <1>25, <1>12 DEF Become, KeyCatalogMove
<1>13. CASE KeyCatalogDetail \/ KeyCatalogCopy
  <2>1. CASE KeyCatalogDetail
    BY <1>0, <1>25, <2>1 DEF Become, KeyCatalogDetail
  <2>2. CASE KeyCatalogCopy
    BY <1>0, <1>25, <2>2 DEF Become, KeyCatalogCopy
  <2>3. QED
    BY <1>13, <2>1, <2>2
<1>14. CASE KeyOpenLogs
  <2>1. PICK x, job : /\ x.cfg = m.cfg /\ x.statuses = m.statuses
                      /\ job[1] = "logs" /\ Become(x, {job})
    BY <1>0, <1>3, <1>14 DEF KeyOpenLogs
  <2>2. QED
    BY <1>1, <2>1
<1>15. CASE Click
  <2>1. PICK x : /\ Become(x, {})
                 /\ \/ \E row : x = Drilled([m EXCEPT !.sel = row - 1])
                    \/ x \in {[m EXCEPT !.focused = TRUE], Drilled(m),
                              [m EXCEPT !.state = "Dashboard"]}
    BY <1>15 DEF Click
  <2>2. x.cfg = m.cfg /\ x.statuses = m.statuses
    BY <1>0, <2>1 DEF Drilled
  <2>3. QED
    BY <1>1, <2>1, <2>2
<1>16. CASE KeyDetailBack \/ KeyLiveLogs \/ KeyLeaveLogs
  <2>1. CASE KeyDetailBack
    BY <1>0, <1>25, <2>1 DEF Become, KeyDetailBack
  <2>2. CASE KeyLiveLogs
    BY <1>0, <1>25, <2>2 DEF Become, KeyLiveLogs
  <2>3. CASE KeyLeaveLogs
    BY <1>0, <1>25, <2>3 DEF Become, KeyLeaveLogs
  <2>4. QED
    BY <1>16, <2>1, <2>2, <2>3
<1>17. ASSUME NEW kind \in ActionKind, KeyAction(kind) PROVE StatusInv'
  <2>1. PICK job : job[1] = "action" /\ Become([m EXCEPT !.running = TRUE], {job})
    BY <1>3, <1>17 DEF KeyAction
  <2>2. QED
    BY <1>0, <1>1, <2>1
<1>18. CASE KeyImportBack \/ KeyNew \/ KeyWizardBack \/ KeyWizardLeave
  <2>1. CASE KeyImportBack
    BY <1>0, <1>25, <2>1 DEF Become, KeyImportBack
  <2>2. CASE KeyNew
    BY <1>0, <1>25, <2>2 DEF Become, KeyNew
  <2>3. CASE KeyWizardBack
    BY <1>0, <1>25, <2>3 DEF Become, KeyWizardBack
  <2>4. CASE KeyWizardLeave
    BY <1>0, <1>25, <2>4 DEF Become, KeyWizardLeave
  <2>5. QED
    BY <1>18, <2>1, <2>2, <2>3, <2>4
<1>19. CASE KeyImportAll
  <2>1. PICK job : job[1] = "import" /\ Become([m EXCEPT !.import.saving = TRUE], {job})
    BY <1>19 DEF KeyImportAll
  <2>2. QED
    BY <1>0, <1>1, <2>1
<1>20. CASE KeyWizardRollback
  <2>1. /\ Become([m EXCEPT !.wizard = "RollingBack"], {<<"rollback">>})
        /\ <<"rollback">>[1] = "rollback"
    BY <1>20 DEF KeyWizardRollback
  <2>2. QED
    BY <1>0, <1>1, <2>1
<1>21. ASSUME NEW d \in Panel, KeyExecute(d) PROVE StatusInv'
  <2>1. PICK job : job[1] = "execute" /\ Become([m EXCEPT !.wizard = "Executing"], {job})
    BY <1>21 DEF KeyExecute
  <2>2. QED
    BY <1>0, <1>1, <2>1
<1>22. CASE RefreshTick
  <2>1. PICK cmds \in {{}, {refreshVisibleProjects(m)}} : Become(m, cmds)
    BY <1>22 DEF RefreshTick
  <2>2. QED
    BY <1>1, <1>3, <2>1
<1>23. CASE CICDTick
  BY <1>1, <1>2, <1>23 DEF CICDTick
<1>24. QED
  BY <1>4, <1>5, <1>6, <1>7, <1>8, <1>9, <1>10, <1>11, <1>12, <1>13, <1>14, <1>15, <1>16,
     <1>17, <1>18, <1>19, <1>20, <1>21, <1>22, <1>23

\* Replies: what changes the rows refreshes them, but for the configuration
\* that finds a snapshot, which schedules nothing.
LEMMA StatusReplies ==
    ASSUME CockpitInv, StatusInv,
           \/ Config \/ Pending \/ Profile \/ Rollback \/ Discard \/ Action \/ Scan
           \/ Import \/ Wizard \/ Logs \/ CICDFetched
           \/ (\E projects \in SUBSET Watched : StatusRefreshed(projects))
    PROVE  StatusInv'
<1>0. DOMAIN m = {"state", "tab", "sel", "focused", "offsets", "cfg", "form", "catalog",
                  "saving", "resume", "import", "running", "modal", "live", "statuses", "runs",
                  "wizard"}
  BY DEF CockpitInv, Shaped
<1>1. ASSUME NEW job, job[1] # "refresh", NEW x, NEW cmds, Apply(job, x, cmds),
             x.cfg = m.cfg, x.statuses = m.statuses, \A c \in cmds : c[1] # "config"
      PROVE  StatusInv'
  <2>1. m' = x /\ Perform({job}, cmds) /\ timers' = timers
    BY <1>1 DEF Apply
  <2>2. QED
    BY <1>1, <2>1, SteadyStep
<1> DEFINE Steady(job, cmds) == /\ Perform({job}, cmds) /\ UNCHANGED <<timers, uses>>
                               /\ m'.cfg = m.cfg /\ m'.statuses = m.statuses
<1>20. ASSUME NEW job, job[1] # "refresh", NEW cmds, Steady(job, cmds),
              \A c \in cmds : c[1] # "config"
       PROVE  StatusInv'
  BY <1>20, SteadyStep
<1>2. \A x : refreshVisibleProjects(x)[1] = "refresh"
  BY DEF refreshVisibleProjects
<1>3. ASSUME NEW job \in InJobs, job[1] \in Started, Perform({job}, {refreshVisibleProjects(m')})
      PROVE  StatusInv'
  <2>1. <<"config">> \notin InJobs
    BY <1>3 DEF CockpitInv, StartsAlone, Starting, Sent
  <2>2. QED
    BY <1>2, <1>3, <2>1, RefreshStep
<1>4. CASE ConfigLoaded
  <2> DEFINE cfg == [profiles |-> TRUE, projects |-> Configured]
  <2>1. CASE m.resume.snapshot # "none"
    <3>1. /\ Perform({<<"config">>}, {}) /\ timers' = timers /\ <<"config">> \in InJobs
      BY <1>4, <2>1 DEF ConfigLoaded, Apply, InFlight, BagIn, InJobs
    <3>2. timers'.refresh = 0
      BY <3>1 DEF StatusInv
    <3>3. QED
      BY <3>2 DEF StatusInv
  <2>2. CASE ~(m.resume.snapshot # "none")
    <3> DEFINE x == [m EXCEPT !.cfg = cfg, !.state = "Dashboard",
                              !.sel = clampIndex(@, Len(Configured))]
    <3> DEFINE cmds == {refreshVisibleProjects(x)} \cup pollCICDPipeline(x)
    <3>1. m' = x /\ Perform({<<"config">>}, cmds)
      BY <1>4, <2>2, Zenon DEF ConfigLoaded
    <3>2. \A c \in pollCICDPipeline(x) : c[1] = "poll"
      BY DEF pollCICDPipeline
    <3> HIDE DEF x
    <3>3. \A c \in cmds : c[1] # "config"
      BY <1>2, <3>2
    <3>4. refreshVisibleProjects(m') \in cmds
      BY <3>1
    <3> HIDE DEF cmds
    <3>5. QED
      BY <3>1, <3>3, <3>4, RefreshStep
  <2>3. QED
    BY <2>1, <2>2
<1>5. ASSUME NEW failed \in BOOLEAN, ConfigUnusable(failed) PROVE StatusInv'
  <2>1. PICK x : /\ Apply(<<"config">>, x, {})
                 /\ x \in {[m EXCEPT !.state = "Resume"],
                           [m EXCEPT !.state = "Init", !.form = newInitWizardForm,
                                     !.saving = FALSE]}
    BY <1>5 DEF ConfigUnusable
  <2>2. x.cfg = m.cfg /\ x.statuses = m.statuses /\ <<"config">>[1] = "config"
    BY <1>0, <2>1
  <2>3. QED
    BY <1>1, <2>1, <2>2
<1>6. ASSUME NEW found \in {"none", "clean", "broken"}, PendingLoaded(found) PROVE StatusInv'
  <2>1. PICK x : /\ Apply(<<"pending">>, x, {})
                 /\ x \in {m, [m EXCEPT !.state = "Resume",
                                        !.resume = [snapshot |-> found, discarding |-> FALSE]]}
    BY <1>6 DEF PendingLoaded
  <2>2. x.cfg = m.cfg /\ x.statuses = m.statuses /\ <<"pending">>[1] = "pending"
    BY <1>0, <2>1
  <2>3. QED
    BY <1>1, <2>1, <2>2
<1>7. CASE ProfileSaved
  <2>1. PICK job \in InJobs : job[1] = "profile" /\ Perform({job}, {refreshVisibleProjects(m')})
    BY <1>7 DEF ProfileSaved, InJobs
  <2>2. QED
    BY <1>3, <2>1 DEF Started
<1>8. CASE ProfileSaveFailed
  <2>1. PICK job : job[1] = "profile" /\ Steady(job, {})
    BY <1>0, <1>8 DEF ProfileSaveFailed, Apply
  <2>2. QED
    BY <1>20, <2>1
<1>9. CASE Rollback \/ Discard
  <2>1. PICK job \in {<<"rollback">>, <<"discard">>} : Steady(job, {})
    BY <1>0, <1>9 DEF Rollback, RolledBack, Discard, Discarded, Apply
  <2>2. job[1] \in {"rollback", "discard"}
    OBVIOUS
  <2>3. QED
    BY <1>20, <2>1, <2>2
<1>10. CASE Action
  <2>1. PICK job \in InJobs, cmds \in {{}, {refreshVisibleProjects(m)}} :
          job[1] = "action" /\ Apply(job, [m EXCEPT !.running = FALSE], cmds)
    BY <1>10 DEF Action, ActionCompleted, InJobs
  <2>2. \A c \in cmds : c[1] = "refresh"
    BY <1>2, <2>1
  <2>3. QED
    BY <1>0, <1>1, <2>1, <2>2
<1>11. CASE Scan
  <2>1. PICK job, x : /\ job[1] = "scan" /\ Apply(job, x, {})
                      /\ \E preview : x \in {[m EXCEPT !.state = "Import", !.import = preview],
                                             [m EXCEPT !.state = "Dashboard", !.import = preview]}
    BY <1>11 DEF Scan, ImportScanned
  <2>2. x.cfg = m.cfg /\ x.statuses = m.statuses
    BY <1>0, <2>1
  <2>3. QED
    BY <1>1, <2>1, <2>2
<1>12. CASE ImportPersisted
  <2>1. PICK job \in InJobs : job[1] = "import" /\ Perform({job}, {refreshVisibleProjects(m')})
    BY <1>12 DEF ImportPersisted, InJobs
  <2>2. QED
    BY <1>3, <2>1 DEF Started
<1>13. CASE ImportPersistFailed
  <2>1. PICK job : job[1] = "import" /\ Apply(job, [m EXCEPT !.import.saving = FALSE], {})
    BY <1>13 DEF ImportPersistFailed
  <2>2. QED
    BY <1>0, <1>1, <2>1
<1>14. ASSUME NEW ok \in BOOLEAN, DomainChecked(ok) PROVE StatusInv'
  <2>1. PICK x \in {m, [m EXCEPT !.wizard = "Review"]} : Apply(<<"check">>, x, {})
    BY <1>14 DEF DomainChecked
  <2>2. x.cfg = m.cfg /\ x.statuses = m.statuses /\ <<"check">>[1] = "check"
    BY <1>0, <2>1
  <2>3. QED
    BY <1>1, <2>1, <2>2
<1>15. ASSUME NEW ok \in BOOLEAN, Executed(ok) PROVE StatusInv'
  <2>1. PICK job \in InJobs :
          /\ job[1] = "execute"
          /\ \/ Perform({job}, {refreshVisibleProjects(m')})
             \/ Apply(job, [m EXCEPT !.wizard = "Failure"], {})
    BY <1>15 DEF Executed, InJobs
  <2>2. QED
    BY <1>0, <1>1, <1>3, <2>1 DEF Started
<1>16. CASE Logs
  <2>1. PICK d \in Linked, run \in Run : Steady(loadCICDLogsCmd(d, run), {})
    BY <1>0, <1>16 DEF Logs, CICDLogsFetched, Apply
  <2>2. loadCICDLogsCmd(d, run)[1] = "logs"
    BY DEF loadCICDLogsCmd
  <2>3. QED
    BY <1>20, <2>1, <2>2
<1>17. CASE CICDFetched
  <2>1. PICK d \in Linked, run \in Run \cup {None} :
          Apply(<<"poll", d>>, [m EXCEPT !.runs[d] = run], {})
    BY <1>17 DEF CICDFetched
  <2>2. <<"poll", d>>[1] = "poll"
    OBVIOUS
  <2>3. QED
    BY <1>0, <1>1, <2>1, <2>2
<1>18. ASSUME NEW projects \in SUBSET Watched, StatusRefreshed(projects) PROVE StatusInv'
  <2>1. /\ Perform({<<"refresh", projects>>}, {}) /\ timers' = timers
        /\ m'.cfg = m.cfg /\ m'.statuses = m.statuses \cup projects
    BY <1>0, <1>18 DEF StatusRefreshed, Apply, FetchProjectStatuses
  <2>2. JobStep({<<"refresh", projects>>}, {})
    BY <2>1, Performed DEF CockpitInv, Shaped
  <2>3. \A d : Covered(d) => Covered(d)'
    <3>1. <<"refresh", projects>>[2] = projects
      OBVIOUS
    <3>2. QED
      BY <2>1, <2>2, <3>1 DEF Covered, JobStep
  <2>4. QED
    BY <2>1, <2>2, <2>3 DEF StatusInv, JobStep
<1>19. QED
  BY <1>4, <1>5, <1>6, <1>7, <1>8, <1>9, <1>10, <1>11, <1>12, <1>13, <1>14, <1>15, <1>16,
     <1>17, <1>18 DEF Config, Pending, Profile, Import, Wizard

LEMMA StatusInvNext ==
    ASSUME CockpitInv, StatusInv, [Next]_vars
    PROVE  StatusInv'
<1>1. CASE UNCHANGED vars
  BY <1>1 DEF vars, StatusInv, Covered, InJobs
<1>2. ASSUME NEW state, End(state) PROVE StatusInv'
  BY <1>2 DEF End, StatusInv
<1>3. CASE KeyQuit \/ KeyHome
  BY <1>1, <1>2, <1>3 DEF KeyQuit, KeyHome
<1>4. CASE KeyCatalogMove(RowAbove(CatalogRows, SelectedRow))
           \/ KeyCatalogMove(RowBelow(CatalogRows, SelectedRow))
  <2>1. \E row : KeyCatalogMove(row)
    BY <1>4
  <2>2. QED
    BY <2>1, StatusKeys, Zenon
<1>5. CASE Operator /\ ~(KeyQuit \/ KeyHome)
               /\ ~(KeyCatalogMove(RowAbove(CatalogRows, SelectedRow))
                    \/ KeyCatalogMove(RowBelow(CatalogRows, SelectedRow)))
  BY <1>5, StatusKeys, Zenon DEF Operator
<1>6. CASE RefreshTick \/ CICDTick
  BY <1>6, StatusKeys, Zenon
<1>7. CASE \/ Config \/ Pending \/ Profile \/ Rollback \/ Discard \/ Action \/ Scan
           \/ Import \/ Wizard \/ Logs \/ CICDFetched
           \/ (\E projects \in SUBSET Watched : StatusRefreshed(projects))
  BY <1>7, StatusReplies, Zenon
<1>8. QED
  BY <1>1, <1>3, <1>4, <1>5, <1>6, <1>7, Zenon DEF Next

\* Once the refresh timers run, every project of the configuration has a
\* status or a command under way that brings it, through imports, executions,
\* profiles and a start-up that finds a snapshot, in any order of replies
\* (applyImportPersisted, applyExecution, Update).
THEOREM RowsAreRefreshed == Spec => []StatusUnderWay
<1>1. Init => StatusInv
  BY DEF Init, StatusInv
<1>2. CockpitInv /\ StatusInv /\ [Next]_vars => StatusInv'
  BY StatusInvNext
<1>3. StatusInv => StatusUnderWay
  BY DEF StatusInv, StatusUnderWay, Covered, InJobs
<1>4. QED
  BY CockpitInvHolds, <1>1, <1>2, <1>3, PTL DEF Spec

-----------------------------------------------------------------------------
(***************************************************************************)
(* The versions of a key in the cache, under way and in callers' hands,    *)
(* ordered.  Holding: the leader of the call of k has an answer.           *)
(***************************************************************************)
Holding(x, k) ==
    g[x].key = k /\ (g[x].pc = "reply" \/ (g[x].pc = "end" /\ g[x].val # 0))

\* Everyone but an idle goroutine works on a key, and the one that runs the
\* fetch of a key is the leader the group knows: there is no other.
OneLeader ==
    \A x \in Goroutine :
        /\ g[x].pc # "idle" => g[x].key \in Key
        /\ g[x].pc \in {"fetch", "reply", "end"} => group[g[x].key] = x

\* What is cached came from the remote, and the answer under way is newer.
EntryBound ==
    \A k \in Key :
        /\ entries[k].val <= world[k]
        /\ \A x \in Goroutine : Holding(x, k) => entries[k].val <= g[x].val

\* The answer under way came from the remote; once stored it is the entry's,
\* unless that has been invalidated since.
FlightBound ==
    \A k \in Key : \A x \in Goroutine :
        /\ Holding(x, k) => g[x].val <= world[k]
        /\ g[x].pc = "end" /\ g[x].key = k /\ entries[k].val # 0
              => g[x].val <= entries[k].val

\* What a caller has seen is older than whatever it may be given next.
SeenBound ==
    \A c \in Caller : \A k \in Key :
        /\ seen[c][k] <= world[k]
        /\ entries[k].val # 0 => seen[c][k] <= entries[k].val
        /\ \A x \in Goroutine : Holding(x, k) => seen[c][k] <= g[x].val

\* So is what a caller holds between Do and its second lookup, which has to
\* be newer than what it has seen.
MetaBound ==
    \A c \in Caller : \A k \in Key : g[c].pc = "meta" /\ g[c].key = k =>
        /\ seen[c][k] <= g[c].val /\ g[c].val <= world[k]
        /\ entries[k].val # 0 => g[c].val <= entries[k].val
        /\ \A x \in Goroutine : Holding(x, k) => g[c].val <= g[x].val

CacheInv ==
    CacheTypeOK /\ OneLeader /\ EntryBound /\ FlightBound /\ SeenBound /\ MetaBound

GRecord ==
    [pc : {"idle", "lookup", "do", "fetch", "reply", "end", "join", "meta", "got"},
     key : Key \cup {NoKey}, val : Version, stale : BOOLEAN]

\* An empty cache that nobody has asked.
LEMMA CacheInvInit == CacheInit => CacheInv
<1> SUFFICES ASSUME CacheInit PROVE CacheInv
  OBVIOUS
<1> USE CacheAssumption DEF CacheInit, Idle, NoEntry, Version
<1>1. CacheTypeOK
  BY DEF CacheTypeOK
<1>2. /\ \A x \in Goroutine : g[x].pc = "idle"
      /\ \A k \in Key : world[k] = 1 /\ entries[k].val = 0
      /\ \A c \in Caller : \A k \in Key : seen[c][k] = 0
  OBVIOUS
<1>3. OneLeader /\ \A x \in Goroutine : \A k \in Key : ~Holding(x, k)
  BY <1>2 DEF OneLeader, Holding
<1> HIDE DEF CacheInit
<1>4. EntryBound /\ FlightBound /\ SeenBound
  BY <1>2, <1>3 DEF EntryBound, FlightBound, SeenBound
<1>5. MetaBound
  BY <1>2 DEF MetaBound, Goroutine
<1>6. QED
  BY <1>1, <1>3, <1>4, <1>5 DEF CacheInv

\* Versions are numbers.
LEMMA Versions ==
    ASSUME CacheTypeOK
    PROVE  /\ \A k \in Key : world[k] \in Nat /\ entries[k].val \in Nat
           /\ \A x \in Goroutine : g[x] \in GRecord /\ g[x].val \in Nat
           /\ \A c \in Caller : \A k \in Key : seen[c][k] \in Nat
           /\ Version \subseteq Nat
<1>1. Version \subseteq Nat
  BY CacheAssumption DEF Version
<1>2. QED
  BY <1>1 DEF CacheTypeOK, GRecord

\* A goroutine that starts.
LEMMA Starts ==
    ASSUME NEW k \in Key, NEW pc \in {"lookup", "do"}
    PROVE  /\ Idle \in GRecord
           /\ [Idle EXCEPT !.pc = pc, !.key = k] \in GRecord
           /\ [Idle EXCEPT !.pc = pc, !.key = k].pc = pc
           /\ [Idle EXCEPT !.pc = pc, !.key = k].key = k
<1>1. 0 \in Version
  BY CacheAssumption DEF Version
<1>2. QED
  BY <1>1 DEF Idle, GRecord

\* One goroutine moves.
LEMMA Moves ==
    ASSUME CacheTypeOK, NEW x \in Goroutine, NEW r \in GRecord,
           g' = [g EXCEPT ![x] = r]
    PROVE  /\ g' \in [Goroutine -> GRecord] /\ g'[x] = r
           /\ \A y \in Goroutine : y # x => g'[y] = g[y]
BY DEF CacheTypeOK, GRecord

\* A caller that looks up or answers, or a goroutine that starts to wait for
\* or lead a call, holds no answer of the remote: with the cache and the
\* remote as they were, only what callers see can change.
LEMMA QuietStep ==
    ASSUME CacheInv, g' \in [Goroutine -> GRecord],
           UNCHANGED <<world, entries, pending>>,
           group' \in [Key -> Goroutine \cup {NoLeader}],
           seen' \in [Caller -> [Key -> Version]],
           \A x \in Goroutine : g'[x] = g[x] \/
                /\ g'[x].pc \notin {"reply", "end", "meta"}
                /\ g'[x].pc # "idle" => g'[x].key \in Key
                /\ g'[x].pc = "fetch" => group'[g'[x].key] = x,
           \A x \in Goroutine : g[x].pc \in {"fetch", "reply", "end"} /\ g'[x] = g[x]
                => group'[g[x].key] = group[g[x].key],
           \A c \in Caller : \A k \in Key : seen'[c][k] # seen[c][k] =>
                /\ g'[c].pc # "meta"
                /\ \/ seen'[c][k] = entries[k].val
                   \/ g[c].pc = "meta" /\ g[c].key = k /\ seen'[c][k] = g[c].val
    PROVE  CacheInv'
<1> USE DEF CacheInv
<1>1. CacheTypeOK'
  BY DEF CacheTypeOK, GRecord
<1>2. OneLeader'
  BY DEF OneLeader
<1>3. \A x \in Goroutine : \A k \in Key :
        Holding(x, k)' => Holding(x, k) /\ g'[x] = g[x]
  BY DEF Holding
<1>4. EntryBound'
  BY <1>3 DEF EntryBound
<1>5. FlightBound'
  BY <1>3 DEF FlightBound
<1>6. SeenBound'
  <2> SUFFICES ASSUME NEW c \in Caller, NEW k \in Key
               PROVE  /\ seen'[c][k] <= world'[k]
                      /\ entries'[k].val # 0 => seen'[c][k] <= entries'[k].val
                      /\ \A x \in Goroutine : Holding(x, k)' => seen'[c][k] <= g'[x].val
    BY DEF SeenBound
  <2>1. CASE seen'[c][k] = seen[c][k]
    BY <1>3, <2>1 DEF SeenBound
  <2>2. CASE seen'[c][k] = entries[k].val
    <3>1. entries[k].val \in Nat
      BY Versions
    <3>2. QED
      BY <1>3, <2>2, <3>1 DEF EntryBound
  <2>3. CASE g[c].pc = "meta" /\ g[c].key = k /\ seen'[c][k] = g[c].val
    BY <1>3, <2>3 DEF MetaBound
  <2>4. QED
    BY <2>1, <2>2, <2>3
<1>7. MetaBound'
  <2> SUFFICES ASSUME NEW c \in Caller, NEW k \in Key, g'[c].pc = "meta", g'[c].key = k
               PROVE  /\ seen'[c][k] <= g'[c].val /\ g'[c].val <= world'[k]
                      /\ entries'[k].val # 0 => g'[c].val <= entries'[k].val
                      /\ \A x \in Goroutine : Holding(x, k)' => g'[c].val <= g'[x].val
    BY DEF MetaBound
  <2>1. g'[c] = g[c] /\ seen'[c][k] = seen[c][k]
    BY DEF Goroutine
  <2>2. QED
    BY <1>3, <2>1 DEF MetaBound
<1>8. QED
  BY <1>1, <1>2, <1>4, <1>5, <1>6, <1>7

\* What a caller is given: the history is of the key it asked for.
LEMMA SawOne ==
    ASSUME CacheTypeOK, NEW c \in Caller, g[c].key \in Key, NEW n \in Version, Saw(c, n)
    PROVE  /\ seen' \in [Caller -> [Key -> Version]]
           /\ \A d \in Caller : \A k \in Key : seen'[d][k] # seen[d][k] =>
                 d = c /\ k = g[c].key /\ seen'[d][k] = n
BY DEF CacheTypeOK, Saw

\* Callers and goroutines that look up, wait or take the lead.
LEMMA QuietSteps ==
    ASSUME CacheInv, NEW c \in Caller,
           \/ \E k \in Key : Call(c, k)
           \/ CallerStep(c)
    PROVE  CacheInv'
<1> USE DEF CacheInv
<1>0. /\ c \in Goroutine /\ g[c] \in GRecord
      /\ (g[c].pc \in {"lookup", "meta"} => g[c].key \in Key)
  BY Versions DEF Goroutine, OneLeader
<1>1. ASSUME NEW k \in Key, Call(c, k) PROVE CacheInv'
  <2> DEFINE r == [Idle EXCEPT !.pc = "lookup", !.key = k]
  <2>1. r \in GRecord /\ r.pc = "lookup" /\ r.key = k
    BY Starts
  <2>2. g' = [g EXCEPT ![c] = r] /\ UNCHANGED <<world, entries, group, pending, seen>>
    BY <1>1 DEF Call
  <2> HIDE DEF r
  <2>3. /\ g' \in [Goroutine -> GRecord] /\ g'[c] = r
        /\ \A y \in Goroutine : y # c => g'[y] = g[y]
    BY <1>0, <2>1, <2>2, Moves
  <2>4. QED
    BY <2>1, <2>2, <2>3, QuietStep DEF CacheTypeOK
<1>2. CASE LookupMiss(c)
  <2> DEFINE r == [g[c] EXCEPT !.pc = "do"]
  <2>1. r \in GRecord /\ r.pc = "do" /\ r.key \in Key
    BY <1>0, <1>2 DEF GRecord, LookupMiss, At
  <2>2. g' = [g EXCEPT ![c] = r] /\ UNCHANGED <<world, entries, group, pending, seen>>
    BY <1>2 DEF LookupMiss
  <2> HIDE DEF r
  <2>3. /\ g' \in [Goroutine -> GRecord] /\ g'[c] = r
        /\ \A y \in Goroutine : y # c => g'[y] = g[y]
    BY <1>0, <2>1, <2>2, Moves
  <2>4. QED
    BY <2>1, <2>2, <2>3, QuietStep DEF CacheTypeOK
<1>3. ASSUME NEW n \in Version, NEW stale \in BOOLEAN, g[c].key \in Key
      PROVE  Answer(c, n, stale) \in GRecord /\ Answer(c, n, stale).pc = "got"
             /\ Answer(c, n, stale).key = g[c].key
  BY <1>0, <1>3 DEF Answer, GRecord
<1>4. CASE LookupFresh(c) \/ Meta(c)
  <2>1. PICK n \in Version, stale \in BOOLEAN :
          /\ g' = [g EXCEPT ![c] = Answer(c, n, stale)] /\ Saw(c, n)
          /\ n = entries[g[c].key].val \/ (g[c].pc = "meta" /\ n = g[c].val)
    <3>1. CASE LookupFresh(c)
      <4>1. entries[g[c].key].val \in Version /\ FALSE \in BOOLEAN
        BY <1>0, <3>1 DEF LookupFresh, At, CacheTypeOK
      <4>2. QED
        BY <3>1, <4>1, Zenon DEF LookupFresh
    <3>2. CASE Meta(c)
      <4>1. g[c].val \in Version
        BY <1>0 DEF GRecord
      <4>2. (entries[g[c].key].val # 0 /\ ~entries[g[c].key].fresh) \in BOOLEAN
        OBVIOUS
      <4>3. QED
        BY <3>2, <4>1, <4>2, Zenon DEF Meta, At
    <3>3. QED
      BY <1>4, <3>1, <3>2
  <2>2. /\ g[c].key \in Key /\ UNCHANGED <<world, entries, group, pending>>
    BY <1>0, <1>4 DEF LookupFresh, Meta, At
  <2>3. /\ g' \in [Goroutine -> GRecord] /\ g'[c] = Answer(c, n, stale)
        /\ \A y \in Goroutine : y # c => g'[y] = g[y]
    BY <1>0, <1>3, <2>1, <2>2, Moves
  <2>4. /\ seen' \in [Caller -> [Key -> Version]]
        /\ \A d \in Caller : \A k \in Key : seen'[d][k] # seen[d][k] =>
              d = c /\ k = g[c].key /\ seen'[d][k] = n
    BY <2>1, <2>2, SawOne
  <2>5. QED
    BY <1>3, <2>1, <2>2, <2>3, <2>4, QuietStep DEF CacheTypeOK
<1>5. ASSUME NEW b \in Background, LookupStale(c, b) PROVE CacheInv'
  <2> DEFINE n == entries[g[c].key].val
  <2> DEFINE r == [Idle EXCEPT !.pc = "do", !.key = g[c].key]
  <2>1. /\ g[c].key \in Key /\ UNCHANGED <<world, entries, group, pending>> /\ Saw(c, n)
        /\ g' = [g EXCEPT ![c] = Answer(c, n, TRUE), ![b] = r]
    BY <1>0, <1>5 DEF LookupStale, At
  <2>2. /\ r \in GRecord /\ r.pc = "do" /\ r.key = g[c].key
        /\ n \in Version /\ b \in Goroutine /\ b # c
    BY <2>1, Starts, CacheAssumption DEF Goroutine, CacheTypeOK
  <2>3. /\ Answer(c, n, TRUE) \in GRecord /\ Answer(c, n, TRUE).pc = "got"
        /\ Answer(c, n, TRUE).key = g[c].key
    BY <1>3, <2>1, <2>2
  <2>4. /\ seen' \in [Caller -> [Key -> Version]]
        /\ \A d \in Caller : \A k \in Key : seen'[d][k] # seen[d][k] =>
              d = c /\ k = g[c].key /\ seen'[d][k] = n
    BY <2>1, <2>2, SawOne
  <2>5. /\ g' \in [Goroutine -> GRecord]
        /\ g'[c] = Answer(c, n, TRUE) /\ g'[b] = r
        /\ \A y \in Goroutine : y \notin {b, c} => g'[y] = g[y]
    <3> HIDE DEF r, n
    <3>1. QED
      BY <1>0, <2>1, <2>2, <2>3 DEF CacheTypeOK, GRecord
  <2> HIDE DEF r, n
  <2>6. \A x \in Goroutine : g'[x] = g[x] \/
            /\ g'[x].pc \notin {"reply", "end", "meta"}
            /\ g'[x].pc # "idle" => g'[x].key \in Key
            /\ g'[x].pc = "fetch" => group'[g'[x].key] = x
    BY <2>1, <2>2, <2>3, <2>5
  <2>7. \A d \in Caller : \A k \in Key : seen'[d][k] # seen[d][k] =>
            g'[d].pc # "meta" /\ seen'[d][k] = entries[k].val
    BY <2>3, <2>4, <2>5 DEF n
  <2>8. QED
    BY <2>1, <2>4, <2>5, <2>6, <2>7, QuietStep DEF CacheTypeOK
<1>6. QED
  BY <1>1, <1>2, <1>4, <1>5 DEF CallerStep

\* What Do and the fetch it runs do.
LEMMA DoSteps ==
    ASSUME CacheInv, NEW x \in Goroutine, DoStep(x)
    PROVE  CacheInv'
<1> USE DEF CacheInv
<1>0. g[x] \in GRecord /\ g[x].pc # "idle" /\ g[x].key \in Key
  BY Versions DEF DoStep, Lead, Join, FetchRead, FetchError, Store, Land, At, OneLeader
<1> DEFINE key == g[x].key
<1>1. CASE Lead(x) \/ Join(x)
  <2> DEFINE r == [g[x] EXCEPT !.pc = IF group[key] = NoLeader THEN "fetch" ELSE "join"]
  <2>1. r \in GRecord /\ r.pc \in {"fetch", "join"} /\ r.key = key /\ g[x].pc = "do"
        /\ (r.pc = "fetch" => group[key] = NoLeader)
    BY <1>0, <1>1 DEF GRecord, Lead, Join, At
  <2>2. /\ g' = [g EXCEPT ![x] = r] /\ UNCHANGED <<world, entries, pending, seen>>
        /\ IF group[key] = NoLeader THEN group' = [group EXCEPT ![key] = x]
           ELSE group' = group
    BY <1>1 DEF Lead, Join
  <2>3. r.pc = "fetch" <=> group[key] = NoLeader
    BY <1>0 DEF GRecord
  <2> HIDE DEF r
  <2>4. /\ g' \in [Goroutine -> GRecord] /\ g'[x] = r
        /\ \A y \in Goroutine : y # x => g'[y] = g[y]
    BY <2>1, <2>2, Moves
  <2>5. /\ group' \in [Key -> Goroutine \cup {NoLeader}]
        /\ \A k \in Key : k # key => group'[k] = group[k]
        /\ group[key] # NoLeader => group' = group
        /\ group[key] = NoLeader => group'[key] = x
    BY <1>0, <2>2 DEF CacheTypeOK
  <2>6. \A y \in Goroutine : g[y].pc \in {"fetch", "reply", "end"}
            => group'[g[y].key] = group[g[y].key]
    <3> SUFFICES ASSUME NEW y \in Goroutine, g[y].pc \in {"fetch", "reply", "end"}
                 PROVE  group'[g[y].key] = group[g[y].key]
      OBVIOUS
    <3>1. g[y].key \in Key /\ group[g[y].key] = y /\ y # NoLeader
      BY CacheAssumption DEF OneLeader, Goroutine
    <3>2. QED
      BY <2>5, <3>1
  <2>7. \A y \in Goroutine : g'[y] = g[y] \/
            /\ g'[y].pc \notin {"reply", "end", "meta"}
            /\ g'[y].pc # "idle" => g'[y].key \in Key
            /\ g'[y].pc = "fetch" => group'[g'[y].key] = y
    BY <1>0, <2>1, <2>3, <2>4, <2>5
  <2>8. QED
    BY <2>2, <2>4, <2>5, <2>6, <2>7, QuietStep DEF CacheTypeOK
<1>2. ASSUME NEW r \in GRecord, g' = [g EXCEPT ![x] = r], r.key = key,
             r.pc \in {"reply", "end"}, g[x].pc \in {"fetch", "reply"},
             UNCHANGED <<world, group, pending, seen>>
      PROVE  /\ g' \in [Goroutine -> GRecord] /\ g'[x] = r /\ OneLeader'
             /\ \A y \in Goroutine : y # x => g'[y] = g[y]
             /\ \A y \in Goroutine : \A k \in Key :
                   y # x /\ Holding(y, k) => k # key
             /\ \A y \in Goroutine : \A k \in Key :
                   y # x => (Holding(y, k)' <=> Holding(y, k))
             /\ \A y \in Goroutine : y # x /\ g[y].pc = "end" => g[y].key # key
             /\ ~(x \in Caller /\ g[x].pc = "meta") /\ r.pc # "meta"
  <2>1. /\ g' \in [Goroutine -> GRecord] /\ g'[x] = r
        /\ \A y \in Goroutine : y # x => g'[y] = g[y]
    BY <1>2, Moves
  <2>2. OneLeader'
    BY <1>0, <1>2, <2>1 DEF OneLeader
  <2>3. \A y \in Goroutine : y # x /\ g[y].pc \in {"reply", "end"} => g[y].key # key
    BY <1>2 DEF OneLeader
  <2>4. QED
    BY <1>2, <2>1, <2>2, <2>3 DEF Holding
<1>3. CASE FetchRead(x) \/ FetchError(x)
  <2>1. PICK r \in GRecord :
          /\ g' = [g EXCEPT ![x] = r] /\ r.key = key
          /\ \/ r.pc = "reply" /\ r.val = world[key]
             \/ r.pc = "end" /\ r.val = 0
    <3>1. CASE FetchRead(x)
      <4> DEFINE r == [g[x] EXCEPT !.pc = "reply", !.val = world[key]]
      <4>1. r \in GRecord /\ r.key = key /\ r.pc = "reply" /\ r.val = world[key]
        BY <1>0 DEF GRecord, CacheTypeOK
      <4>2. g' = [g EXCEPT ![x] = r]
        BY <1>0, <3>1 DEF FetchRead, CacheTypeOK
      <4>3. QED
        BY <4>1, <4>2
    <3>2. CASE FetchError(x)
      <4> DEFINE r == [g[x] EXCEPT !.pc = "end", !.val = 0]
      <4>0. 0 \in Version
        BY CacheAssumption DEF Version
      <4>1. r \in GRecord /\ r.key = key /\ r.pc = "end" /\ r.val = 0
        BY <1>0, <4>0 DEF GRecord, CacheTypeOK
      <4>2. g' = [g EXCEPT ![x] = r]
        BY <1>0, <3>2 DEF FetchError, CacheTypeOK
      <4>3. QED
        BY <4>1, <4>2
    <3>3. QED
      BY <1>3, <3>1, <3>2
  <2>2. g[x].pc \in {"fetch", "reply"} /\ UNCHANGED <<world, entries, group, pending, seen>>
    BY <1>3 DEF FetchRead, FetchError, At
  <2>3. /\ g' \in [Goroutine -> GRecord] /\ g'[x] = r /\ OneLeader'
        /\ \A y \in Goroutine : y # x => g'[y] = g[y]
        /\ \A y \in Goroutine : \A k \in Key :
              y # x => (Holding(y, k)' <=> Holding(y, k))
    BY <1>2, <2>1, <2>2
  <2>4. \A k \in Key : Holding(x, k)' => k = key /\ g'[x].val = world[k]
    BY <2>1, <2>3 DEF Holding
  <2>5. /\ \A c \in Caller : g'[c].pc = "meta" => g'[c] = g[c]
        /\ \A y \in Goroutine : g'[y].pc = "end" => g'[y] = g[y] \/ g'[y].val = 0
    BY <2>1, <2>3 DEF Goroutine
  <2>6. CacheTypeOK'
    BY <2>2, <2>3 DEF CacheTypeOK, GRecord
  <2>7. \A k \in Key : world[k] \in Nat /\ entries[k].val \in Nat
    BY Versions
  <2>8. EntryBound'
    BY <2>2, <2>3, <2>4 DEF EntryBound
  <2>9. FlightBound'
    BY <2>2, <2>3, <2>4, <2>5, <2>7 DEF FlightBound
  <2>10. SeenBound'
    BY <2>2, <2>3, <2>4 DEF SeenBound
  <2>11. MetaBound'
    BY <2>2, <2>3, <2>4, <2>5 DEF MetaBound, Goroutine
  <2>12. QED
    BY <2>3, <2>6, <2>8, <2>9, <2>10, <2>11
<1>4. CASE Store(x)
  <2> DEFINE r == [g[x] EXCEPT !.pc = "end"]
  <2>1. r \in GRecord /\ r.key = key /\ r.pc = "end" /\ r.val = g[x].val
    BY <1>0 DEF GRecord
  <2>2. /\ g' = [g EXCEPT ![x] = r] /\ g[x].pc = "reply"
        /\ UNCHANGED <<world, group, pending, seen>>
        /\ entries' = [entries EXCEPT ![key] = [val |-> g[x].val, fresh |-> TRUE]]
    BY <1>4 DEF Store, At
  <2> HIDE DEF r
  <2>3. /\ g' \in [Goroutine -> GRecord] /\ g'[x] = r /\ OneLeader'
        /\ \A y \in Goroutine : y # x => g'[y] = g[y]
        /\ \A y \in Goroutine : \A k \in Key :
              y # x => (Holding(y, k)' <=> Holding(y, k))
        /\ \A y \in Goroutine : \A k \in Key : y # x /\ Holding(y, k) => k # key
        /\ \A y \in Goroutine : y # x /\ g[y].pc = "end" => g[y].key # key
    BY <1>2, <2>1, <2>2
  <2>4. /\ entries' \in [Key -> [val : Version, fresh : BOOLEAN]]
        /\ entries'[key].val = g[x].val
        /\ \A k \in Key : k # key => entries'[k] = entries[k]
    BY <1>0, <2>2 DEF CacheTypeOK, GRecord
  <2>5. /\ \A k \in Key : Holding(x, k)' => k = key
        /\ Holding(x, key) /\ g'[x].val = g[x].val /\ g[x].val \in Nat
    BY <2>1, <2>2, <2>3, Versions DEF Holding
  <2>6. /\ \A c \in Caller : g'[c].pc = "meta" => g'[c] = g[c]
        /\ g'[x].key = key
    BY <2>1, <2>3 DEF Goroutine
  <2>7. CacheTypeOK'
    BY <2>2, <2>3, <2>4 DEF CacheTypeOK, GRecord
  <2>8. EntryBound'
    BY <1>0, <2>2, <2>3, <2>4, <2>5 DEF EntryBound, FlightBound
  <2>9. FlightBound'
    BY <1>0, <2>2, <2>3, <2>4, <2>5, <2>6 DEF FlightBound
  <2>10. SeenBound'
    BY <1>0, <2>2, <2>3, <2>4, <2>5 DEF SeenBound
  <2>11. MetaBound'
    BY <1>0, <2>2, <2>3, <2>4, <2>5, <2>6 DEF MetaBound
  <2>12. QED
    BY <2>3, <2>7, <2>8, <2>9, <2>10, <2>11
<1>5. CASE Land(x)
  <2> DEFINE v == g[x].val
  <2>1. /\ g[x].pc = "end" /\ UNCHANGED <<world, entries, pending, seen>>
        /\ group' = [group EXCEPT ![key] = NoLeader]
        /\ g' = [y \in Goroutine |->
                   IF y = x \/ (g[y].pc = "join" /\ g[y].key = key)
                   THEN Resume(y, v) ELSE g[y]]
    BY <1>5 DEF Land, At
  <2>2. \A y \in Goroutine : g[y].key = key =>
          /\ Resume(y, v) \in GRecord
          /\ Resume(y, v).pc \in {"idle", "got", "meta"}
          /\ Resume(y, v).pc # "idle" => Resume(y, v).key = key
          /\ Resume(y, v).pc = "meta" => v # 0 /\ Resume(y, v).val = v
    <3> SUFFICES ASSUME NEW y \in Goroutine, g[y].key = key
                 PROVE  /\ Resume(y, v) \in GRecord
                        /\ Resume(y, v).pc \in {"idle", "got", "meta"}
                        /\ Resume(y, v).pc # "idle" => Resume(y, v).key = key
                        /\ Resume(y, v).pc = "meta" => v # 0 /\ Resume(y, v).val = v
      OBVIOUS
    <3>1. g[y] \in GRecord /\ v \in Version /\ 0 \in Version
      BY <1>0, Versions, CacheAssumption DEF GRecord, Version
    <3>2. CASE y \in Background
      <4>1. Resume(y, v) = Idle
        BY <3>2 DEF Resume
      <4>2. Idle \in GRecord /\ Idle.pc = "idle"
        BY <3>1 DEF Idle, GRecord
      <4>3. QED
        BY <4>1, <4>2
    <3>3. CASE y \notin Background /\ v = 0
      BY <3>1, <3>3 DEF Resume, Answer, GRecord
    <3>4. CASE y \notin Background /\ v # 0
      BY <3>1, <3>4 DEF Resume, GRecord
    <3>5. QED
      BY <3>2, <3>3, <3>4
  <2>3. \A y \in Goroutine :
          \/ g'[y] = g[y] /\ y # x
          \/ /\ g'[y] \in GRecord /\ g'[y].pc \in {"idle", "got", "meta"}
             /\ g'[y].pc # "idle" => g'[y].key = key
             /\ g'[y].pc = "meta" => v # 0 /\ g'[y].val = v
    BY <2>1, <2>2
  <2>4. g' \in [Goroutine -> GRecord]
    <3>1. g' = [y \in Goroutine |-> g'[y]]
      BY <2>1
    <3>2. \A y \in Goroutine : g'[y] \in GRecord
      BY <2>3, Versions
    <3>3. QED
      BY <3>1, <3>2
  <2>5. /\ group' \in [Key -> Goroutine \cup {NoLeader}]
        /\ \A k \in Key : k # key => group'[k] = group[k]
    BY <1>0, <2>1 DEF CacheTypeOK
  <2>6. \A y \in Goroutine : y # x /\ g[y].pc \in {"fetch", "reply", "end"} => g[y].key # key
    BY <2>1 DEF OneLeader
  <2>7. OneLeader'
    <3> SUFFICES ASSUME NEW y \in Goroutine
                 PROVE  /\ g'[y].pc # "idle" => g'[y].key \in Key
                        /\ g'[y].pc \in {"fetch", "reply", "end"} => group'[g'[y].key] = y
      BY DEF OneLeader
    <3>1. QED
      BY <1>0, <2>3, <2>5, <2>6 DEF OneLeader
  <2>8. \A y \in Goroutine : \A k \in Key : Holding(y, k)' =>
          Holding(y, k) /\ g'[y] = g[y] /\ k # key
    BY <2>3, <2>6 DEF Holding
  <2>9. CacheTypeOK'
    BY <2>1, <2>4, <2>5 DEF CacheTypeOK, GRecord
  <2>10. EntryBound'
    BY <2>1, <2>8 DEF EntryBound
  <2>11. FlightBound'
    <3>1. \A y \in Goroutine : g'[y].pc = "end" => g'[y] = g[y]
      BY <2>3
    <3>2. QED
      BY <2>1, <2>8, <3>1 DEF FlightBound
  <2>12. SeenBound'
    BY <2>1, <2>8 DEF SeenBound
  <2>13. MetaBound'
    <3> SUFFICES ASSUME NEW c \in Caller, NEW k \in Key, g'[c].pc = "meta", g'[c].key = k
                 PROVE  /\ seen'[c][k] <= g'[c].val /\ g'[c].val <= world'[k]
                        /\ entries'[k].val # 0 => g'[c].val <= entries'[k].val
                        /\ \A y \in Goroutine : Holding(y, k)' => g'[c].val <= g'[y].val
      BY DEF MetaBound
    <3>1. c \in Goroutine
      BY DEF Goroutine
    <3>2. CASE g'[c] = g[c]
      BY <2>1, <2>8, <3>2 DEF MetaBound
    <3>3. CASE g'[c] # g[c]
      <4>1. k = key /\ v # 0 /\ g'[c].val = v
        BY <2>3, <3>1, <3>3
      <4>2. Holding(x, key)
        BY <2>1, <4>1 DEF Holding
      <4>3. seen[c][k] <= v /\ v <= world[k] /\ (entries[k].val # 0 => v <= entries[k].val)
        BY <1>0, <2>1, <4>1, <4>2 DEF SeenBound, FlightBound
      <4>4. QED
        BY <2>1, <2>8, <4>1, <4>3
    <3>4. QED
      BY <3>2, <3>3
  <2>14. QED
    BY <2>7, <2>9, <2>10, <2>11, <2>12, <2>13
<1>6. QED
  BY <1>1, <1>3, <1>4, <1>5 DEF DoStep

\* Invalidation, expiry and the remote side: entries vanish or keep their
\* version, and the remote only moves on.
LEMMA OutsideSteps ==
    ASSUME CacheInv, UNCHANGED <<group, g, seen>>, pending' \subseteq Prefix,
           world' \in [Key -> Version],
           entries' \in [Key -> [val : Version, fresh : BOOLEAN]],
           \A k \in Key : world[k] <= world'[k],
           \A k \in Key : entries'[k].val \in {0, entries[k].val}
    PROVE  CacheInv'
<1> USE DEF CacheInv
<1>1. /\ \A k \in Key : /\ world[k] \in Nat /\ entries[k].val \in Nat
                        /\ world'[k] \in Nat /\ entries'[k].val \in Nat
      /\ \A x \in Goroutine : g[x].val \in Nat
      /\ \A c \in Caller : \A k \in Key : seen[c][k] \in Nat
  BY Versions DEF CacheTypeOK
<1>2. \A x \in Goroutine : \A k \in Key : Holding(x, k)' <=> Holding(x, k)
  BY DEF Holding
<1>3. CacheTypeOK' /\ OneLeader'
  BY DEF CacheTypeOK, OneLeader
<1>4. EntryBound' /\ FlightBound'
  BY <1>1, <1>2 DEF EntryBound, FlightBound
<1>5. SeenBound'
  BY <1>1, <1>2 DEF SeenBound
<1>6. MetaBound'
  BY <1>1, <1>2 DEF MetaBound, Goroutine
<1>7. QED
  BY <1>3, <1>4, <1>5, <1>6

\* Every step keeps the order of the versions.
LEMMA CacheInvNext == CacheInv /\ [CacheNext]_cacheVars => CacheInv'
<1> SUFFICES ASSUME CacheInv, [CacheNext]_cacheVars PROVE CacheInv'
  OBVIOUS
<1>0. CacheTypeOK
  BY DEF CacheInv
<1>1. ASSUME NEW e \in Happening, InvalidateEvent(e) PROVE CacheInv'
  <2>1. e \in Event
    BY CacheAssumption
  <2>2. PrefixesForEvent(e) \subseteq Prefix
    BY <2>1 DEF PrefixesForEvent, Event, Prefix
  <2>3. \A k \in Key : world[k] \in Nat
    BY <1>0, Versions
  <2>4. pending' \subseteq Prefix /\ UNCHANGED <<world, entries, group, g, seen>>
    BY <1>1, <2>2 DEF InvalidateEvent
  <2>5. QED
    BY <1>0, <2>3, <2>4, OutsideSteps DEF CacheTypeOK
<1>2. ASSUME NEW p \in Prefix, Invalidate(p) PROVE CacheInv'
  <2>1. /\ pending' \subseteq Prefix /\ UNCHANGED <<world, group, g, seen>>
        /\ entries' = [k \in Key |-> IF k[1] = p THEN NoEntry ELSE entries[k]]
    BY <1>0, <1>2 DEF Invalidate, CacheTypeOK
  <2>2. NoEntry \in [val : Version, fresh : BOOLEAN] /\ NoEntry.val = 0
    BY CacheAssumption DEF NoEntry, Version
  <2>3. /\ entries' \in [Key -> [val : Version, fresh : BOOLEAN]]
        /\ \A k \in Key : entries'[k].val \in {0, entries[k].val}
    BY <1>0, <2>1, <2>2 DEF CacheTypeOK
  <2>4. \A k \in Key : world[k] \in Nat
    BY <1>0, Versions
  <2>5. QED
    BY <1>0, <2>1, <2>3, <2>4, OutsideSteps DEF CacheTypeOK
<1>3. ASSUME NEW k \in Key, Expire(k) PROVE CacheInv'
  <2>1. /\ UNCHANGED <<world, group, g, pending, seen>>
        /\ entries' = [entries EXCEPT ![k].fresh = FALSE]
    BY <1>3 DEF Expire
  <2>2. /\ entries' \in [Key -> [val : Version, fresh : BOOLEAN]]
        /\ \A j \in Key : entries'[j].val \in {0, entries[j].val}
    BY <1>0, <2>1 DEF CacheTypeOK
  <2>3. \A j \in Key : world[j] \in Nat
    BY <1>0, Versions
  <2>4. QED
    BY <1>0, <2>1, <2>2, <2>3, OutsideSteps DEF CacheTypeOK
<1>4. ASSUME NEW k \in Key, RemoteChange(k) PROVE CacheInv'
  <2>1. /\ UNCHANGED <<entries, group, g, pending, seen>> /\ world[k] < MaxVersion
        /\ world' = [world EXCEPT ![k] = @ + 1]
    BY <1>4 DEF RemoteChange
  <2>2. \A j \in Key : world[j] \in 0..MaxVersion /\ world[j] \in Nat
    BY <1>0, Versions DEF CacheTypeOK, Version
  <2>3. world[k] + 1 \in Version
    BY <2>1, <2>2, CacheAssumption DEF Version
  <2>4. world' \in [Key -> Version] /\ \A j \in Key : world[j] <= world'[j]
    BY <1>0, <2>1, <2>2, <2>3 DEF CacheTypeOK
  <2>5. QED
    BY <1>0, <2>1, <2>4, OutsideSteps DEF CacheTypeOK
<1>5. CASE UNCHANGED cacheVars
  BY <1>5 DEF cacheVars, CacheInv, CacheTypeOK, OneLeader, EntryBound, FlightBound,
              SeenBound, MetaBound, Holding
<1>6. QED
  BY <1>1, <1>2, <1>3, <1>4, <1>5, QuietSteps, DoSteps DEF CacheNext

\* A caller who polls a key never sees its status go back to an older version:
\* not through expiry, a failed fetch, a call shared with others, or an
\* invalidation between a fetch and the store of its answer.
THEOREM ReadsAreMonotonic == CacheSpec => MonotonicReads
<1>1. ASSUME CacheInv, [CacheNext]_cacheVars
      PROVE  [\A c \in Caller, k \in Key : seen'[c][k] >= seen[c][k]]_cacheVars
  <2> SUFFICES ASSUME NEW c \in Caller, NEW k \in Key PROVE seen'[c][k] >= seen[c][k]
    OBVIOUS
  <2>0. CacheTypeOK /\ \A d \in Caller : \A j \in Key : seen[d][j] \in Nat
    BY <1>1, Versions DEF CacheInv
  <2>1. CASE UNCHANGED seen
    BY <2>0, <2>1
  <2>2. ASSUME NEW d \in Caller, NEW n \in Version, Saw(d, n), g[d].key \in Key,
               seen[d][g[d].key] <= n
        PROVE  seen'[c][k] >= seen[c][k]
    <3>1. seen'[c][k] # seen[c][k] => d = c /\ k = g[d].key /\ seen'[c][k] = n
      BY <2>0, <2>2, SawOne
    <3>2. n \in Nat
      BY <2>0, Versions
    <3>3. QED
      BY <2>0, <2>2, <3>1, <3>2
  <2>3. ASSUME NEW d \in Caller, CallerStep(d) PROVE seen'[c][k] >= seen[c][k]
    <3>1. CASE LookupMiss(d)
      BY <2>1, <3>1 DEF LookupMiss
    <3>2. d \in Goroutine /\ (g[d].pc \in {"lookup", "meta"} => g[d].key \in Key)
      BY <1>1 DEF CacheInv, OneLeader, Goroutine
    <3>3. CASE LookupFresh(d) \/ \E b \in Background : LookupStale(d, b)
      <4> DEFINE n == entries[g[d].key].val
      <4>1. n # 0 /\ Saw(d, n) /\ g[d].key \in Key
        BY <3>2, <3>3 DEF LookupFresh, LookupStale, At
      <4>2. n \in Version
        BY <2>0, <4>1 DEF CacheTypeOK
      <4>3. seen[d][g[d].key] <= n
        BY <1>1, <4>1 DEF CacheInv, SeenBound
      <4> HIDE DEF n
      <4>4. QED
        BY <2>2, <4>1, <4>2, <4>3
    <3>4. CASE Meta(d)
      <4> DEFINE n == g[d].val
      <4>1. g[d].pc = "meta" /\ Saw(d, n) /\ g[d].key \in Key
        BY <3>2, <3>4 DEF Meta, At
      <4>2. n \in Version
        BY <2>0, <3>2 DEF CacheTypeOK
      <4>3. seen[d][g[d].key] <= n
        BY <1>1, <4>1 DEF CacheInv, MetaBound
      <4> HIDE DEF n
      <4>4. QED
        BY <2>2, <4>1, <4>2, <4>3
    <3>5. QED
      BY <2>3, <3>1, <3>3, <3>4 DEF CallerStep
  <2>4. CASE \E d \in Caller : \E j \in Key : Call(d, j)
    BY <2>1, <2>4 DEF Call
  <2>5. CASE \E x \in Goroutine : DoStep(x)
    BY <2>1, <2>5 DEF DoStep, Lead, Join, FetchRead, FetchError, Store, Land
  <2>6. CASE \E j \in Key : Expire(j) \/ RemoteChange(j)
    BY <2>1, <2>6 DEF Expire, RemoteChange
  <2>7. CASE (\E e \in Happening : InvalidateEvent(e)) \/ \E p \in Prefix : Invalidate(p)
    BY <2>1, <2>7 DEF InvalidateEvent, Invalidate
  <2>8. CASE UNCHANGED cacheVars
    BY <2>1, <2>8 DEF cacheVars
  <2>9. QED
    BY <1>1, <2>3, <2>4, <2>5, <2>6, <2>7, <2>8 DEF CacheNext
<1>2. QED
  BY <1>1, CacheInvInit, CacheInvNext, PTL DEF CacheSpec, MonotonicReads
=============================================================================
