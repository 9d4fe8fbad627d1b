------------------------------ MODULE Provider ------------------------------
(***************************************************************************)
(* The hosting adapters, each method as the requests it makes of the panel *)
(* and what it does when one fails: cpanel and smallhost through the       *)
(* registry, and the read-only DirectAdmin client.  One method runs at a   *)
(* time on an account.                                                     *)
(*                                                                         *)
(* A domain is a sequence of labels, a label a sequence of words: what     *)
(* stands between two labels is a dot, between two words a dash.           *)
(***************************************************************************)
EXTENDS PanelTransport

LOCAL INSTANCE SequencesExt

CONSTANTS
    Domains,      \* the domains to call the methods with
    Databases,    \* the databases, as <<dbType, name>>
    InitPanels    \* the accounts to start from

\* An account starts as the panel leaves it: a grant is one to a user on a
\* database that both exist.
ASSUME ProviderAssumption ==
    \A account \in InitPanels : \A obj \in account :
        obj[1] = "grant" => {<<"db", obj[2]>>, <<"user", obj[2]>>} \subseteq account

VARIABLES
    method   \* the method under way

providerVars == <<profile, panel, wire, ctx, method>>

NoOp == [name |-> "none", arg |-> <<>>, pc |-> "idle", at |-> 0, err |-> "nil", before |-> {}]
-----------------------------------------------------------------------------
(* From a profile of config.json to an adapter.                            *)

\* Register, from init of the adapter packages.  DirectAdmin has no adapter:
\* doctor builds its client itself.
Registered == {"smallhost", "cpanel"}

\* validateConfig: port 0 stands for 22.
validateConfig(cfg) ==
    /\ cfg.alias # "" /\ cfg.host # "" /\ cfg.user # ""
    /\ (IF cfg.port = 0 THEN 22 ELSE cfg.port) \in 1..65535

\* A property that is absent keeps its default.
applyEnumProperty(raw, key, allowed) == key \in DOMAIN raw => raw[key] \in allowed
applyIntProperty(raw, key, lo, hi) == key \in DOMAIN raw => raw[key] \in lo..hi
Property(raw, key, default) == IF key \in DOMAIN raw THEN raw[key] ELSE default

parseCpanelProperties(raw) ==
    /\ applyEnumProperty(raw, "restart_method", {"passenger", "app_manager"})
    /\ applyEnumProperty(raw, "node_selector", {"cloudlinux_selector", "app_manager", "none"})
    /\ applyEnumProperty(raw, "ssl_provider", {"autossl", "manual"})
    /\ applyEnumProperty(raw, "domain_kind", {"addon", "subdomain"})
    /\ applyIntProperty(raw, "api_port", 1, 65535)
    /\ applyIntProperty(raw, "autossl_poll_seconds", 0, 600)

parseSmallhostProperties(raw) ==
    /\ applyEnumProperty(raw, "restart_method", {"devil"})
    /\ applyIntProperty(raw, "ssh_pool_max", 1, 16)
    /\ applyEnumProperty(raw, "ssh_algorithms_legacy_compat", BOOLEAN)

\* The factories, which the registry calls with their own type.
cpanelNew(cfg) == IF parseCpanelProperties(cfg.properties) THEN "nil" ELSE "invalidConfig"
smallhostNew(cfg) == IF parseSmallhostProperties(cfg.properties) THEN "nil" ELSE "invalidConfig"

\* registry.New: the type is looked up before the shared fields are checked,
\* and these before the adapter's own properties.
New(cfg) ==
    CASE cfg.adapter \notin Registered -> "unknownProvider"
      [] cfg.adapter \in Registered /\ ~validateConfig(cfg) -> "invalidConfig"
      [] cfg.adapter = "cpanel" /\ validateConfig(cfg) -> cpanelNew(cfg)
      [] cfg.adapter = "smallhost" /\ validateConfig(cfg) -> smallhostNew(cfg)

ProviderInit ==
    /\ profile \in {p \in Profiles : New(p) = "nil" \/ p.adapter = "directadmin"}
    /\ panel \in InitPanels
    /\ wire = NoWire /\ ctx = "live"
    /\ method = NoOp

DomainKind == Property(profile.properties, "domain_kind", "addon")
SSLProvider == Property(profile.properties, "ssl_provider", "autossl")
AutoSSLPollSeconds == Property(profile.properties, "autossl_poll_seconds", 0)
-----------------------------------------------------------------------------
(* The cpanel adapter: the requests of each method, in order.              *)

\* resolveAppRoot: dots become dashes, so what is left is the words.
resolveAppRoot(d) == FlattenSeq(d)

addDomain(d) ==
    Request(IF DomainKind = "subdomain" THEN "AddSubdomain" ELSE "AddAddonDomain", d)
deleteDomain(d) ==
    Request(IF DomainKind = "subdomain" THEN "DeleteSubdomain" ELSE "DeleteDomain", d)

cpanelCreateSubdomain(d) == <<addDomain(d), Request("CreatePassengerApp", resolveAppRoot(d))>>
cpanelSetupSSL(d) == <<Request("StartAutoSSL", d)>>
cpanelCreateDatabase(db) ==
    <<Request("CreateMysqlDatabase", db), Request("CreateMysqlUser", db),
      Request("SetMysqlPrivileges", db)>>
cpanelRestartNodeApp(d) == <<Request("RestartPassengerApp", resolveAppRoot(d))>>
cpanelTailLog(d) == <<Request("tail", d)>>
cpanelCheckStatus == <<Request("ListDomains", "all")>>
cpanelListSubdomains == <<Request("ListPassengerApps", "all")>>
cpanelRemoveSubdomain(d) == <<Request("DeletePassengerApp", resolveAppRoot(d)), deleteDomain(d)>>
cpanelRemoveDatabase(db) == <<Request("DeleteMysqlUser", db), Request("DeleteMysqlDatabase", db)>>
cpanelRemoveSSL(d) == <<Request("DeleteSSL", d)>>

cpanelScript(name, a) ==
    CASE name = "CreateSubdomain" -> cpanelCreateSubdomain(a)
      [] name = "SetupSSL" -> cpanelSetupSSL(a)
      [] name = "CreateDatabase" -> cpanelCreateDatabase(a)
      [] name = "RestartNodeApp" -> cpanelRestartNodeApp(a)
      [] name = "TailLog" -> cpanelTailLog(a)
      [] name = "CheckStatus" -> cpanelCheckStatus
      [] name = "ListSubdomains" -> cpanelListSubdomains
      [] name = "RemoveSubdomain" -> cpanelRemoveSubdomain(a)
      [] name = "RemoveDatabase" -> cpanelRemoveDatabase(a)
      [] name = "RemoveSSL" -> cpanelRemoveSSL(a)
-----------------------------------------------------------------------------
(* The smallhost adapter.  A devil domain is domain and application in one.  *)

\* Certificates hang on the account's address, asked for each time.
accountIP == Request("vhost_list", "all")

smallhostCreateSubdomain(d) == <<Request("www_add", d)>>
smallhostRestartNodeApp(d) == <<Request("www_restart", d)>>
smallhostListSubdomains == <<Request("www_list", "all")>>
smallhostRemoveSubdomain(d) == <<Request("www_del", d)>>
smallhostSetupSSL(d) == <<accountIP, Request("ssl_add", d)>>
smallhostRemoveSSL(d) == <<accountIP, Request("ssl_del", d)>>
smallhostCreateDatabase(db) == <<Request("db_add", db)>>
smallhostRemoveDatabase(db) == <<Request("db_del", db)>>
smallhostTailLog(d) == <<Request("tail", d)>>
smallhostCheckStatus == <<Request("version", "all")>>

smallhostScript(name, a) ==
    CASE name = "CreateSubdomain" -> smallhostCreateSubdomain(a)
      [] name = "SetupSSL" -> smallhostSetupSSL(a)
      [] name = "CreateDatabase" -> smallhostCreateDatabase(a)
      [] name = "RestartNodeApp" -> smallhostRestartNodeApp(a)
      [] name = "TailLog" -> smallhostTailLog(a)
      [] name = "CheckStatus" -> smallhostCheckStatus
      [] name = "ListSubdomains" -> smallhostListSubdomains
      [] name = "RemoveSubdomain" -> smallhostRemoveSubdomain(a)
      [] name = "RemoveDatabase" -> smallhostRemoveDatabase(a)
      [] name = "RemoveSSL" -> smallhostRemoveSSL(a)
-----------------------------------------------------------------------------
(* The methods of HostingProvider, and the reads of the Live API's client.  *)

OnDomain == {"CreateSubdomain", "SetupSSL", "RestartNodeApp", "RemoveSubdomain",
             "RemoveSSL", "TailLog"}
OnDatabase == {"CreateDatabase", "RemoveDatabase"}
OnAccount == {"ListSubdomains", "CheckStatus"}
Creates == {"CreateSubdomain", "SetupSSL", "CreateDatabase"}
Removes == {"RemoveSubdomain", "RemoveDatabase", "RemoveSSL"}

Methods == IF profile.adapter = "directadmin" THEN DOMAIN LiveReads
           ELSE OnDomain \cup OnDatabase \cup OnAccount

Arguments(name) ==
    CASE name \in OnDomain -> Domains
      [] name \in OnDatabase -> Databases
      [] OTHER -> {"all"}

Script(name, a) ==
    CASE profile.adapter = "cpanel" -> cpanelScript(name, a)
      [] profile.adapter = "smallhost" -> smallhostScript(name, a)
      [] OTHER -> <<Request(name, a)>>

\* ValidateDomain of cpanel wants one to four labels before the TLD; that of
\* smallhost one label or more.
cpanelValidateDomain(d) == Len(d) \in 2..5
smallhostValidateDomain(d) == Len(d) >= 1

\* ValidateDBName, and the kinds of database each adapter can make.
cpanelValidateDB(db) == db[1] = "mysql" /\ db[2] # ""
smallhostValidateDB(db) == db[2] # "" /\ db[1] \in {"mysql", "postgres"}

Valid(name, a) ==
    CASE name \in OnDomain -> IF Api = "uapi" THEN cpanelValidateDomain(a) ELSE smallhostValidateDomain(a)
      [] name \in OnDatabase -> IF Api = "uapi" THEN cpanelValidateDB(a) ELSE smallhostValidateDB(a)
      [] OTHER -> TRUE

\* errMissingSeam: the Reader, Mutator or SSHRunner a method needs; devil
\* has the one Executor.
Seam(name) ==
    CASE Api = "live" -> TRUE
      [] Api = "devil" \/ (Api = "uapi" /\ name = "TailLog") -> profile.runner
      [] Api = "uapi" /\ name \in OnAccount -> profile.reader
      [] OTHER -> profile.mutator
-----------------------------------------------------------------------------
Return(err) == method' = [method EXCEPT !.pc = "done", !.err = err]

\* A method is called: validation, the wiring, SetupSSL's manual mode.
Call(name, a) ==
    /\ method.pc = "idle"
    /\ LET o == [name |-> name, arg |-> a, pc |-> "run", at |-> 0, err |-> "nil",
                before |-> IF name \in Creates THEN panel ELSE {}]
           manual == Api = "uapi" /\ name = "SetupSSL" /\ SSLProvider = "manual"
       IN  method' = CASE ~Valid(name, a) -> [o EXCEPT !.pc = "done", !.err = "invalidConfig"]
                   [] Valid(name, a) /\ ~Seam(name) -> [o EXCEPT !.pc = "done", !.err = "unwired"]
                   [] Valid(name, a) /\ Seam(name) /\ manual ->
                         [o EXCEPT !.pc = "done", !.err = "invalidConfig"]
                   [] OTHER -> o
    /\ ctx' = "live"
    /\ wire' = NoWire
    /\ UNCHANGED <<profile, panel>>

\* Mutant: the account's user goes with the database in both cleanups.
Undo_Both(name, i, a) ==
    IF Api = "uapi" /\ name = "CreateDatabase" /\ i > 1
    THEN <<Request("DeleteMysqlUser", a), Request("DeleteMysqlDatabase", a)>> ELSE <<>>

\* CreateDatabase of cpanel: what it takes back when request i failed.
Undo(name, i, a) ==
    CASE Api = "uapi" /\ name = "CreateDatabase" /\ i = 2 -> <<Request("DeleteMysqlDatabase", a)>>
      [] Api = "uapi" /\ name = "CreateDatabase" /\ i = 3 ->
            <<Request("DeleteMysqlUser", a), Request("DeleteMysqlDatabase", a)>>
      [] OTHER -> <<>>

\* Mutant: a Remove method takes every error for "already gone".
mapResourceNotFound_Any(name, err) == IF name \in Removes THEN "nil" ELSE err

\* mapResourceNotFound: gone already is as good as removed.
mapResourceNotFound(name, err) ==
    IF err = "notfound" /\ name \in Removes THEN "nil" ELSE err

\* mapResourceExists.
mapResourceExists(name, err) ==
    CASE err = "exists" /\ name = "CreateSubdomain" -> "subdomainExists"
      [] err = "exists" /\ name = "CreateDatabase" -> "dbNameTaken"
      [] OTHER -> err

\* The error a method makes of a request's, the mappings of RestartNodeApp,
\* SetupSSL and CheckStatus of cpanel included.
Mapped(name, err) ==
    CASE Api = "uapi" /\ err = "notfound" /\ name = "RestartNodeApp" -> "appNotFound"
      [] Api = "uapi" /\ err = "denied" /\ name = "SetupSSL" -> "dns"
      [] Api = "uapi" /\ err = "auth" /\ name = "CheckStatus" -> "cliNotFound"
      [] Api = "uapi" /\ name \in Removes -> mapResourceNotFound(name, err)
      [] Api = "uapi" /\ name \in Creates /\ err # "denied" -> mapResourceExists(name, err)
      [] OTHER -> err
-----------------------------------------------------------------------------
\* Request i of the method, or of its cleanup, goes out.
Ask(requests, i) ==
    wire' = [NoWire EXCEPT !.pc = "choose", !.call = requests[i], !.faults = wire.faults]
HangUp == wire' = [NoWire EXCEPT !.faults = wire.faults]

First ==
    /\ method.pc = "run" /\ wire.pc = "off"
    /\ Ask(Script(method.name, method.arg), 1)
    /\ method' = [method EXCEPT !.at = 1]
    /\ UNCHANGED <<profile, panel, ctx>>

\* Request op.at of the method is over.
Proceed ==
    /\ method.pc = "run" /\ wire.pc = "over"
    /\ Mapped(method.name, wire.err) = "nil"
    /\ LET script == Script(method.name, method.arg)
       IN  IF method.at < Len(script)
           THEN Ask(script, method.at + 1) /\ method' = [method EXCEPT !.at = @ + 1]
           ELSE HangUp /\ method' =
               [method EXCEPT !.pc = IF Api = "uapi" /\ method.name = "SetupSSL"
                                        /\ AutoSSLPollSeconds > 0 THEN "settle" ELSE "done"]
    /\ UNCHANGED <<profile, panel, ctx>>

RequestFails ==
    /\ method.pc = "run" /\ wire.pc = "over"
    /\ LET e == Mapped(method.name, wire.err)
           undo == Undo(method.name, method.at, method.arg)
       IN  /\ e # "nil"
           /\ IF undo = <<>>
              THEN Return(e) /\ HangUp
              ELSE method' = [method EXCEPT !.pc = "undo1", !.err = e] /\ Ask(undo, 1)
    /\ UNCHANGED <<profile, panel, ctx>>

\* A request of the best-effort cleanup is over; its outcome is ignored.
Undone ==
    /\ method.pc \in {"undo1", "undo2"} /\ wire.pc = "over"
    /\ LET undo == Undo(method.name, method.at, method.arg)
       IN  IF method.pc = "undo1" /\ Len(undo) > 1
           THEN method' = [method EXCEPT !.pc = "undo2"] /\ Ask(undo, 2)
           ELSE method' = [method EXCEPT !.pc = "done"] /\ HangUp
    /\ UNCHANGED <<profile, panel, ctx>>

\* SetupSSL of cpanel waits for AutoSSL, or for the end of the context.
SettleWait ==
    /\ method.pc = "settle"
    /\ \/ Return("nil")
       \/ ctx = "done" /\ Return("ctx")
    /\ UNCHANGED <<profile, panel, wire, ctx>>

\* The method returns.
Finish ==
    /\ method.pc = "done"
    /\ method' = NoOp /\ wire' = NoWire /\ ctx' = "live"
    /\ UNCHANGED <<profile, panel>>

ProviderStep ==
    \/ WireStep /\ UNCHANGED <<method>>
    \/ First \/ Proceed \/ RequestFails \/ Undone \/ SettleWait \/ Finish

ProviderNext ==
    \/ \E name \in Methods : \E a \in Arguments(name) : Call(name, a)
    \/ method.pc \notin {"idle", "done"} /\ CtxDone /\ UNCHANGED <<method>>
    \/ ProviderStep
    \/ SilenceEnds /\ UNCHANGED <<method>>

ProviderSpec == ProviderInit /\ [][ProviderNext]_providerVars

\* The goroutine that runs the method runs, and the HTTP client's timeout ends
\* an HTTPS round trip.  Nothing ends the silence of an SSH server: ssh.Exec
\* waits for its session after the context is done (SSHExec!OnServer).
FairProviderSpec == ProviderSpec /\ WF_providerVars(ProviderStep)
-----------------------------------------------------------------------------
Done(names) == method.pc = "done" /\ method.name \in names

\* What a Create method makes, and a Remove method must take away.
Made(name, a) ==
    LET s == Script(name, a)
    IN  {Object(s[i]) : i \in {j \in DOMAIN s : Verb(s[j]) \in {"add", "set", "del"}}}

\* A Remove method that returns nil has left nothing of its resource on the
\* account, whichever of its requests were lost, replayed, answered "not
\* found" or taken over by SSH: the rollback may forget it (RemoveSubdomain,
\* RemoveDatabase, RemoveSSL of both adapters).
RemovedMeansGone ==
    Done(Removes) /\ method.err = "nil"
        => Made(method.name, method.arg) \cap panel = {}

\* A Create method that returns nil has left all of its resource there: no
\* error of a middle request is swallowed, and "exists" is never taken for
\* a success (CreateSubdomain, SetupSSL, CreateDatabase).
CreatedMeansThere ==
    Done(Creates) /\ method.err = "nil" => Made(method.name, method.arg) \subseteq panel

\* What a method reports is what the account holds.
AnswersTrue == RemovedMeansGone /\ CreatedMeansThere

\* The cleanup inside CreateDatabase takes back only what this call made:
\* while a Create method runs and when it has failed, everything that was on
\* the account before is still there.
PreexistingSurvive == method.name \in Creates => method.before \subseteq panel

\* Every method returns, through retries, fail-over and cleanup, unless one of
\* its SSH requests is for ever without an answer.
MethodReturns == (method.pc # "idle" ~> method.pc = "idle") \/ <>[]WireAt("silent")
=============================================================================
