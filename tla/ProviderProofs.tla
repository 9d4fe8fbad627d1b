--------------------------- MODULE ProviderProofs ---------------------------
(***************************************************************************)
(* Proofs about the hosting adapters and about the store of the secrets    *)
(* they connect with.  First Provider: for every account, profile and      *)
(* number of retries, what a method reports is what the panel holds, and a *)
(* cleanup takes back no more than was made.  Then SecretStore, which      *)
(* shares no state with it: for every set of processes, accounts, tokens   *)
(* and passwords, and any number of operations, some password opens the    *)
(* vault, what was saved is what the next start finds, and no probe stays. *)
(***************************************************************************)
EXTENDS Provider, SecretStore, TLAPS

(***************************************************************************)
(* What a method has asked of the panel, and what has come of it.          *)
(***************************************************************************)
Requests == Script(method.name, method.arg)
Cleanup == Undo(method.name, method.at, method.arg)

\* A request that changes the account is one the adapter in use can make.
Known(call) ==
    Verb(call) # "read" =>
        \/ Api = "uapi" /\ call.fn \in MutatorFunctions
        \/ Api = "devil" /\ call.fn \in DOMAIN DevilVerbs

\* The legs such a request goes over.
Legs == IF Api = "uapi" THEN {"https", "ssh"} ELSE {"shell"}

\* What the end of a request says of the account.
CarriedOut(call, err, account) ==
    /\ err = "nil" /\ Verb(call) \in {"add", "set"} => Object(call) \in account
    /\ err \in {"nil", "notfound"} /\ Verb(call) = "del" => Object(call) \notin account

CarriedOutTo(k) == \A j \in 1..k : CarriedOut(Requests[j], "nil", panel)

\* A grant stands on its database and its user.
Backed(account) ==
    \A n : <<"grant", n>> \in account => <<"db", n>> \in account /\ <<"user", n>> \in account

WireShape ==
    /\ DOMAIN wire = {"pc", "call", "via", "attempt", "err", "faults"}
    /\ wire.pc \in {"off", "choose", "enter", "send", "silent", "pause", "over"}
    /\ DOMAIN method = {"name", "arg", "pc", "at", "err", "before"}
    /\ method.pc \in {"idle", "run", "undo1", "undo2", "settle", "done"}
    /\ profile.adapter \in {"cpanel", "smallhost", "directadmin"}

\* The request under way is the one the method, or its cleanup, has come to,
\* and it goes over a leg whose answers are read as what they are.
Position ==
    /\ method.pc # "idle" => method.name \in Methods
    /\ method.pc = "run" =>
          IF wire.pc = "off" THEN method.at = 0
          ELSE method.at \in 1..Len(Requests) /\ wire.call = Requests[method.at]
    /\ method.pc = "undo1" => Cleanup # <<>> /\ wire.call = Cleanup[1]
    /\ method.pc = "undo2" => Len(Cleanup) > 1 /\ wire.call = Cleanup[2]
    /\ method.pc \in {"undo1", "undo2"} => method.err # "nil" /\ wire.pc # "off"
    /\ method.pc \in {"idle", "settle", "done"} => wire.pc = "off"
    /\ wire.pc \in {"enter", "send", "silent", "pause"} /\ Verb(wire.call) # "read" =>
          wire.via \in Legs
    /\ wire.pc = "pause" => wire.via = "https"

\* A request that is over says what the account holds, and so do the earlier
\* ones of the method, to its end.
Progress ==
    /\ wire.pc = "over" => CarriedOut(wire.call, wire.err, panel)
    /\ method.pc = "run" => CarriedOutTo(method.at - 1)
    /\ method.pc = "settle" \/ (method.pc = "done" /\ method.err = "nil") =>
          CarriedOutTo(Len(Requests))

\* What a Create method found is still there: a request that reports success
\* made something new, so what the cleanup takes back was not there before.
Survival ==
    /\ Backed(panel)
    /\ method.name \in Creates => method.before \subseteq panel /\ Backed(method.before)
    /\ method.name \in Creates /\ method.pc = "run" /\ wire.pc = "over" /\ wire.err = "nil"
          /\ Verb(wire.call) = "add" => Object(wire.call) \notin method.before
    /\ method.name = "CreateDatabase" /\ Api = "uapi"
          /\ method.pc \in {"run", "undo1", "undo2"} =>
             /\ method.at \in {2, 3} => <<"db", method.arg>> \notin method.before
             /\ method.at = 3 => <<"user", method.arg>> \notin method.before

ProviderInv == WireShape /\ Position /\ Progress /\ Survival

-----------------------------------------------------------------------------
\* What the functions the adapters ask for do, and to what.
LEMMA Verbs ==
    /\ \A n : \A fn \in {"AddAddonDomain", "AddSubdomain", "CreatePassengerApp",
                         "CreateMysqlDatabase", "CreateMysqlUser", "www_add", "db_add"} :
          Verb(Request(fn, n)) = "add"
    /\ \A n : \A fn \in {"SetMysqlPrivileges", "StartAutoSSL", "InstallSSL", "ssl_add"} :
          Verb(Request(fn, n)) = "set"
    /\ \A n : \A fn \in {"DeleteDomain", "DeleteSubdomain", "DeletePassengerApp",
                         "DeleteMysqlDatabase", "DeleteMysqlUser", "DeleteSSL",
                         "www_del", "ssl_del", "db_del"} :
          Verb(Request(fn, n)) = "del"
    /\ \A n : \A fn \in {"RestartPassengerApp", "EditPassengerApp", "www_restart"} :
          Verb(Request(fn, n)) = "touch"
    /\ \A n : \A fn \in {"tail", "www_list", "vhost_list", "version"} : Verb(Request(fn, n)) = "read"
    /\ \A n : \A fn \in UapiReader : Verb(Request(fn, n)) = "read"
    /\ \A n : \A fn \in LiveReader : Verb(Request(fn, n)) = "read"
<1> USE DEF Verb, Request, MutatorFunctions, MutatorVerbs, DevilVerbs, UapiReader, UapiReads,
            LiveReader, LiveReads
<1>1. \A n : \A fn \in {"AddAddonDomain", "AddSubdomain", "CreatePassengerApp",
                        "CreateMysqlDatabase", "CreateMysqlUser", "www_add", "db_add"} :
          Verb(Request(fn, n)) = "add"
  OBVIOUS
<1>2. \A n : \A fn \in {"SetMysqlPrivileges", "StartAutoSSL", "InstallSSL", "ssl_add"} :
          Verb(Request(fn, n)) = "set"
  OBVIOUS
<1>3. \A n : \A fn \in {"DeleteDomain", "DeleteSubdomain", "DeletePassengerApp",
                        "DeleteMysqlDatabase", "DeleteMysqlUser", "DeleteSSL",
                        "www_del", "ssl_del", "db_del"} :
          Verb(Request(fn, n)) = "del"
  OBVIOUS
<1>4. \A n : \A fn \in {"RestartPassengerApp", "EditPassengerApp", "www_restart"} :
          Verb(Request(fn, n)) = "touch"
  OBVIOUS
<1>5. /\ \A n : \A fn \in {"tail", "www_list", "vhost_list", "version"} :
            Verb(Request(fn, n)) = "read"
      /\ \A n : \A fn \in UapiReader : Verb(Request(fn, n)) = "read"
      /\ \A n : \A fn \in LiveReader : Verb(Request(fn, n)) = "read"
  OBVIOUS
<1>6. QED
  BY <1>1, <1>2, <1>3, <1>4, <1>5

LEMMA VerbRange ==
    ASSUME NEW call
    PROVE  /\ Verb(call) \in {"add", "set", "del", "touch", "read"}
           /\ call.fn = "SetMysqlPrivileges" => Verb(call) = "set"
<1>0. /\ \A fn \in MutatorFunctions : MutatorVerbs[fn] \in {"add", "set", "del", "touch"}
      /\ "SetMysqlPrivileges" \in MutatorFunctions
      /\ MutatorVerbs["SetMysqlPrivileges"] = "set"
  BY DEF MutatorFunctions, MutatorVerbs
<1>1. CASE call.fn \in MutatorFunctions
  <2>1. call.fn \notin DOMAIN DevilVerbs
    BY <1>1 DEF MutatorFunctions, MutatorVerbs, DevilVerbs
  <2>2. Verb(call) = MutatorVerbs[call.fn]
    BY <1>1, <2>1 DEF Verb
  <2>3. QED
    BY <1>0, <1>1, <2>2
<1>2. CASE call.fn \notin MutatorFunctions /\ call.fn \in DOMAIN DevilVerbs
  BY <1>2 DEF Verb, DevilVerbs
<1>3. CASE call.fn \notin MutatorFunctions /\ call.fn \notin DOMAIN DevilVerbs
  BY <1>3, <1>0 DEF Verb
<1>4. QED
  BY <1>0, <1>1, <1>2, <1>3

\* Only SetMysqlPrivileges makes a grant; an object has the request's name.
LEMMA Objects ==
    ASSUME NEW call
    PROVE  /\ Object(call) = <<Object(call)[1], call.name>>
           /\ Object(call)[1] = "grant" => call.fn = "SetMysqlPrivileges"
<1> DEFINE kind == CASE call.fn \in MutatorFunctions -> MutatorSubjects[call.fn]
                     [] call.fn \in DOMAIN DevilSubjects -> DevilSubjects[call.fn]
                     [] call.fn \in UapiReader -> UapiReads[call.fn]
                     [] call.fn \in LiveReader \ UapiReader -> LiveReads[call.fn]
                     [] OTHER -> "log"
<1>1. Object(call) = <<kind, call.name>>
  BY DEF Object
<1>2. kind = "grant" => call.fn = "SetMysqlPrivileges"
  BY DEF MutatorFunctions, MutatorVerbs, MutatorSubjects, DevilSubjects, UapiReader, UapiReads,
         LiveReader, LiveReads
<1> HIDE DEF kind
<1>3. QED
  BY <1>1, <1>2

LEMMA DatabaseObjects ==
    ASSUME NEW n
    PROVE  /\ \A fn \in {"CreateMysqlDatabase", "DeleteMysqlDatabase"} :
                 Object(Request(fn, n)) = <<"db", n>>
           /\ \A fn \in {"CreateMysqlUser", "DeleteMysqlUser"} :
                 Object(Request(fn, n)) = <<"user", n>>
BY DEF Object, Request, MutatorFunctions, MutatorVerbs, MutatorSubjects, DevilSubjects,
       UapiReader, UapiReads, LiveReader, LiveReads

\* What a request does to an account.
LEMMA Effects ==
    ASSUME NEW call
    PROVE  /\ Verdict(call) \in {"ok", "exists", "notfound"}
           /\ Verb(call) \in {"add", "set"} =>
                 /\ panel \subseteq Effect(call)
                 /\ Effect(call) \subseteq panel \cup {Object(call)}
                 /\ Verdict(call) = "ok" => Object(call) \in Effect(call)
           /\ Verb(call) = "add" /\ Verdict(call) = "ok" => Object(call) \notin panel
           /\ Verb(call) = "del" =>
                 /\ Effect(call) \subseteq panel /\ panel \ Gone(Object(call)) \subseteq Effect(call)
                 /\ Verdict(call) \in {"ok", "notfound"} => Object(call) \notin Effect(call)
           /\ Verb(call) \in {"read", "touch"} => Effect(call) = panel
           /\ Backed(panel) => Backed(Effect(call))
<1>1. Verb(call) \in {"add", "set", "del", "touch", "read"}
  BY VerbRange
<1>2. Verdict(call) \in {"ok", "exists", "notfound"}
  BY DEF Verdict
<1>3. /\ Verb(call) = "add" /\ Verdict(call) = "ok" => Object(call) \notin panel
      /\ Verdict(call) = "notfound" /\ Verb(call) = "del" => Object(call) \notin panel
  <2>1. call.fn = "SetMysqlPrivileges" => Verb(call) = "set"
    BY VerbRange
  <2>2. QED
    BY <2>1 DEF Verdict
<1>4. Verb(call) \in {"add", "set"} =>
          Effect(call) = IF Verdict(call) = "ok" THEN panel \cup {Object(call)} ELSE panel
  <2> SUFFICES ASSUME Verb(call) \in {"add", "set"}
               PROVE  Effect(call) = IF Verdict(call) = "ok" THEN panel \cup {Object(call)}
                                     ELSE panel
    OBVIOUS
  <2>1. CASE Verdict(call) = "ok"
    BY <2>1 DEF Effect
  <2>2. CASE Verdict(call) # "ok"
    BY <2>2 DEF Effect
  <2>3. QED
    BY <2>1, <2>2
<1>5. Verb(call) = "del" =>
          Effect(call) = IF Verdict(call) = "ok" THEN panel \ Gone(Object(call)) ELSE panel
  <2> SUFFICES ASSUME Verb(call) = "del"
               PROVE  Effect(call) = IF Verdict(call) = "ok" THEN panel \ Gone(Object(call))
                                     ELSE panel
    OBVIOUS
  <2>1. CASE Verdict(call) = "ok"
    BY <2>1 DEF Effect
  <2>2. CASE Verdict(call) # "ok"
    BY <2>2 DEF Effect
  <2>3. QED
    BY <2>1, <2>2
<1>6. Verb(call) \in {"read", "touch"} => Effect(call) = panel
  BY DEF Effect
<1>7. Object(call) \in Gone(Object(call))
  BY DEF Gone
<1>8. Verb(call) = "del" /\ Verdict(call) \in {"ok", "notfound"} => Object(call) \notin Effect(call)
  BY <1>3, <1>5, <1>7
<1>9. Backed(panel) => Backed(Effect(call))
  <2> SUFFICES ASSUME Backed(panel), NEW n, <<"grant", n>> \in Effect(call)
               PROVE  <<"db", n>> \in Effect(call) /\ <<"user", n>> \in Effect(call)
    BY DEF Backed
  <2>1. CASE <<"grant", n>> \notin panel
    <3>1. Verb(call) \in {"add", "set"} /\ Verdict(call) = "ok" /\ Object(call) = <<"grant", n>>
      BY <1>1, <1>4, <1>5, <1>6, <2>1
    <3>2. call.fn = "SetMysqlPrivileges" /\ call.name = n
      BY <3>1, Objects
    <3>3. Verb(call) = "set"
      BY <3>2, VerbRange
    <3>4. {<<"db", n>>, <<"user", n>>} \subseteq panel
      BY <3>1, <3>2, <3>3 DEF Verdict
    <3>5. QED
      BY <1>4, <3>1, <3>4
  <2>2. CASE <<"grant", n>> \in panel
    <3>1. <<"db", n>> \in panel /\ <<"user", n>> \in panel
      BY <2>2 DEF Backed
    <3>2. CASE Verb(call) = "del" /\ Verdict(call) = "ok"
      <4>1. <<"grant", n>> \notin Gone(Object(call))
        BY <1>5, <3>2
      <4>2. \A kind \in {"db", "user"} : <<kind, n>> \notin Gone(Object(call))
        <5> SUFFICES ASSUME NEW kind \in {"db", "user"}, <<kind, n>> \in Gone(Object(call))
                     PROVE  FALSE
          OBVIOUS
        <5>1. <<kind, n>> = Object(call)
          BY DEF Gone
        <5>2. Object(call)[1] \in {"db", "user"} /\ Object(call)[2] = n
          BY <5>1
        <5>3. QED
          BY <4>1, <5>2 DEF Gone
      <4>3. QED
        BY <1>5, <3>1, <3>2, <4>2
    <3>3. CASE ~(Verb(call) = "del" /\ Verdict(call) = "ok")
      BY <1>1, <1>4, <1>5, <1>6, <3>1, <3>3
    <3>4. QED
      BY <3>2, <3>3
  <2>3. QED
    BY <2>1, <2>2
<1>10. QED
  BY <1>2, <1>3, <1>4, <1>5, <1>6, <1>8, <1>9

\* How an answer to a request that changes the account is read: a success is
\* one, and so is "not found" for a deletion.
LEMMA Readings ==
    ASSUME NEW call, NEW via, NEW answer, NEW err \in Reading(call, via, answer),
           Known(call), Verb(call) # "read",
           via \in Legs,
           answer \in {"ok", "exists", "notfound"} \cup Declined(call, via)
                      \cup Inconclusive(via) \cup {"none"}
    PROVE  /\ classifyMutationError(err) = "nil" =>
                 answer = "ok" \/ (answer = "notfound" /\ Verb(call) = "del")
           /\ classifyMutationError(err) = "notfound" => answer = "notfound"
<1>1. CASE Api = "uapi"
  <2>1. Declined(call, via) \subseteq {"401", "429", "4xx", "denied", "failure"}
    BY <1>1 DEF Declined, Legs
  <2>2. Inconclusive(via) \subseteq {"none", "cut", "5xx", "garbled"}
    BY <1>1 DEF Inconclusive, Legs
  <2>3. answer \in {"ok", "exists", "notfound", "401", "429", "4xx", "denied", "failure",
                    "none", "cut", "5xx", "garbled"}
    BY <2>1, <2>2
  <2>4. CASE via = "ssh"
    <3>1. err = fallbackCall(answer)
      BY <1>1, <2>4 DEF Reading, mutatorCall
    <3>2. \/ answer = "ok" /\ err = "nil"
          \/ answer = "notfound" /\ err = "failure: does not exist"
          \/ /\ answer \notin {"ok", "notfound"}
             /\ err \notin {"nil", "failure: does not exist", "notfound"}
      BY <2>3, <3>1 DEF fallbackCall, uapiPoolRun, isModuleDenied, APIResultFailure
    <3>3. QED
      BY <3>2 DEF classifyMutationError
  <2>5. CASE via = "https"
    <3>1. err = singleCall(answer)
      BY <1>1, <2>5 DEF Reading
    <3>2. \/ answer = "ok" /\ err = "nil"
          \/ answer = "notfound" /\ err = "failure: does not exist"
          \/ /\ answer \notin {"ok", "notfound"}
             /\ err \notin {"nil", "failure: does not exist", "notfound"}
      BY <2>3, <3>1 DEF singleCall, isModuleDenied, APIResultFailure
    <3>3. QED
      BY <3>2 DEF classifyMutationError
  <2>6. QED
    BY <1>1, <2>4, <2>5 DEF Legs
<1>2. CASE Api # "uapi"
  <2>1. Api = "devil" /\ call.fn \in DOMAIN DevilVerbs /\ via = "shell"
    BY <1>2 DEF Known, Legs
  <2>2. Declined(call, via) \subseteq {"invalid node version", "not a nodejs domain",
                                       "dns not configured", "rate limit"}
    BY <2>1 DEF Declined
  <2>3. Inconclusive(via) \subseteq {"none", "garbled"}
    BY <2>1 DEF Inconclusive
  <2>4. answer \in {"ok", "exists", "notfound", "invalid node version", "not a nodejs domain",
                    "dns not configured", "rate limit", "none", "garbled"}
    BY <2>2, <2>3
  <2>5. err \in {devil(call, answer), "exec"}
    BY <2>1 DEF Reading
  <2>6. /\ call.fn \in {"www_add", "www_restart", "www_del", "ssl_add", "ssl_del", "db_add", "db_del"}
        /\ call.fn \in {"www_del", "ssl_del", "db_del"} => Verb(call) = "del"
    <3>1. call.fn \notin MutatorFunctions
      BY <2>1 DEF MutatorFunctions, MutatorVerbs, DevilVerbs
    <3>2. Verb(call) = DevilVerbs[call.fn]
      BY <2>1, <3>1 DEF Verb
    <3>3. QED
      BY <2>1, <3>2 DEF DevilVerbs
  <2>7. /\ devil(call, answer) = "nil" =>
             answer = "ok" \/ (answer = "notfound" /\ call.fn \in {"www_del", "ssl_del", "db_del"})
        /\ devil(call, answer) \notin {"failure: does not exist", "notfound"}
    BY <2>4, <2>6 DEF devil, parseWwwAdd, parseWwwRestart, parseDeleteOutcome, parseSSLAdd,
                      parseSSLDelete, parseDBAdd, parseDBDelete
  <2>8. \/ err = classifyMutationError(err)
        \/ err \in {"failure: already exists", "failure: does not exist"}
    BY DEF classifyMutationError
  <2>9. classifyMutationError("failure: already exists") = "exists"
    BY DEF classifyMutationError
  <2>10. QED
    BY <2>5, <2>6, <2>7, <2>8, <2>9
<1>3. QED
  BY <1>1, <1>2

\* Where a round trip that ended in err leaves the request.
LEMMA Settled ==
    ASSUME NEW err, NEW n, Settle(err, n),
           DOMAIN wire = {"pc", "call", "via", "attempt", "err", "faults"}
    PROVE  /\ DOMAIN wire' = DOMAIN wire /\ wire'.call = wire.call
           /\ wire'.pc \in {"pause", "enter", "over"}
           /\ wire'.via = wire.via \/ (wire.via = "https" /\ wire'.via = "ssh")
           /\ wire'.pc = "over" => wire'.err = classifyMutationError(err)
           /\ wire'.pc = "pause" => wire'.via = "https"
<1> DEFINE w == [wire EXCEPT !.faults = Counted(n)]
<1>1. /\ DOMAIN w = DOMAIN wire /\ w.call = wire.call /\ w.via = wire.via
  OBVIOUS
<1>2. \/ wire' = [w EXCEPT !.pc = "pause"] /\ w.via = "https"
      \/ wire' = [w EXCEPT !.pc = "enter", !.via = "ssh", !.attempt = 0] /\ w.via = "https"
      \/ wire' = [w EXCEPT !.pc = "over", !.err = classifyMutationError(err)]
  BY DEF Settle
<1> HIDE DEF w
<1>3. QED
  BY <1>1, <1>2

\* The requests of a method: a Remove only deletes, a Create only adds, the
\* others leave the account as it is.
Fits(call, name) ==
    /\ Known(call)
    /\ Verb(call) = "del" => name \in Removes
    /\ Verb(call) \in {"add", "set"} => name \in Creates

LEMMA Scripts ==
    ASSUME profile.adapter \in {"cpanel", "smallhost", "directadmin"},
           NEW name \in Methods, NEW a
    PROVE  /\ Len(Script(name, a)) \in {1, 2, 3}
           /\ \A j \in 1..Len(Script(name, a)) : Fits(Script(name, a)[j], name)
           /\ name = "CreateDatabase" /\ Api = "uapi" => Script(name, a) = cpanelCreateDatabase(a)
<1> DEFINE Good(s) == Len(s) \in {1, 2, 3} /\ \A j \in 1..Len(s) : Fits(s[j], name)
<1>0. /\ \A s : (\E c : s = <<c>> /\ Fits(c, name)) => Good(s)
      /\ \A s : (\E c, d : s = <<c, d>> /\ Fits(c, name) /\ Fits(d, name)) => Good(s)
      /\ \A s : (\E c, d, e : s = <<c, d, e>> /\ Fits(c, name) /\ Fits(d, name) /\ Fits(e, name))
            => Good(s)
  OBVIOUS
<1>1. CASE profile.adapter = "cpanel"
  <2>1. Api = "uapi" /\ Script(name, a) = cpanelScript(name, a)
    BY <1>1 DEF Api, Script
  <2>2. name \in OnDomain \cup OnDatabase \cup OnAccount
    BY <1>1 DEF Methods
  <2>3. \A n : /\ \A fn \in {"AddAddonDomain", "AddSubdomain", "CreatePassengerApp",
                             "CreateMysqlDatabase", "CreateMysqlUser", "SetMysqlPrivileges",
                             "StartAutoSSL"} : name \in Creates => Fits(Request(fn, n), name)
               /\ \A fn \in {"DeleteDomain", "DeleteSubdomain", "DeletePassengerApp",
                             "DeleteMysqlDatabase", "DeleteMysqlUser", "DeleteSSL"} :
                     name \in Removes => Fits(Request(fn, n), name)
               /\ \A fn \in {"RestartPassengerApp", "tail", "ListDomains", "ListPassengerApps"} :
                     Fits(Request(fn, n), name)
    <3> DEFINE F == {"AddAddonDomain", "AddSubdomain", "CreatePassengerApp",
                     "CreateMysqlDatabase", "CreateMysqlUser", "SetMysqlPrivileges",
                     "StartAutoSSL", "DeleteDomain", "DeleteSubdomain", "DeletePassengerApp",
                     "DeleteMysqlDatabase", "DeleteMysqlUser", "DeleteSSL", "RestartPassengerApp"}
    <3>1. \A n : \A fn \in F : Known(Request(fn, n))
      BY <2>1 DEF Known, Request, MutatorFunctions, MutatorVerbs
    <3>2. {"ListDomains", "ListPassengerApps"} \subseteq UapiReader
      BY DEF UapiReader, UapiReads
    <3>3. QED
      BY <3>1, <3>2, Verbs DEF Fits, Known
  <2>4. CASE name = "CreateSubdomain"
    <3>1. Script(name, a) = cpanelCreateSubdomain(a)
      BY <2>1, <2>4 DEF cpanelScript
    <3>2. QED
      BY <1>0, <2>3, <2>4, <3>1 DEF cpanelCreateSubdomain, addDomain, Creates, Removes
  <2>5. CASE name = "SetupSSL"
    <3>1. Script(name, a) = cpanelSetupSSL(a)
      BY <2>1, <2>5 DEF cpanelScript
    <3>2. QED
      BY <1>0, <2>3, <2>5, <3>1 DEF cpanelSetupSSL, Creates, Removes
  <2>6. CASE name = "CreateDatabase"
    <3>1. Script(name, a) = cpanelCreateDatabase(a)
      BY <2>1, <2>6 DEF cpanelScript
    <3>2. QED
      BY <1>0, <2>3, <2>6, <3>1 DEF cpanelCreateDatabase, Creates, Removes
  <2>7. CASE name = "RestartNodeApp"
    <3>1. Script(name, a) = cpanelRestartNodeApp(a)
      BY <2>1, <2>7 DEF cpanelScript
    <3>2. QED
      BY <1>0, <2>3, <2>7, <3>1 DEF cpanelRestartNodeApp, Creates, Removes
  <2>8. CASE name = "TailLog"
    <3>1. Script(name, a) = cpanelTailLog(a)
      BY <2>1, <2>8 DEF cpanelScript
    <3>2. QED
      BY <1>0, <2>3, <2>8, <3>1 DEF cpanelTailLog, Creates, Removes
  <2>9. CASE name = "CheckStatus"
    <3>1. Script(name, a) = cpanelCheckStatus
      BY <2>1, <2>9 DEF cpanelScript
    <3>2. QED
      BY <1>0, <2>3, <2>9, <3>1 DEF cpanelCheckStatus, Creates, Removes
  <2>10. CASE name = "ListSubdomains"
    <3>1. Script(name, a) = cpanelListSubdomains
      BY <2>1, <2>10 DEF cpanelScript
    <3>2. QED
      BY <1>0, <2>3, <2>10, <3>1 DEF cpanelListSubdomains, Creates, Removes
  <2>11. CASE name = "RemoveSubdomain"
    <3>1. Script(name, a) = cpanelRemoveSubdomain(a)
      BY <2>1, <2>11 DEF cpanelScript
    <3>2. QED
      BY <1>0, <2>3, <2>11, <3>1 DEF cpanelRemoveSubdomain, deleteDomain, Creates, Removes
  <2>12. CASE name = "RemoveDatabase"
    <3>1. Script(name, a) = cpanelRemoveDatabase(a)
      BY <2>1, <2>12 DEF cpanelScript
    <3>2. QED
      BY <1>0, <2>3, <2>12, <3>1 DEF cpanelRemoveDatabase, Creates, Removes
  <2>13. CASE name = "RemoveSSL"
    <3>1. Script(name, a) = cpanelRemoveSSL(a)
      BY <2>1, <2>13 DEF cpanelScript
    <3>2. QED
      BY <1>0, <2>3, <2>13, <3>1 DEF cpanelRemoveSSL, Creates, Removes
  <2>14. QED
    BY <2>2, <2>4, <2>5, <2>6, <2>7, <2>8, <2>9, <2>10, <2>11, <2>12, <2>13
    DEF OnDomain, OnDatabase, OnAccount
<1>2. CASE profile.adapter = "smallhost"
  <2>1. Api = "devil" /\ Script(name, a) = smallhostScript(name, a)
    BY <1>2 DEF Api, Script
  <2>2. name \in OnDomain \cup OnDatabase \cup OnAccount
    BY <1>2 DEF Methods
  <2>3. \A n : /\ \A fn \in {"www_add", "ssl_add", "db_add"} :
                     name \in Creates => Fits(Request(fn, n), name)
               /\ \A fn \in {"www_del", "ssl_del", "db_del"} :
                     name \in Removes => Fits(Request(fn, n), name)
               /\ \A fn \in {"www_restart", "tail", "www_list", "vhost_list", "version"} :
                     Fits(Request(fn, n), name)
    <3>1. \A n : \A fn \in {"www_add", "ssl_add", "db_add", "www_del", "ssl_del", "db_del",
                            "www_restart"} : Known(Request(fn, n))
      BY <2>1 DEF Known, Request, DevilVerbs
    <3>2. QED
      BY <3>1, Verbs DEF Fits, Known
  <2>4. CASE name = "CreateSubdomain"
    <3>1. Script(name, a) = smallhostCreateSubdomain(a)
      BY <2>1, <2>4 DEF smallhostScript
    <3>2. QED
      BY <1>0, <2>1, <2>3, <2>4, <3>1 DEF smallhostCreateSubdomain, Creates, Removes
  <2>5. CASE name = "SetupSSL"
    <3>1. Script(name, a) = smallhostSetupSSL(a)
      BY <2>1, <2>5 DEF smallhostScript
    <3>2. QED
      BY <1>0, <2>1, <2>3, <2>5, <3>1 DEF smallhostSetupSSL, accountIP, Creates, Removes
  <2>6. CASE name = "CreateDatabase"
    <3>1. Script(name, a) = smallhostCreateDatabase(a)
      BY <2>1, <2>6 DEF smallhostScript
    <3>2. QED
      BY <1>0, <2>1, <2>3, <2>6, <3>1 DEF smallhostCreateDatabase, Creates, Removes
  <2>7. CASE name = "RestartNodeApp"
    <3>1. Script(name, a) = smallhostRestartNodeApp(a)
      BY <2>1, <2>7 DEF smallhostScript
    <3>2. QED
      BY <1>0, <2>1, <2>3, <2>7, <3>1 DEF smallhostRestartNodeApp, Creates, Removes
  <2>8. CASE name = "TailLog"
    <3>1. Script(name, a) = smallhostTailLog(a)
      BY <2>1, <2>8 DEF smallhostScript
    <3>2. QED
      BY <1>0, <2>1, <2>3, <2>8, <3>1 DEF smallhostTailLog, Creates, Removes
  <2>9. CASE name = "CheckStatus"
    <3>1. Script(name, a) = smallhostCheckStatus
      BY <2>1, <2>9 DEF smallhostScript
    <3>2. QED
      BY <1>0, <2>1, <2>3, <2>9, <3>1 DEF smallhostCheckStatus, Creates, Removes
  <2>10. CASE name = "ListSubdomains"
    <3>1. Script(name, a) = smallhostListSubdomains
      BY <2>1, <2>10 DEF smallhostScript
    <3>2. QED
      BY <1>0, <2>1, <2>3, <2>10, <3>1 DEF smallhostListSubdomains, Creates, Removes
  <2>11. CASE name = "RemoveSubdomain"
    <3>1. Script(name, a) = smallhostRemoveSubdomain(a)
      BY <2>1, <2>11 DEF smallhostScript
    <3>2. QED
      BY <1>0, <2>1, <2>3, <2>11, <3>1 DEF smallhostRemoveSubdomain, Creates, Removes
  <2>12. CASE name = "RemoveDatabase"
    <3>1. Script(name, a) = smallhostRemoveDatabase(a)
      BY <2>1, <2>12 DEF smallhostScript
    <3>2. QED
      BY <1>0, <2>1, <2>3, <2>12, <3>1 DEF smallhostRemoveDatabase, Creates, Removes
  <2>13. CASE name = "RemoveSSL"
    <3>1. Script(name, a) = smallhostRemoveSSL(a)
      BY <2>1, <2>13 DEF smallhostScript
    <3>2. QED
      BY <1>0, <2>1, <2>3, <2>13, <3>1 DEF smallhostRemoveSSL, accountIP, Creates, Removes
  <2>14. QED
    BY <2>2, <2>4, <2>5, <2>6, <2>7, <2>8, <2>9, <2>10, <2>11, <2>12, <2>13
    DEF OnDomain, OnDatabase, OnAccount
<1>3. CASE profile.adapter = "directadmin"
  <2>1. Api = "live" /\ Script(name, a) = <<Request(name, a)>> /\ name \in LiveReader
    BY <1>3 DEF Api, Script, Methods, LiveReader
  <2>2. Verb(Request(name, a)) = "read"
    BY <2>1, Verbs
  <2>3. QED
    BY <1>0, <2>1, <2>2 DEF Fits, Known
<1>4. QED
  BY <1>1, <1>2, <1>3

\* The profile is fixed, and with it what a method asks for.
LEMMA Frame ==
    ASSUME profile' = profile
    PROVE  /\ Api' = Api /\ Methods' = Methods
           /\ \A name, a : Script(name, a)' = Script(name, a)
           /\ \A name, i, a : Undo(name, i, a)' = Undo(name, i, a)
           /\ \A call : Known(call)' <=> Known(call)
           /\ Legs' = Legs
<1>1. Api' = Api /\ Methods' = Methods /\ Legs' = Legs
  BY DEF Api, Methods, Legs
<1>2. \A a : addDomain(a)' = addDomain(a) /\ deleteDomain(a)' = deleteDomain(a)
  BY DEF addDomain, deleteDomain, DomainKind
<1>3. \A name, a : cpanelScript(name, a)' = cpanelScript(name, a)
  BY <1>2 DEF cpanelScript, cpanelCreateSubdomain, cpanelRemoveSubdomain
<1>4. \A name, a : Script(name, a)' = Script(name, a)
  BY <1>3 DEF Script
<1>5. \A name, i, a : Undo(name, i, a)' = Undo(name, i, a)
  BY <1>1 DEF Undo
<1>6. \A call : Known(call)' <=> Known(call)
  BY <1>1 DEF Known
<1>7. QED
  BY <1>1, <1>4, <1>5, <1>6

\* The cleanup of CreateDatabase, the only one there is.
LEMMA Cleanups ==
    ASSUME Cleanup # <<>>
    PROVE  /\ Api = "uapi" /\ method.name = "CreateDatabase" /\ method.at \in {2, 3}
           /\ Cleanup[1].name = method.arg
           /\ method.at = 2 => Cleanup = <<Request("DeleteMysqlDatabase", method.arg)>>
           /\ method.at = 3 => Cleanup = <<Request("DeleteMysqlUser", method.arg),
                                           Request("DeleteMysqlDatabase", method.arg)>>
<1>1. Api = "uapi" /\ method.name = "CreateDatabase" /\ (method.at = 2 \/ method.at = 3)
  BY DEF Cleanup, Undo
<1>2. CASE method.at = 2
  BY <1>1, <1>2 DEF Cleanup, Undo, Request
<1>3. CASE method.at = 3
  BY <1>1, <1>3 DEF Cleanup, Undo, Request
<1>4. QED
  BY <1>1, <1>2, <1>3

\* The request under way, whoever asked for it.
LEMMA Asked ==
    ASSUME ProviderInv, wire.pc # "off"
    PROVE  /\ Known(wire.call)
           /\ \/ /\ method.pc = "run" /\ Fits(wire.call, method.name)
                 /\ method.at \in 1..Len(Requests)
              \/ /\ method.pc \in {"undo1", "undo2"}
                 /\ Api = "uapi" /\ method.name = "CreateDatabase"
                 /\ wire.call \in {Request("DeleteMysqlDatabase", method.arg),
                                   Request("DeleteMysqlUser", method.arg)}
                 /\ wire.call = Request("DeleteMysqlUser", method.arg) => method.at = 3
                 /\ method.at \in {2, 3}
<1> USE DEF ProviderInv
<1>1. method.pc \in {"run", "undo1", "undo2"} /\ method.name \in Methods
  BY DEF WireShape, Position
<1>2. CASE method.pc = "run"
  <2>1. method.at \in 1..Len(Requests) /\ wire.call = Requests[method.at]
    BY <1>2 DEF Position
  <2>2. Fits(wire.call, method.name)
    BY <1>1, <2>1, Scripts DEF WireShape, Requests
  <2>3. QED
    BY <1>2, <2>1, <2>2 DEF Fits
<1>3. CASE method.pc \in {"undo1", "undo2"}
  <2>1. /\ Cleanup # <<>>
        /\ method.pc = "undo1" => wire.call = Cleanup[1]
        /\ method.pc = "undo2" => Len(Cleanup) > 1 /\ wire.call = Cleanup[2]
    BY <1>3 DEF Position
  <2>2. /\ wire.call \in {Request("DeleteMysqlDatabase", method.arg),
                          Request("DeleteMysqlUser", method.arg)}
        /\ wire.call = Request("DeleteMysqlUser", method.arg) => method.at = 3
        /\ method.at \in {2, 3} /\ Api = "uapi" /\ method.name = "CreateDatabase"
    <3>1. Request("DeleteMysqlDatabase", method.arg) # Request("DeleteMysqlUser", method.arg)
      BY DEF Request
    <3>2. QED
      BY <1>3, <2>1, <3>1, Cleanups
  <2>3. wire.call.fn \in MutatorFunctions
    BY <2>2 DEF Request, MutatorFunctions, MutatorVerbs
  <2>4. QED
    BY <1>3, <2>2, <2>3 DEF Known
<1>4. QED
  BY <1>1, <1>2, <1>3

\* A step of the request under way: where it may lead, and what it may do to
\* the account.
LEMMA WireMoves ==
    ASSUME ProviderInv, profile' = profile, method' = method, wire.pc # "off",
           DOMAIN wire' = DOMAIN wire, wire'.call = wire.call,
           wire'.pc \in {"enter", "send", "silent", "pause", "over"},
           wire'.pc # "over" /\ Verb(wire.call) # "read" => wire'.via \in Legs,
           wire'.pc = "pause" => wire'.via = "https",
           panel' \in {panel, Effect(wire.call)},
           wire'.pc = "over" =>
              /\ CarriedOut(wire.call, wire'.err, panel')
              /\ wire'.err = "nil" /\ Verb(wire.call) = "add" => Object(wire.call) \notin panel
    PROVE  ProviderInv'
<1> USE DEF ProviderInv
<1>1. /\ Api' = Api /\ Methods' = Methods /\ Requests' = Requests /\ Cleanup' = Cleanup
      /\ Legs' = Legs
  BY Frame DEF Requests, Cleanup
<1>2. WireShape'
  BY DEF WireShape
<1>3. Position'
  BY <1>1 DEF Position
<1>4. method.pc \in {"run", "undo1", "undo2"}
  BY Asked
<1>5. /\ Verb(wire.call) \in {"add", "set"} => panel \subseteq panel'
      /\ Verb(wire.call) = "del" =>
            panel' \subseteq panel /\ panel \ Gone(Object(wire.call)) \subseteq panel'
      /\ Verb(wire.call) \in {"read", "touch"} => panel' = panel
      /\ Verb(wire.call) \in {"add", "set", "del", "touch", "read"}
      /\ Backed(panel')
  BY Effects, VerbRange DEF Survival
<1>6. Progress'
  <2>1. CASE method.pc = "run"
    <3>1. Fits(wire.call, method.name) /\ method.at \in 1..Len(Requests)
      BY <2>1, Asked
    <3>2. \A j \in 1..Len(Requests) : Fits(Requests[j], method.name)
      BY <2>1, Scripts DEF Requests, WireShape, Position
    <3>3. Removes \cap Creates = {}
      BY DEF Removes, Creates
    <3>4. ASSUME NEW j \in 1..(method.at - 1) PROVE CarriedOut(Requests[j], "nil", panel')
      <4>1. j \in 1..Len(Requests)
        BY <2>1, <3>1, Scripts DEF Requests, WireShape, Position
      <4>2. CarriedOut(Requests[j], "nil", panel) /\ Fits(Requests[j], method.name)
        BY <2>1, <3>2, <4>1 DEF Progress, CarriedOutTo
      <4>3. QED
        BY <1>5, <3>1, <3>3, <4>2 DEF CarriedOut, Fits
    <3>5. QED
      BY <1>1, <2>1, <3>4 DEF Progress, CarriedOutTo
  <2>2. CASE method.pc \in {"undo1", "undo2"}
    BY <2>2 DEF Progress
  <2>3. QED
    BY <1>4, <2>1, <2>2
<1>7. ASSUME method.name \in Creates PROVE method.before \subseteq panel'
  <2>1. CASE method.pc = "run"
    <3>1. Verb(wire.call) # "del"
      BY <1>7, <2>1, Asked DEF Fits, Removes, Creates
    <3>2. QED
      BY <1>5, <1>7, <3>1 DEF Survival
  <2>2. CASE method.pc \in {"undo1", "undo2"}
    <3>1. /\ Api = "uapi" /\ method.name = "CreateDatabase"
          /\ wire.call \in {Request("DeleteMysqlDatabase", method.arg),
                            Request("DeleteMysqlUser", method.arg)}
          /\ wire.call = Request("DeleteMysqlUser", method.arg) => method.at = 3
          /\ method.at \in {2, 3}
      BY <2>2, Asked
    <3>2. /\ <<"db", method.arg>> \notin method.before
          /\ method.at = 3 => <<"user", method.arg>> \notin method.before
      BY <2>2, <3>1 DEF Survival
    <3>3. <<"grant", method.arg>> \notin method.before
      BY <1>7, <3>2 DEF Survival, Backed
    <3>4. /\ Verb(wire.call) = "del"
          /\ Object(wire.call) = IF wire.call = Request("DeleteMysqlUser", method.arg)
                                 THEN <<"user", method.arg>> ELSE <<"db", method.arg>>
      <4>1. Verb(wire.call) = "del"
        BY <3>1, Verbs
      <4>2. Request("DeleteMysqlDatabase", method.arg) # Request("DeleteMysqlUser", method.arg)
        BY DEF Request
      <4>3. QED
        BY <3>1, <4>1, <4>2, DatabaseObjects
    <3>5. Gone(Object(wire.call)) \cap method.before = {}
      BY <3>1, <3>2, <3>3, <3>4 DEF Gone
    <3>6. QED
      BY <1>5, <1>7, <3>4, <3>5 DEF Survival
  <2>3. QED
    BY <1>4, <2>1, <2>2
<1>8. Survival'
  BY <1>1, <1>5, <1>7 DEF Survival
<1>9. QED
  BY <1>2, <1>3, <1>6, <1>8

\* The round trip: what is read of an answer is what the panel did.
LEMMA Trips ==
    ASSUME ProviderInv, method' = method, Answered \/ Refused \/ Lost \/ SilenceEnds \/ NotSent
    PROVE  ProviderInv'
<1> USE DEF ProviderInv
<1> DEFINE Answers == {"ok", "exists", "notfound"} \cup Declined(wire.call, wire.via)
                      \cup Inconclusive(wire.via) \cup {"none"}
<1>1. wire.pc \in {"send", "silent"} /\ profile' = profile
  BY DEF Answered, Refused, Lost, SilenceEnds, NotSent, WireAt
<1>2. DOMAIN wire = {"pc", "call", "via", "attempt", "err", "faults"} /\ Known(wire.call)
  BY <1>1, Asked DEF WireShape
<1>3. Verb(wire.call) # "read" => wire.via \in Legs
  BY <1>1 DEF Position
<1>4. ASSUME NEW answer \in Answers, NEW err \in Reading(wire.call, wire.via, answer), NEW n,
             Settle(err, n), panel' \in {panel, Effect(wire.call)},
             \/ answer \notin {"ok", "notfound"}
             \/ answer = Verdict(wire.call) /\ panel' = Effect(wire.call)
      PROVE  ProviderInv'
  <2>1. /\ DOMAIN wire' = DOMAIN wire /\ wire'.call = wire.call
        /\ wire'.pc \in {"pause", "enter", "over"}
        /\ wire'.via = wire.via \/ (wire.via = "https" /\ wire'.via = "ssh")
        /\ wire'.pc = "over" => wire'.err = classifyMutationError(err)
        /\ wire'.pc = "pause" => wire'.via = "https"
    BY <1>2, <1>4, Settled
  <2>2. Verb(wire.call) # "read" => wire'.via \in Legs
    BY <1>3, <2>1 DEF Legs
  <2>3. Verb(wire.call) # "read" =>
          /\ classifyMutationError(err) = "nil" =>
                answer = "ok" \/ (answer = "notfound" /\ Verb(wire.call) = "del")
          /\ classifyMutationError(err) = "notfound" => answer = "notfound"
    BY <1>2, <1>3, <1>4, Readings
  <2>4. wire'.pc = "over" =>
          /\ CarriedOut(wire.call, wire'.err, panel')
          /\ wire'.err = "nil" /\ Verb(wire.call) = "add" => Object(wire.call) \notin panel
    BY <1>4, <2>1, <2>3, Effects DEF CarriedOut
  <2>5. QED
    BY <1>1, <1>4, <2>1, <2>2, <2>4, WireMoves
<1>5. CASE Answered
  <2>1. Verdict(wire.call) \in Answers
    BY Effects
  <2>2. QED
    BY <1>4, <1>5, <2>1 DEF Answered
<1>6. CASE Refused
  <2>1. PICK a \in Declined(wire.call, wire.via) : \E e \in Reading(wire.call, wire.via, a) :
          Settle(e, 1)
    BY <1>6 DEF Refused
  <2>2. a \notin {"ok", "notfound"}
    BY <2>1 DEF Declined
  <2>3. panel' = panel
    BY <1>6 DEF Refused
  <2>4. QED
    BY <1>4, <2>1, <2>2, <2>3
<1>7. CASE Lost
  <2>1. PICK a \in Inconclusive(wire.via) : \E e \in Reading(wire.call, wire.via, a) :
          Settle(e, 2)
    BY <1>7 DEF Lost
  <2>2. a \notin {"ok", "notfound"}
    BY <2>1 DEF Inconclusive
  <2>3. panel' \in {panel, Effect(wire.call)}
    BY <1>7 DEF Lost
  <2>4. QED
    BY <1>4, <2>1, <2>2, <2>3
<1>8. CASE SilenceEnds \/ NotSent
  BY <1>4, <1>8 DEF SilenceEnds, NotSent
<1>9. QED
  BY <1>5, <1>6, <1>7, <1>8

\* The steps that only move the request along.
LEMMA WireSteps ==
    ASSUME ProviderInv, method' = method, WireStep
    PROVE  ProviderInv'
<1> USE DEF ProviderInv
<1>1. CASE Answered \/ Refused \/ Lost \/ NotSent
  BY <1>1, Trips
<1>2. ASSUME wire.pc # "off", profile' = profile, panel' = panel,
             DOMAIN wire' = DOMAIN wire, wire'.call = wire.call,
             wire'.pc \in {"enter", "send", "silent", "over"},
             wire'.pc # "over" /\ Verb(wire.call) # "read" => wire'.via \in Legs,
             wire'.pc = "over" => wire'.err \notin {"nil", "notfound"}
      PROVE  ProviderInv'
  <2>1. wire'.pc = "over" =>
          /\ CarriedOut(wire.call, wire'.err, panel')
          /\ wire'.err = "nil" /\ Verb(wire.call) = "add" => Object(wire.call) \notin panel
    BY <1>2 DEF CarriedOut
  <2>2. QED
    BY <1>2, <2>1, WireMoves
<1>3. DOMAIN wire = {"pc", "call", "via", "attempt", "err", "faults"}
  BY DEF WireShape
<1>4. /\ wire.pc # "off" => Known(wire.call)
      /\ wire.pc \in {"enter", "send", "silent", "pause"} /\ Verb(wire.call) # "read" =>
            wire.via \in Legs
  BY Asked DEF Position
<1>5. CASE Dispatch
  <2>1. wire.pc = "choose" /\ profile' = profile /\ panel' = panel
    BY <1>5 DEF Dispatch, WireAt
  <2>2. \/ wire' = [wire EXCEPT !.pc = "enter", !.via = "shell", !.attempt = 0] /\ ~OnPanel
        \/ wire' = [wire EXCEPT !.pc = "enter", !.via = "https", !.attempt = 0] /\ OnPanel
        \/ wire' = [wire EXCEPT !.pc = "enter", !.via = "ssh", !.attempt = 0] /\ OnPanel
        \/ wire' = [wire EXCEPT !.pc = "over", !.err = "unavailable"]
    BY <1>5 DEF Dispatch, Leg, Over
  <2>3. Verb(wire.call) # "read" => (OnPanel <=> Api = "uapi")
    <3>1. "tail" \notin MutatorFunctions
      BY DEF MutatorFunctions, MutatorVerbs
    <3>2. QED
      BY <1>4, <2>1, <3>1 DEF Known, OnPanel
  <2>4. Verb(wire.call) # "read" /\ wire'.pc # "over" => wire'.via \in Legs
    BY <1>3, <2>2, <2>3 DEF Legs
  <2>5. QED
    BY <1>2, <1>3, <2>1, <2>2, <2>4
<1>6. CASE EnterHTTPSMutator \/ EnterSSHMutator
  <2>1. wire.pc = "enter" /\ profile' = profile /\ panel' = panel
    BY <1>6 DEF EnterHTTPSMutator, EnterSSHMutator, Guarded, WireAt
  <2>2. \/ wire' = [wire EXCEPT !.pc = "send"]
        \/ /\ wire' = [wire EXCEPT !.pc = "over", !.err = guardAndValidate(wire.call)]
           /\ guardAndValidate(wire.call) # "nil"
    BY <1>6 DEF EnterHTTPSMutator, EnterSSHMutator, Guarded, Over
  <2>3. guardAndValidate(wire.call) # "notfound"
    BY DEF guardAndValidate
  <2>4. QED
    BY <1>2, <1>3, <1>4, <2>1, <2>2, <2>3
<1>7. CASE EnterUapiReader \/ EnterLiveReader \/ EnterShell
  <2>1. /\ wire.pc = "enter" /\ profile' = profile /\ panel' = panel
        /\ wire' = [wire EXCEPT !.pc = "send"]
    BY <1>7 DEF EnterUapiReader, EnterLiveReader, EnterShell, Unguarded, WireAt
  <2>2. QED
    BY <1>2, <1>3, <1>4, <2>1
<1>8. CASE Pause
  <2>1. /\ wire.pc = "pause" /\ profile' = profile /\ panel' = panel
        /\ wire' = [wire EXCEPT !.pc = "send", !.attempt = wire.attempt + 1]
    BY <1>8 DEF Pause, WireAt
  <2>2. QED
    BY <1>2, <1>3, <1>4, <2>1
<1>9. CASE PauseCancelled
  <2>1. /\ wire.pc = "pause" /\ profile' = profile /\ panel' = panel
        /\ \/ wire' = [wire EXCEPT !.pc = "enter", !.via = "ssh", !.attempt = 0, !.faults = 2]
           \/ wire' = [wire EXCEPT !.pc = "over", !.err = "unavailable", !.faults = 2]
    BY <1>9 DEF PauseCancelled, WireAt
  <2>2. Verb(wire.call) # "read" => Api = "uapi"
    BY <1>4, <2>1 DEF Position, Legs
  <2>3. QED
    BY <1>2, <1>3, <2>1, <2>2 DEF Legs
<1>10. CASE Silence
  <2>1. /\ wire.pc = "send" /\ profile' = profile /\ panel' = panel
        /\ wire' = [wire EXCEPT !.pc = "silent"]
    BY <1>10 DEF Silence, WireAt
  <2>2. QED
    BY <1>2, <1>3, <1>4, <2>1
<1>11. QED
  BY <1>1, <1>5, <1>6, <1>7, <1>8, <1>9, <1>10 DEF WireStep

\* The error of a request that a method takes for a success.
LEMMA MappedNil ==
    ASSUME NEW name, NEW err, Mapped(name, err) = "nil"
    PROVE  err = "nil" \/ (err = "notfound" /\ name \in Removes)
<1>1. Removes \cap (Creates \cup {"RestartNodeApp", "CheckStatus"}) = {} /\ "SetupSSL" \notin Removes
  BY DEF Removes, Creates
<1>2. mapResourceNotFound(name, err) = "nil" => err = "nil" \/ (err = "notfound" /\ name \in Removes)
  BY DEF mapResourceNotFound
<1>3. mapResourceExists(name, err) = "nil" => err = "nil"
  BY DEF mapResourceExists
<1>4. QED
  BY <1>1, <1>2, <1>3 DEF Mapped

\* What a method does between two requests leaves the account alone.
LEMMA BetweenRequests ==
    ASSUME ProviderInv, profile' = profile, panel' = panel,
           DOMAIN wire' = DOMAIN wire, wire'.pc \in {"off", "choose"},
           method.pc # "idle",
           DOMAIN method' = DOMAIN method, method'.name = method.name, method'.arg = method.arg,
           method'.before = method.before,
           \/ /\ method'.pc = "run" /\ wire'.pc = "choose"
              /\ method'.at \in 1..Len(Requests) /\ wire'.call = Requests[method'.at]
              /\ CarriedOutTo(method'.at - 1)
              /\ method.name = "CreateDatabase" /\ Api = "uapi" =>
                    /\ method'.at \in {2, 3} => <<"db", method.arg>> \notin method.before
                    /\ method'.at = 3 => <<"user", method.arg>> \notin method.before
           \/ /\ method'.pc = "undo1" /\ wire'.pc = "choose" /\ method.pc = "run"
              /\ method'.at = method.at /\ method'.err # "nil"
              /\ Cleanup # <<>> /\ wire'.call = Cleanup[1]
           \/ /\ method'.pc = "undo2" /\ wire'.pc = "choose" /\ method.pc = "undo1"
              /\ method'.at = method.at /\ method'.err # "nil"
              /\ Len(Cleanup) > 1 /\ wire'.call = Cleanup[2]
           \/ /\ method'.pc \in {"settle", "done"} /\ wire'.pc = "off"
              /\ (method'.pc = "done" /\ method'.err # "nil") \/ CarriedOutTo(Len(Requests))
    PROVE  ProviderInv'
<1> USE DEF ProviderInv
<1>1. /\ Api' = Api /\ Methods' = Methods /\ Requests' = Requests
      /\ method'.at = method.at => Cleanup' = Cleanup
  BY Frame DEF Requests, Cleanup
<1>2. WireShape'
  BY DEF WireShape
<1>3. method.name \in Methods
  BY DEF Position
<1>4. Position'
  BY <1>1, <1>3 DEF Position
<1>5. \A k : CarriedOutTo(k)' <=> CarriedOutTo(k)
  BY <1>1 DEF CarriedOutTo
<1>6. Progress'
  BY <1>1, <1>5 DEF Progress
<1>7. Survival'
  BY <1>1 DEF Survival
<1>8. QED
  BY <1>2, <1>4, <1>6, <1>7

LEMMA FirstStep ==
    ASSUME ProviderInv, First
    PROVE  ProviderInv'
<1> USE DEF ProviderInv
<1>1. /\ method.pc = "run" /\ method' = [method EXCEPT !.at = 1]
      /\ wire' = [NoWire EXCEPT !.pc = "choose", !.call = Requests[1], !.faults = wire.faults]
      /\ profile' = profile /\ panel' = panel
  BY DEF First, Ask, Requests
<1>2. Len(Requests) \in {1, 2, 3}
  BY <1>1, Scripts DEF WireShape, Position, Requests
<1>3. CarriedOutTo(0)
  BY DEF CarriedOutTo
<1>4. DOMAIN method = {"name", "arg", "pc", "at", "err", "before"}
      /\ DOMAIN wire = {"pc", "call", "via", "attempt", "err", "faults"}
  BY DEF WireShape
<1>5. DOMAIN wire' = DOMAIN wire /\ wire'.pc = "choose" /\ wire'.call = Requests[1]
  BY <1>1, <1>4 DEF NoWire
<1>6. /\ DOMAIN method' = DOMAIN method /\ method'.name = method.name /\ method'.arg = method.arg
      /\ method'.before = method.before /\ method'.pc = "run" /\ method'.at = 1
  BY <1>1, <1>4
<1>7. QED
  BY <1>1, <1>2, <1>3, <1>5, <1>6, BetweenRequests

LEMMA ProceedStep ==
    ASSUME ProviderInv, Proceed
    PROVE  ProviderInv'
<1> USE DEF ProviderInv
<1>1. /\ method.pc = "run" /\ wire.pc = "over" /\ Mapped(method.name, wire.err) = "nil"
      /\ profile' = profile /\ panel' = panel
  BY DEF Proceed
<1>2. /\ method.at \in 1..Len(Requests) /\ wire.call = Requests[method.at]
      /\ method.name \in Methods
  BY <1>1 DEF Position
<1>3. /\ DOMAIN method = {"name", "arg", "pc", "at", "err", "before"}
      /\ DOMAIN wire = {"pc", "call", "via", "attempt", "err", "faults"}
      /\ Len(Requests) \in {1, 2, 3}
      /\ method.name = "CreateDatabase" /\ Api = "uapi" => Requests = cpanelCreateDatabase(method.arg)
  BY <1>2, Scripts DEF WireShape, Requests
<1>4. wire.err = "nil" \/ (wire.err = "notfound" /\ method.name \in Removes)
  BY <1>1, MappedNil
<1>5. CarriedOut(Requests[method.at], "nil", panel)
  <2>1. Fits(wire.call, method.name)
    BY <1>1, Asked
  <2>2. CarriedOut(wire.call, wire.err, panel)
    BY <1>1 DEF Progress
  <2>3. Removes \cap Creates = {}
    BY DEF Removes, Creates
  <2>4. QED
    BY <1>2, <1>4, <2>1, <2>2, <2>3 DEF CarriedOut, Fits
<1>6. CarriedOutTo(method.at)
  <2>1. CarriedOutTo(method.at - 1)
    BY <1>1 DEF Progress
  <2>2. \A j \in 1..method.at : j \in 1..(method.at - 1) \/ j = method.at
    BY <1>2, <1>3
  <2>3. QED
    BY <1>5, <2>1, <2>2 DEF CarriedOutTo
<1>7. CASE method.at < Len(Requests)
  <2>1. /\ method' = [method EXCEPT !.at = method.at + 1]
        /\ wire' = [NoWire EXCEPT !.pc = "choose", !.call = Requests[method.at + 1],
                                  !.faults = wire.faults]
    BY <1>7 DEF Proceed, Ask, Requests
  <2>2. /\ DOMAIN wire' = DOMAIN wire /\ wire'.pc = "choose"
        /\ wire'.call = Requests[method.at + 1]
    BY <1>3, <2>1 DEF NoWire
  <2>3. /\ DOMAIN method' = DOMAIN method /\ method'.name = method.name
        /\ method'.arg = method.arg /\ method'.before = method.before
        /\ method'.pc = "run" /\ method'.at = method.at + 1
    BY <1>1, <1>3, <2>1
  <2>4. method'.at \in 1..Len(Requests) /\ method'.at - 1 = method.at
    BY <1>2, <1>3, <1>7, <2>3
  <2>5. ASSUME method.name = "CreateDatabase", Api = "uapi"
        PROVE  /\ method'.at \in {2, 3} => <<"db", method.arg>> \notin method.before
               /\ method'.at = 3 => <<"user", method.arg>> \notin method.before
    <3>1. Requests = cpanelCreateDatabase(method.arg) /\ method.name \in Creates
      BY <1>3, <2>5 DEF Creates
    <3>2. wire.err = "nil"
      BY <1>4, <2>5 DEF Removes
    <3>3. Verb(wire.call) = "add" => Object(wire.call) \notin method.before
      BY <1>1, <3>1, <3>2 DEF Survival
    <3>4. CASE method.at = 1
      <4>1. wire.call = Request("CreateMysqlDatabase", method.arg)
        BY <1>2, <3>1, <3>4 DEF cpanelCreateDatabase
      <4>2. <<"db", method.arg>> \notin method.before
        BY <3>3, <4>1, Verbs, DatabaseObjects
      <4>3. QED
        BY <2>3, <3>4, <4>2
    <3>5. CASE method.at = 2
      <4>1. wire.call = Request("CreateMysqlUser", method.arg)
        BY <1>2, <3>1, <3>5 DEF cpanelCreateDatabase
      <4>2. <<"user", method.arg>> \notin method.before
        BY <3>3, <4>1, Verbs, DatabaseObjects
      <4>3. <<"db", method.arg>> \notin method.before
        BY <1>1, <2>5, <3>5 DEF Survival
      <4>4. QED
        BY <4>2, <4>3
    <3>6. method.at = 1 \/ method.at = 2
      <4> DEFINE n == Len(Requests)
      <4>1. n \in {1, 2, 3} /\ method.at \in 1..n /\ method.at < n
        BY <1>2, <1>3, <1>7
      <4> HIDE DEF n
      <4>2. QED
        BY <4>1
    <3>7. QED
      BY <3>4, <3>5, <3>6
  <2>6. QED
    BY <1>1, <1>6, <2>2, <2>3, <2>4, <2>5, BetweenRequests
<1>8. CASE ~(method.at < Len(Requests))
  <2>1. /\ \E pc \in {"settle", "done"} : method' = [method EXCEPT !.pc = pc]
        /\ wire' = [NoWire EXCEPT !.faults = wire.faults]
    BY <1>8 DEF Proceed, HangUp, Requests
  <2>2. DOMAIN wire' = DOMAIN wire /\ wire'.pc = "off"
    BY <1>3, <2>1 DEF NoWire
  <2>3. /\ DOMAIN method' = DOMAIN method /\ method'.name = method.name
        /\ method'.arg = method.arg /\ method'.before = method.before
        /\ method'.pc \in {"settle", "done"}
    BY <1>3, <2>1
  <2>4. method.at = Len(Requests)
    BY <1>2, <1>3, <1>8
  <2>5. QED
    BY <1>1, <1>6, <2>2, <2>3, <2>4, BetweenRequests
<1>9. QED
  BY <1>7, <1>8

LEMMA FailureSteps ==
    ASSUME ProviderInv, RequestFails \/ Undone \/ SettleWait
    PROVE  ProviderInv'
<1> USE DEF ProviderInv
<1>1. /\ DOMAIN method = {"name", "arg", "pc", "at", "err", "before"}
      /\ DOMAIN wire = {"pc", "call", "via", "attempt", "err", "faults"}
      /\ profile' = profile /\ panel' = panel
  BY DEF WireShape, RequestFails, Undone, SettleWait
<1>2. ASSUME NEW call, wire' = [NoWire EXCEPT !.pc = "choose", !.call = call, !.faults = wire.faults]
      PROVE  DOMAIN wire' = DOMAIN wire /\ wire'.pc = "choose" /\ wire'.call = call
  BY <1>1, <1>2 DEF NoWire
<1>3. ASSUME wire' = [NoWire EXCEPT !.faults = wire.faults]
      PROVE  DOMAIN wire' = DOMAIN wire /\ wire'.pc = "off"
  BY <1>1, <1>3 DEF NoWire
<1>4. CASE RequestFails
  <2>1. PICK e : /\ e # "nil" /\ method.pc = "run"
                 /\ \/ /\ method' = [method EXCEPT !.pc = "done", !.err = e]
                       /\ wire' = [NoWire EXCEPT !.faults = wire.faults]
                    \/ /\ method' = [method EXCEPT !.pc = "undo1", !.err = e]
                       /\ Cleanup # <<>>
                       /\ wire' = [NoWire EXCEPT !.pc = "choose", !.call = Cleanup[1],
                                                 !.faults = wire.faults]
    BY <1>4 DEF RequestFails, Return, HangUp, Ask, Cleanup
  <2>2. /\ DOMAIN method' = DOMAIN method /\ method'.name = method.name
        /\ method'.arg = method.arg /\ method'.before = method.before
        /\ method'.at = method.at /\ method'.err # "nil"
    BY <1>1, <2>1
  <2>3. CASE method' = [method EXCEPT !.pc = "done", !.err = e]
             /\ wire' = [NoWire EXCEPT !.faults = wire.faults]
    <3>1. method'.pc = "done" /\ DOMAIN wire' = DOMAIN wire /\ wire'.pc = "off"
      BY <1>1, <1>3, <2>3
    <3>2. QED
      BY <1>1, <2>1, <2>2, <3>1, BetweenRequests
  <2>4. CASE /\ method' = [method EXCEPT !.pc = "undo1", !.err = e]
             /\ Cleanup # <<>>
             /\ wire' = [NoWire EXCEPT !.pc = "choose", !.call = Cleanup[1],
                                       !.faults = wire.faults]
    <3>1. /\ method'.pc = "undo1" /\ DOMAIN wire' = DOMAIN wire /\ wire'.pc = "choose"
          /\ wire'.call = Cleanup[1]
      BY <1>1, <1>2, <2>4
    <3>2. QED
      BY <1>1, <2>1, <2>2, <2>4, <3>1, BetweenRequests
  <2>5. QED
    BY <2>1, <2>3, <2>4
<1>5. CASE Undone
  <2>1. /\ method.pc \in {"undo1", "undo2"} /\ method.err # "nil"
        /\ \/ /\ method' = [method EXCEPT !.pc = "undo2"]
              /\ method.pc = "undo1" /\ Len(Cleanup) > 1
              /\ wire' = [NoWire EXCEPT !.pc = "choose", !.call = Cleanup[2],
                                        !.faults = wire.faults]
           \/ /\ method' = [method EXCEPT !.pc = "done"]
              /\ wire' = [NoWire EXCEPT !.faults = wire.faults]
    BY <1>5 DEF Undone, HangUp, Ask, Cleanup, Position
  <2>2. /\ DOMAIN method' = DOMAIN method /\ method'.name = method.name
        /\ method'.arg = method.arg /\ method'.before = method.before
        /\ method'.at = method.at /\ method'.err # "nil"
    BY <1>1, <2>1
  <2>3. CASE /\ method' = [method EXCEPT !.pc = "done"]
             /\ wire' = [NoWire EXCEPT !.faults = wire.faults]
    <3>1. method'.pc = "done" /\ DOMAIN wire' = DOMAIN wire /\ wire'.pc = "off"
      BY <1>1, <1>3, <2>3
    <3>2. QED
      BY <1>1, <2>1, <2>2, <3>1, BetweenRequests
  <2>4. CASE /\ method' = [method EXCEPT !.pc = "undo2"]
             /\ method.pc = "undo1" /\ Len(Cleanup) > 1
             /\ wire' = [NoWire EXCEPT !.pc = "choose", !.call = Cleanup[2],
                                       !.faults = wire.faults]
    <3>1. /\ method'.pc = "undo2" /\ DOMAIN wire' = DOMAIN wire /\ wire'.pc = "choose"
          /\ wire'.call = Cleanup[2]
      BY <1>1, <1>2, <2>4
    <3>2. QED
      BY <1>1, <2>1, <2>2, <2>4, <3>1, BetweenRequests
  <2>5. QED
    BY <2>1, <2>3, <2>4
<1>6. CASE SettleWait
  <2>1. /\ method.pc = "settle" /\ wire' = wire
        /\ \E e : method' = [method EXCEPT !.pc = "done", !.err = e]
    BY <1>6 DEF SettleWait, Return
  <2>2. /\ DOMAIN method' = DOMAIN method /\ method'.name = method.name
        /\ method'.arg = method.arg /\ method'.before = method.before /\ method'.pc = "done"
    BY <1>1, <2>1
  <2>3. wire.pc = "off" /\ CarriedOutTo(Len(Requests))
    BY <2>1 DEF Position, Progress
  <2>4. QED
    BY <1>1, <2>1, <2>2, <2>3, BetweenRequests
<1>7. QED
  BY <1>4, <1>5, <1>6

LEMMA CallStep ==
    ASSUME ProviderInv, NEW name \in Methods, NEW a, Call(name, a)
    PROVE  ProviderInv'
<1> USE DEF ProviderInv
<1> DEFINE o == [name |-> name, arg |-> a, pc |-> "run", at |-> 0, err |-> "nil",
                 before |-> IF name \in Creates THEN panel ELSE {}]
<1>1. /\ profile' = profile /\ panel' = panel /\ wire' = NoWire
      /\ \/ method' = o
         \/ \E e \in {"invalidConfig", "unwired"} : method' = [o EXCEPT !.pc = "done", !.err = e]
  BY DEF Call
<1>2. /\ DOMAIN method' = {"name", "arg", "pc", "at", "err", "before"}
      /\ method'.name = name /\ method'.at = 0
      /\ method'.before = IF name \in Creates THEN panel ELSE {}
      /\ \/ method'.pc = "run"
         \/ method'.pc = "done" /\ method'.err # "nil"
  <2>1. CASE method' = o
    BY <2>1
  <2>2. ASSUME NEW e \in {"invalidConfig", "unwired"}, method' = [o EXCEPT !.pc = "done", !.err = e]
        PROVE  /\ DOMAIN method' = {"name", "arg", "pc", "at", "err", "before"}
               /\ method'.name = name /\ method'.at = 0
               /\ method'.before = IF name \in Creates THEN panel ELSE {}
               /\ method'.pc = "done" /\ method'.err # "nil"
    BY <2>2
  <2>3. QED
    BY <1>1, <2>1, <2>2
<1>3. DOMAIN wire' = {"pc", "call", "via", "attempt", "err", "faults"} /\ wire'.pc = "off"
  BY <1>1 DEF NoWire
<1>4. Methods' = Methods
  BY <1>1, Frame
<1>5. WireShape' /\ Position'
  BY <1>1, <1>2, <1>3, <1>4 DEF WireShape, Position
<1>6. CarriedOutTo(method.at - 1)'
  BY <1>2 DEF CarriedOutTo
<1>7. Progress'
  BY <1>2, <1>3, <1>6 DEF Progress
<1>8. Survival'
  BY <1>1, <1>2, <1>3 DEF Survival
<1>9. QED
  BY <1>5, <1>7, <1>8

\* Between two methods.
LEMMA AtRest ==
    ASSUME wire = NoWire, method = NoOp, Backed(panel),
           profile.adapter \in {"cpanel", "smallhost", "directadmin"}
    PROVE  ProviderInv
<1>1. /\ DOMAIN wire = {"pc", "call", "via", "attempt", "err", "faults"} /\ wire.pc = "off"
      /\ DOMAIN method = {"name", "arg", "pc", "at", "err", "before"} /\ method.pc = "idle"
      /\ method.name = "none"
  BY DEF NoWire, NoOp
<1>2. WireShape /\ Position /\ Progress
  BY <1>1 DEF WireShape, Position, Progress
<1>3. Survival
  BY <1>1 DEF Survival, Creates
<1>4. QED
  BY <1>2, <1>3 DEF ProviderInv

LEMMA ProviderInvInit == ProviderInit => ProviderInv
<1> SUFFICES ASSUME ProviderInit PROVE ProviderInv
  OBVIOUS
<1>1. profile.adapter \in {"cpanel", "smallhost", "directadmin"}
  BY DEF ProviderInit, New, Registered
<1>2. Backed(panel)
  <2> SUFFICES ASSUME NEW n, <<"grant", n>> \in panel
               PROVE  <<"db", n>> \in panel /\ <<"user", n>> \in panel
    BY DEF Backed
  <2>1. <<"grant", n>>[1] = "grant" /\ <<"grant", n>>[2] = n /\ panel \in InitPanels
    BY DEF ProviderInit
  <2>2. QED
    BY <2>1, ProviderAssumption
<1>3. QED
  BY <1>1, <1>2, AtRest DEF ProviderInit

LEMMA ProviderInvNext == ProviderInv /\ [ProviderNext]_providerVars => ProviderInv'
<1> SUFFICES ASSUME ProviderInv, [ProviderNext]_providerVars PROVE ProviderInv'
  OBVIOUS
<1>1. ASSUME profile' = profile, panel' = panel, wire' = wire, method' = method
      PROVE  ProviderInv'
  <2>1. /\ Api' = Api /\ Methods' = Methods /\ Requests' = Requests /\ Cleanup' = Cleanup
        /\ Legs' = Legs
    BY <1>1, Frame DEF Requests, Cleanup
  <2>2. \A k : CarriedOutTo(k)' <=> CarriedOutTo(k)
    BY <1>1, <2>1 DEF CarriedOutTo
  <2>3. WireShape' /\ Position' /\ Progress' /\ Survival'
    BY <1>1, <2>1, <2>2 DEF ProviderInv, WireShape, Position, Progress, Survival
  <2>4. QED
    BY <2>3 DEF ProviderInv
<1>2. CASE UNCHANGED providerVars
  BY <1>1, <1>2 DEF providerVars
<1>3. CASE CtxDone /\ UNCHANGED <<method>>
  BY <1>1, <1>3 DEF CtxDone
<1>4. CASE WireStep /\ UNCHANGED <<method>>
  BY <1>4, WireSteps
<1>5. CASE First
  BY <1>5, FirstStep
<1>6. CASE Proceed
  BY <1>6, ProceedStep
<1>7. CASE RequestFails \/ Undone \/ SettleWait
  BY <1>7, FailureSteps
<1>8. CASE Finish
  <2>1. wire' = NoWire /\ method' = NoOp /\ panel' = panel /\ profile' = profile
    BY <1>8 DEF Finish
  <2>2. Backed(panel') /\ profile'.adapter \in {"cpanel", "smallhost", "directadmin"}
    BY <2>1 DEF ProviderInv, Survival, WireShape
  <2>3. /\ DOMAIN wire' = {"pc", "call", "via", "attempt", "err", "faults"} /\ wire'.pc = "off"
        /\ DOMAIN method' = {"name", "arg", "pc", "at", "err", "before"} /\ method'.pc = "idle"
        /\ method'.name = "none"
    BY <2>1 DEF NoWire, NoOp
  <2>4. WireShape' /\ Position' /\ Progress'
    BY <2>2, <2>3 DEF WireShape, Position, Progress
  <2>5. Survival'
    BY <2>2, <2>3 DEF Survival, Creates
  <2>6. QED
    BY <2>4, <2>5 DEF ProviderInv
<1>9. CASE \E name \in Methods : \E a \in Arguments(name) : Call(name, a)
  BY <1>9, CallStep
<1>10. CASE SilenceEnds /\ UNCHANGED <<method>>
  BY <1>10, Trips
<1>11. QED
  BY <1>2, <1>3, <1>4, <1>5, <1>6, <1>7, <1>8, <1>9, <1>10 DEF ProviderNext, ProviderStep

\* What a method reports is what the account holds, through every retry,
\* fail-over and lost answer: nil from a Remove means nothing is left, nil
\* from a Create that all of it is there (methods.go of cpanel and smallhost
\* over tryComposite and the retry loops of uapi).
THEOREM ReportsAreTrue == ProviderSpec => []AnswersTrue
<1>1. ProviderInv => AnswersTrue
  <2> SUFFICES ASSUME ProviderInv, method.pc = "done", method.err = "nil",
                      method.name \in Removes \cup Creates
               PROVE  /\ method.name \in Removes => Made(method.name, method.arg) \cap panel = {}
                      /\ method.name \in Creates => Made(method.name, method.arg) \subseteq panel
    BY DEF AnswersTrue, RemovedMeansGone, CreatedMeansThere, Done
  <2>1. CarriedOutTo(Len(Requests)) /\ method.name \in Methods
    BY DEF ProviderInv, Progress, Position
  <2>2. /\ \A j \in 1..Len(Requests) : Fits(Requests[j], method.name)
        /\ DOMAIN Requests = 1..Len(Requests)
    BY <2>1, Scripts DEF Requests, ProviderInv, WireShape
  <2>3. Removes \cap Creates = {}
    BY DEF Removes, Creates
  <2>4. Made(method.name, method.arg)
          = {Object(Requests[i]) :
                i \in {j \in DOMAIN Requests : Verb(Requests[j]) \in {"add", "set", "del"}}}
    BY DEF Made, Requests
  <2>5. ASSUME NEW i \in DOMAIN Requests, Verb(Requests[i]) \in {"add", "set", "del"}
        PROVE  /\ method.name \in Removes => Object(Requests[i]) \notin panel
               /\ method.name \in Creates => Object(Requests[i]) \in panel
    BY <2>1, <2>2, <2>3, <2>5 DEF CarriedOutTo, CarriedOut, Fits
  <2>6. QED
    BY <2>4, <2>5
<1>2. QED
  BY ProviderInvInit, ProviderInvNext, <1>1, PTL DEF ProviderSpec

\* Whatever fails, and however often an answer is lost, the cleanup inside
\* CreateDatabase of cpanel deletes only what this call has made.
THEOREM NothingElseIsDeleted == ProviderSpec => []PreexistingSurvive
<1>1. ProviderInv => PreexistingSurvive
  BY DEF ProviderInv, Survival, PreexistingSurvive
<1>2. QED
  BY ProviderInvInit, ProviderInvNext, <1>1, PTL DEF ProviderSpec

-----------------------------------------------------------------------------
(***************************************************************************)
(* The records in memory.                                                  *)
(***************************************************************************)
IsMem(m) == DOMAIN m = {"kind", "key", "salt", "entries", "dirty"}
IsOp(o) == DOMAIN o = {"pc", "name", "err", "got", "oldKey", "oldSalt", "blob", "synced"}

Shaped ==
    /\ DOMAIN mem = Procs /\ DOMAIN op = Procs /\ DOMAIN ring = Slots \cup {"probe"}
    /\ \A p \in Procs : IsMem(mem[p]) /\ IsOp(op[p])

(***************************************************************************)
(* What holds of one process.                                              *)
(***************************************************************************)
\* The key was made from a password that can be typed, with this salt.
Sealed(key, salt) ==
    \E typed \in Passwords : \E pw \in ReadMasterPassword(typed) : key = deriveKey(pw, salt)

Locking == {"write", "sync", "rename", "sync dir"}   \* these hold the file lock
Writing == {"lock"} \cup Locking

\* Key and salt belong together, in memory and in what a rotation remembers;
\* the blob under way is what the memory holds.
Keyed(p) ==
    /\ mem[p].kind = "vault" => Sealed(mem[p].key, mem[p].salt)
    /\ op[p].pc \in Writing =>
          /\ mem[p].kind = "vault" /\ Sealed(op[p].oldKey, op[p].oldSalt)
          /\ op[p].blob = Blob(mem[p].key, mem[p].salt, mem[p].entries)

\* The file lock is held from the write to the sync of the directory, and
\* nobody else writes in between; a renamed file has been synced.
Ordered(p) ==
    /\ op[p].pc \in Locking => lock = p
    /\ op[p].pc = "rename" => op[p].synced
    /\ op[p].pc = "sync dir" => disk = op[p].blob /\ writer = p
    /\ writer = p => mem[p].kind = "vault"
    /\ Probing(p) => mem[p].kind = "locked"

CoherentAt(p) ==
    writer = p /\ mem[p].kind = "vault" /\ At(p, "ready") /\ ~mem[p].dirty
        => /\ disk = Blob(mem[p].key, mem[p].salt, mem[p].entries)
           /\ stable = disk

Own(p) == Keyed(p) /\ Ordered(p) /\ CoherentAt(p)

SecretInv == Shaped /\ (\A p \in Procs : Own(p)) /\ VaultOpens /\ ProbeRemoved
-----------------------------------------------------------------------------
\* No slot is the probe's.
LEMMA ProbeIsNoSlot == "probe" \notin Slots /\ \A a \in Accounts : GitHubPATKey(a) # "probe"
BY SecretAssumption DEF Slots, GitHubPATKey

LEMMA FreshRecords ==
    /\ IsMem(Locked) /\ Locked.kind = "locked"
    /\ IsOp(Ready) /\ Ready.pc = "ready"
BY DEF IsMem, Locked, IsOp, Ready

LEMMA SecretInvInit == Init => SecretInv
<1> SUFFICES ASSUME Init PROVE SecretInv
  OBVIOUS
<1> USE SecretAssumption DEF Init
<1>1. \A p \in Procs : mem[p] = Locked /\ op[p] = Ready
  OBVIOUS
<1>2. Shaped
  BY <1>1, FreshRecords DEF Shaped
<1>3. \A p \in Procs : Own(p)
  BY <1>1, FreshRecords DEF Own, Keyed, Ordered, CoherentAt, Writing, Locking, Probing, At
<1>4. VaultOpens
  BY DEF VaultOpens
<1>5. ProbeRemoved
  BY DEF ProbeRemoved
<1>6. QED
  BY <1>2, <1>3, <1>4, <1>5 DEF SecretInv

\* A step that changes the memory of process p only.
StepOf(p) ==
    /\ DOMAIN mem' = Procs /\ DOMAIN op' = Procs /\ DOMAIN ring' = DOMAIN ring
    /\ IsMem(mem'[p]) /\ IsOp(op'[p])
    /\ \A q \in Procs : q # p => mem'[q] = mem[q] /\ op'[q] = op[q]
    /\ keyring' = keyring

\* What a step of process p leaves to show, when the file and the lock change
\* only in the hands of the lock's holder.
LEMMA ProcStep ==
    ASSUME SecretInv, NEW p \in Procs, StepOf(p),
           lock' = lock \/ lock = p \/ lock = "none",
           disk' = disk \/ lock = p,
           writer' = writer \/ ((lock = p \/ writer = p) /\ writer' \in {p, "none"}),
           writer' = p \/ (disk' = disk /\ stable' = stable),
           Own(p)', VaultOpens', ProbeRemoved'
    PROVE  SecretInv'
<1>1. Shaped'
  BY DEF SecretInv, Shaped, StepOf
<1>2. ASSUME NEW q \in Procs, q # p PROVE Own(q)'
  <2>1. Own(q) /\ mem'[q] = mem[q] /\ op'[q] = op[q] /\ q # "none"
    BY <1>2, SecretAssumption DEF SecretInv, StepOf
  <2>2. Keyed(q)'
    BY <2>1 DEF Own, Keyed
  <2>3. Ordered(q)'
    BY <1>2, <2>1 DEF Own, Ordered, Probing, At, Locking
  <2>4. CoherentAt(q)'
    BY <1>2, <2>1 DEF Own, CoherentAt, At
  <2>5. QED
    BY <2>2, <2>3, <2>4 DEF Own
<1>3. QED
  BY <1>1, <1>2 DEF SecretInv

\* The vault file is as it was.
LEMMA FileKept == ASSUME SecretInv, UNCHANGED <<disk, stable>> PROVE VaultOpens'
BY DEF SecretInv, VaultOpens

\* No probe begins or ends.
LEMMA ProbeKept ==
    ASSUME SecretInv, ring'["probe"] = ring["probe"], left' = left, keyring' = keyring,
           \A p \in Procs : Probing(p) => Probing(p)'
    PROVE  ProbeRemoved'
BY DEF SecretInv, ProbeRemoved

\* A step of p in which it does not probe, and leaves the probe alone.
LEMMA NoProbe ==
    ASSUME SecretInv, NEW p \in Procs, StepOf(p), ~Probing(p), left' = left,
           ring'["probe"] = ring["probe"]
    PROVE  ProbeRemoved'
<1>1. \A q \in Procs : Probing(q) => Probing(q)'
  BY DEF StepOf, Probing, At
<1>2. keyring' = keyring
  BY DEF StepOf
<1>3. QED
  BY <1>1, <1>2, ProbeKept
-----------------------------------------------------------------------------
\* Detect, and the operations of the keyring backend.
LEMMA RingStep ==
    ASSUME SecretInv, NEW p \in Procs,
           \/ ProbeSet(p) \/ ProbeGet(p) \/ ProbeDelete(p)
           \/ \E name \in {"Get", "Set", "Delete"}, a \in Accounts : \E v :
                 RingOp(p, name, GitHubPATKey(a), v)
    PROVE  SecretInv'
<1> USE DEF vaultVars
<1>0. /\ Shaped /\ Own(p) /\ IsMem(mem[p]) /\ IsOp(op[p]) /\ p # "none"
      /\ DOMAIN mem = Procs /\ DOMAIN op = Procs
  BY SecretAssumption DEF SecretInv, Shaped
<1>1. disk' = disk /\ stable' = stable /\ lock' = lock /\ writer' = writer
      /\ (left' = left) /\ keyring' = keyring
  BY DEF ProbeSet, ProbeGet, ProbeDelete, RingOp
<1>2. VaultOpens'
  BY <1>1, FileKept
<1>3. CASE ProbeSet(p)
  <2>1. /\ op[p].pc = "ready" /\ mem[p].kind = "locked" /\ mem' = mem
    BY <1>3 DEF ProbeSet, Begin, At
  <2>2. PICK o :
          /\ op' = [op EXCEPT ![p] = o] /\ IsOp(o) /\ o.pc \in {"ready", "probe get"}
          /\ o.pc = "ready" => keyring \in {"refuses", "stores and refuses"}
    <3> DEFINE o1 == [Ready EXCEPT !.name = "Detect", !.err = "unavailable"]
               o2 == [Ready EXCEPT !.pc = "probe get", !.name = "Detect"]
    <3>1. IsOp(o1) /\ o1.pc = "ready" /\ IsOp(o2) /\ o2.pc = "probe get"
      BY FreshRecords DEF IsOp
    <3>2. op' = [op EXCEPT ![p] = IF keyring \in {"refuses", "stores and refuses"} THEN o1 ELSE o2]
      BY <1>3 DEF ProbeSet
    <3> HIDE DEF o1, o2
    <3>3. QED
      BY <3>1, <3>2
  <2>2a. \/ ring' = ring
         \/ keyring # "refuses" /\ ring' = [ring EXCEPT !["probe"] = p]
    BY <1>3 DEF ProbeSet
  <2>2b. StepOf(p) /\ op'[p] = o
    BY <1>0, <1>1, <2>1, <2>2, <2>2a DEF StepOf
  <2>3. Own(p)'
    BY <1>0, <1>1, <2>1, <2>2, <2>2b DEF Own, Keyed, Ordered, CoherentAt, Probing, At, Writing, Locking
  <2>4. ProbeRemoved'
    <3>1. CASE keyring = "stores and refuses"
      BY <1>1, <3>1 DEF ProbeRemoved
    <3>2. CASE keyring = "refuses"
      BY <1>1, <2>1, <2>2a, <2>2b, <3>2, NoProbe DEF Probing, At
    <3>3. CASE o.pc = "probe get"
      BY <2>2b, <3>3 DEF ProbeRemoved, Probing, At
    <3>4. QED
      BY <2>2, <3>1, <3>2, <3>3
  <2>5. QED
    BY <1>1, <1>2, <2>2b, <2>3, <2>4, ProcStep, Zenon
<1>4. CASE ProbeGet(p)
  <2>1. op[p].pc = "probe get" /\ mem' = mem /\ ring' = ring
    BY <1>4 DEF ProbeGet, At
  <2>2. StepOf(p) /\ op'[p].pc = "probe delete"
    BY <1>0, <1>4, <2>1 DEF ProbeGet, StepOf, IsOp
  <2>3. Own(p)'
    BY <1>0, <1>1, <2>1, <2>2 DEF Own, Keyed, Ordered, CoherentAt, Probing, At, Writing, Locking
  <2>4. ProbeRemoved'
    BY <2>2 DEF ProbeRemoved, Probing, At
  <2>5. QED
    BY <1>1, <1>2, <2>2, <2>3, <2>4, ProcStep
<1>5. CASE ProbeDelete(p)
  <2>1. /\ op[p].pc = "probe delete" /\ DOMAIN ring' = DOMAIN ring
        /\ keyring = "keeps" \/ ring' = [ring EXCEPT !["probe"] = "none"]
    BY <1>5 DEF ProbeDelete, At
  <2>2. /\ StepOf(p) /\ op'[p].pc = "ready" /\ mem'[p].kind \in {"keyring", "locked"}
    BY <1>0, <1>5, <2>1 DEF ProbeDelete, Goto, StepOf, IsOp, IsMem
  <2>3. writer # p
    BY <1>0, <2>1 DEF Own, Ordered, Probing, At
  <2>4. Own(p)'
    BY <1>0, <1>1, <2>2, <2>3 DEF Own, Keyed, Ordered, CoherentAt, Probing, At, Writing, Locking
  <2>5. ProbeRemoved'
    BY <1>0, <1>1, <2>1 DEF ProbeRemoved, Shaped
  <2>6. QED
    BY <1>1, <1>2, <2>2, <2>4, <2>5, ProcStep
<1>6. ASSUME NEW name \in {"Get", "Set", "Delete"}, NEW a \in Accounts, NEW v,
             RingOp(p, name, GitHubPATKey(a), v)
      PROVE SecretInv'
  <2>1. op[p].pc = "ready" /\ mem' = mem /\ mem[p].kind = "keyring"
    BY <1>6 DEF RingOp, Begin, At
  <2>2. DOMAIN ring' = DOMAIN ring /\ ring'["probe"] = ring["probe"]
    <3> DEFINE k == GitHubPATKey(a)
    <3>1. k # "probe" /\ "probe" \in DOMAIN ring
      BY <1>0, ProbeIsNoSlot DEF Shaped
    <3> HIDE DEF k
    <3>2. \/ ring' = ring \/ ring' = [ring EXCEPT ![k] = v] \/ ring' = [ring EXCEPT ![k] = "none"]
      BY <1>6 DEF RingOp, k
    <3>3. QED
      BY <3>1, <3>2
  <2>3. StepOf(p) /\ op'[p].pc = "ready"
    <3>1. PICK got, err :
            op' = [op EXCEPT ![p] = [Ready EXCEPT !.name = name, !.got = got, !.err = err]]
      BY <1>6, Zenon DEF RingOp
    <3>2. QED
      BY <1>0, <1>1, <2>1, <2>2, <3>1, FreshRecords DEF StepOf, IsOp
  <2>4. Own(p)'
    BY <1>0, <1>1, <2>1, <2>3 DEF Own, Keyed, Ordered, CoherentAt, Probing, At, Writing, Locking
  <2>5. ProbeRemoved'
    BY <1>1, <2>1, <2>2, <2>3, NoProbe DEF Probing, At
  <2>6. QED
    BY <1>1, <1>2, <2>3, <2>4, <2>5, ProcStep
<1>7. QED
  BY <1>3, <1>4, <1>5, <1>6
-----------------------------------------------------------------------------
\* A save begins, of a memory m whose key and salt belong together.
LEMMA PersistStep ==
    ASSUME SecretInv, NEW p \in Procs, NEW name, NEW m, IsMem(m), m.kind = "vault",
           Sealed(m.key, m.salt), At(p, "ready"), mem[p].kind = "vault", Persist(p, name, m)
    PROVE  SecretInv'
<1> USE DEF vaultVars
<1>0. Shaped /\ Own(p) /\ IsMem(mem[p]) /\ IsOp(op[p]) /\ DOMAIN mem = Procs /\ DOMAIN op = Procs
  BY DEF SecretInv, Shaped
<1>1. /\ ring' = ring /\ disk' = disk /\ stable' = stable /\ lock' = lock /\ writer' = writer
      /\ (left' = left) /\ keyring' = keyring
  BY DEF Persist
<1>2. /\ StepOf(p) /\ mem'[p] = m /\ op'[p].pc = "lock" /\ op'[p].oldKey = mem[p].key
      /\ op'[p].oldSalt = mem[p].salt /\ op'[p].blob = Blob(m.key, m.salt, m.entries)
  BY <1>0, <1>1, FreshRecords DEF Persist, StepOf, IsOp
<1>3. Own(p)'
  <2>1. Sealed(mem[p].key, mem[p].salt)
    BY <1>0 DEF Own, Keyed
  <2>2. Keyed(p)'
    BY <1>2, <2>1 DEF Keyed, Writing, Locking, Sealed
  <2>3. Ordered(p)' /\ CoherentAt(p)'
    BY <1>2 DEF Ordered, CoherentAt, Probing, At, Locking
  <2>4. QED
    BY <2>2, <2>3 DEF Own
<1>4. ProbeRemoved'
  BY <1>1, <1>2, NoProbe DEF Probing, At
<1>5. QED
  BY <1>1, <1>2, <1>3, <1>4, FileKept, ProcStep

\* An operation that only answers.
LEMMA AnswerStep ==
    ASSUME SecretInv, NEW p \in Procs, NEW o, IsOp(o), o.pc = "ready", At(p, "ready"),
           op' = [op EXCEPT ![p] = o], UNCHANGED <<keyring, ring, mem, disk, stable, lock, writer>>,
           left' = left
    PROVE  SecretInv'
<1>0. Shaped /\ Own(p) /\ IsMem(mem[p]) /\ IsOp(op[p]) /\ DOMAIN mem = Procs /\ DOMAIN op = Procs
  BY DEF SecretInv, Shaped
<1>1. StepOf(p) /\ mem'[p] = mem[p] /\ op'[p].pc = "ready"
  BY <1>0 DEF StepOf
<1>2. Own(p)'
  BY <1>0, <1>1 DEF Own, Keyed, Ordered, CoherentAt, Probing, At, Writing, Locking
<1>3. ProbeRemoved'
  BY <1>1, NoProbe DEF Probing, At
<1>4. QED
  BY <1>1, <1>2, <1>3, FileKept, ProcStep

\* The vault is opened, read, changed, rotated and closed.
LEMMA VaultStep ==
    ASSUME SecretInv, NEW p \in Procs,
           \/ Close(p)
           \/ \E typed \in Passwords : \E password \in ReadMasterPassword(typed) :
                 NewFallback(p, password) \/ RotatePassword(p, password)
           \/ \E k, v : Get(p, k) \/ Delete(p, k) \/ Set(p, k, v)
    PROVE  SecretInv'
<1> USE DEF vaultVars
<1>0. /\ Shaped /\ Own(p) /\ IsMem(mem[p]) /\ IsOp(op[p]) /\ p # "none"
      /\ DOMAIN mem = Procs /\ DOMAIN op = Procs
  BY SecretAssumption DEF SecretInv, Shaped
<1>1. CASE Close(p)
  <2>1. /\ op[p].pc = "ready" /\ ring' = ring /\ op' = op /\ disk' = disk /\ stable' = stable
        /\ lock' = lock /\ (left' = left) /\ keyring' = keyring
        /\ writer' = IF writer = p THEN "none" ELSE writer
        /\ mem' = [mem EXCEPT ![p] = Locked]
    BY <1>1 DEF Close, At, Forget
  <2>2. StepOf(p) /\ mem'[p] = Locked
    BY <1>0, <2>1, FreshRecords DEF StepOf
  <2>3. Own(p)'
    BY <1>0, <2>1, <2>2, FreshRecords
       DEF Own, Keyed, Ordered, CoherentAt, Probing, At, Writing, Locking
  <2>4. ProbeRemoved'
    BY <2>1, <2>2, NoProbe DEF Probing, At
  <2>5. QED
    BY <2>1, <2>2, <2>3, <2>4, FileKept, ProcStep
<1>2. ASSUME NEW typed \in Passwords, NEW password \in ReadMasterPassword(typed),
             NewFallback(p, password)
      PROVE SecretInv'
  <2>1. /\ op[p].pc = "ready" /\ mem[p].kind = "locked" /\ ring' = ring /\ disk' = disk
        /\ stable' = stable /\ lock' = lock /\ writer' = writer /\ (left' = left) /\ keyring' = keyring
    BY <1>2 DEF NewFallback, Begin, At
  <2>2. PICK err :
          /\ mem' = [mem EXCEPT ![p] =
                          CASE err # "nil" -> Locked
                            [] err = "nil" /\ disk.form = "none" -> initFallback(password)
                            [] OTHER -> loadFallback(password)]
          /\ op' = [op EXCEPT ![p] = [Ready EXCEPT !.name = "NewFallback", !.err = err]]
    BY <1>2, Zenon DEF NewFallback
  <2>3. mem'[p] = Locked \/ mem'[p] = initFallback(password) \/ mem'[p] = loadFallback(password)
    BY <1>0, <2>2
  <2>4. /\ IsMem(initFallback(password)) /\ IsMem(loadFallback(password))
        /\ initFallback(password).key = deriveKey(password, initFallback(password).salt)
        /\ loadFallback(password).key = deriveKey(password, loadFallback(password).salt)
    BY DEF IsMem, initFallback, loadFallback
  <2>5. StepOf(p) /\ op'[p].pc = "ready"
    BY <1>0, <2>1, <2>2, <2>3, <2>4, FreshRecords DEF StepOf, IsOp
  <2>6. mem'[p].kind = "vault" => Sealed(mem'[p].key, mem'[p].salt)
    BY <1>2, <2>3, <2>4, FreshRecords DEF Sealed
  <2>7. writer # p
    BY <1>0, <2>1 DEF Own, Ordered
  <2>8. Own(p)'
    <3>1. Keyed(p)'
      BY <2>5, <2>6 DEF Keyed, Writing, Locking, Sealed
    <3>2. Ordered(p)' /\ CoherentAt(p)'
      BY <2>1, <2>5, <2>7 DEF Ordered, CoherentAt, Probing, At, Locking
    <3>3. QED
      BY <3>1, <3>2 DEF Own
  <2>9. ProbeRemoved'
    BY <2>1, <2>5, NoProbe DEF Probing, At
  <2>10. QED
    BY <2>1, <2>5, <2>8, <2>9, FileKept, ProcStep, SMTT(40)
<1>3. ASSUME NEW typed \in Passwords, NEW password \in ReadMasterPassword(typed),
             RotatePassword(p, password)
      PROVE SecretInv'
  <2>1. At(p, "ready") /\ mem[p].kind = "vault"
    BY <1>3 DEF RotatePassword, Begin
  <2>2. CASE TooShort(password)
    <3> DEFINE o == [Ready EXCEPT !.name = "RotatePassword", !.err = "tooShort"]
    <3>1. /\ op' = [op EXCEPT ![p] = o] /\ UNCHANGED <<keyring, ring, mem, disk, stable, lock, writer>>
          /\ (left' = left) /\ keyring' = keyring
      BY <1>3, <2>2 DEF RotatePassword
    <3>2. IsOp(o) /\ o.pc = "ready"
      BY FreshRecords DEF IsOp
    <3>3. QED
      BY <2>1, <3>1, <3>2, AnswerStep
  <2>3. CASE ~TooShort(password)
    <3> DEFINE m == [mem[p] EXCEPT !.key = deriveKey(password, FreshSalt), !.salt = FreshSalt]
    <3>1. Persist(p, "RotatePassword", m)
      BY <1>3, <2>3 DEF RotatePassword
    <3>2. IsMem(m) /\ m.kind = "vault" /\ m.key = deriveKey(password, m.salt)
      BY <1>0, <2>1 DEF IsMem
    <3> HIDE DEF m
    <3>3. Sealed(m.key, m.salt)
      BY <3>2 DEF Sealed
    <3>4. QED
      BY <2>1, <3>1, <3>2, <3>3, PersistStep
  <2>4. QED
    BY <2>2, <2>3
<1>4. ASSUME NEW k, Get(p, k) PROVE SecretInv'
  <2>1. PICK got, err : op' = [op EXCEPT ![p] = [Ready EXCEPT !.name = "Get", !.got = got, !.err = err]]
    BY <1>4 DEF Get
  <2> DEFINE o == [Ready EXCEPT !.name = "Get", !.got = got, !.err = err]
  <2>2. /\ op' = [op EXCEPT ![p] = o] /\ UNCHANGED <<keyring, ring, mem, disk, stable, lock, writer>>
        /\ (left' = left) /\ keyring' = keyring /\ At(p, "ready")
    BY <1>4, <2>1 DEF Get, Begin
  <2>3. IsOp(o) /\ o.pc = "ready"
    BY FreshRecords DEF IsOp
  <2>4. QED
    BY <2>2, <2>3, AnswerStep
<1>5. ASSUME NEW k, NEW v, NEW name, At(p, "ready"), mem[p].kind = "vault",
             Persist(p, name, [mem[p] EXCEPT !.entries[k] = v])
      PROVE SecretInv'
  <2> DEFINE m == [mem[p] EXCEPT !.entries[k] = v]
  <2>1. IsMem(m) /\ m.kind = "vault" /\ m.key = mem[p].key /\ m.salt = mem[p].salt
    BY <1>0, <1>5 DEF IsMem
  <2>2. Persist(p, name, m)
    BY <1>5
  <2> HIDE DEF m
  <2>3. Sealed(m.key, m.salt)
    BY <1>0, <1>5, <2>1 DEF Own, Keyed
  <2>4. QED
    BY <1>5, <2>1, <2>2, <2>3, PersistStep
<1>6. ASSUME NEW k, Delete(p, k) PROVE SecretInv'
  <2>1. At(p, "ready") /\ mem[p].kind = "vault"
    BY <1>6 DEF Delete, Begin
  <2>2. CASE mem[p].entries[k] = "none"
    <3> DEFINE o == [Ready EXCEPT !.name = "Delete"]
    <3>1. /\ op' = [op EXCEPT ![p] = o] /\ UNCHANGED <<keyring, ring, mem, disk, stable, lock, writer>>
          /\ (left' = left) /\ keyring' = keyring
      BY <1>6, <2>2 DEF Delete
    <3>2. IsOp(o) /\ o.pc = "ready"
      BY FreshRecords DEF IsOp
    <3>3. QED
      BY <2>1, <3>1, <3>2, AnswerStep
  <2>3. CASE mem[p].entries[k] # "none"
    BY <1>5, <1>6, <2>1, <2>3 DEF Delete
  <2>4. QED
    BY <2>2, <2>3
<1>7. ASSUME NEW k, NEW v, Set(p, k, v) PROVE SecretInv'
  BY <1>5, <1>7 DEF Set, Begin
<1>8. QED
  BY <1>1, <1>2, <1>3, <1>4, <1>6, <1>7
-----------------------------------------------------------------------------
\* A save fails: the memory may keep entries that are not on disk, but its key
\* and salt belong together.
LEMMA FailStep ==
    ASSUME SecretInv, NEW p \in Procs, NEW err, op[p].pc \in Writing, Fails(p, err),
           UNCHANGED <<keyring, ring, disk, stable, writer>>, left' = left, lock' = lock \/ lock = p
    PROVE  SecretInv'
<1>0. Shaped /\ Own(p) /\ IsMem(mem[p]) /\ IsOp(op[p]) /\ DOMAIN mem = Procs /\ DOMAIN op = Procs
  BY DEF SecretInv, Shaped
<1> DEFINE m == Restored(p)
<1>1. /\ IsMem(m) /\ m.kind = mem[p].kind /\ m.dirty = TRUE
      /\ (m.key = mem[p].key /\ m.salt = mem[p].salt) \/ (m.key = op[p].oldKey /\ m.salt = op[p].oldSalt)
  BY <1>0 DEF Restored, IsMem
<1>2. mem' = [mem EXCEPT ![p] = m] /\ op' = [op EXCEPT ![p].pc = "ready", ![p].err = err]
  BY DEF Fails, Returned
<1> HIDE DEF m
<1>3. StepOf(p) /\ mem'[p] = m /\ op'[p].pc = "ready"
  BY <1>0, <1>1, <1>2 DEF StepOf, IsOp
<1>4. m.kind = "vault" /\ Sealed(m.key, m.salt)
  BY <1>0, <1>1 DEF Own, Keyed
<1>5. Own(p)'
  <2>1. Keyed(p)'
    BY <1>3, <1>4 DEF Keyed, Writing, Locking, Sealed
  <2>2. Ordered(p)'
    BY <1>3, <1>4 DEF Ordered, Probing, At, Locking
  <2>3. CoherentAt(p)'
    BY <1>1, <1>3 DEF CoherentAt
  <2>4. QED
    BY <2>1, <2>2, <2>3 DEF Own
<1>6. ProbeRemoved'
  BY <1>3, NoProbe DEF Probing, At, Writing, Locking
<1>7. QED
  BY <1>3, <1>5, <1>6, FileKept, ProcStep

\* writeVaultFile.
LEMMA FileStep ==
    ASSUME SecretInv, NEW p \in Procs,
           \/ lockExclusive(p) \/ LockFails(p) \/ WriteTemp(p) \/ SyncTemp(p) \/ WriteFails(p)
           \/ Rename(p) \/ syncDir(p) \/ SyncDirFails(p)
    PROVE  SecretInv'
<1> USE DEF vaultVars
<1>0. /\ Shaped /\ Own(p) /\ IsMem(mem[p]) /\ IsOp(op[p]) /\ p # "none"
      /\ DOMAIN mem = Procs /\ DOMAIN op = Procs
  BY SecretAssumption DEF SecretInv, Shaped
<1>a. Keyed(p) /\ Ordered(p)
  BY <1>0 DEF Own
<1>1. ASSUME NEW pc \in {"write", "sync"}, Goto(p, pc),
             op[p].pc \in {"lock", "write"}, lock' = p, lock \in {p, "none"},
             UNCHANGED <<keyring, ring, disk, stable, mem, writer>>, left' = left
      PROVE SecretInv'
  <2>1. StepOf(p) /\ mem'[p] = mem[p] /\ op'[p] = [op[p] EXCEPT !.pc = pc]
    BY <1>0, <1>1 DEF Goto, StepOf, IsOp
  <2>2. /\ op'[p].pc = pc /\ op'[p].oldKey = op[p].oldKey /\ op'[p].oldSalt = op[p].oldSalt
        /\ op'[p].blob = op[p].blob
    BY <1>0, <2>1 DEF IsOp
  <2>3. Keyed(p)'
    BY <1>1, <1>a, <2>1, <2>2 DEF Keyed, Writing, Locking
  <2>4. Ordered(p)' /\ CoherentAt(p)'
    BY <1>1, <1>a, <2>1, <2>2 DEF Ordered, CoherentAt, Probing, At, Locking
  <2>5. ProbeRemoved'
    BY <1>1, <2>1, NoProbe DEF Probing, At
  <2>6. QED
    BY <1>1, <2>1, <2>3, <2>4, <2>5, FileKept, ProcStep DEF Own
<1>2. CASE lockExclusive(p)
  BY <1>1, <1>2 DEF lockExclusive, At
<1>3. CASE WriteTemp(p)
  <2>1. /\ op[p].pc = "write" /\ Goto(p, "sync")
        /\ UNCHANGED <<keyring, ring, disk, stable, mem, writer, lock>>
        /\ (left' = left) /\ keyring' = keyring
    BY <1>3 DEF WriteTemp, At
  <2>2. lock = p
    BY <1>a, <2>1 DEF Ordered, Locking
  <2>3. QED
    BY <1>1, <2>1, <2>2
<1>4. CASE SyncTemp(p)
  <2>1. /\ op[p].pc = "sync" /\ op' = [op EXCEPT ![p].pc = "rename", ![p].synced = TRUE]
        /\ UNCHANGED <<keyring, ring, disk, stable, mem, writer, lock>> /\ (left' = left)
    BY <1>4 DEF SyncTemp, At
  <2>2. StepOf(p) /\ mem'[p] = mem[p] /\ op'[p] = [op[p] EXCEPT !.pc = "rename", !.synced = TRUE]
    BY <1>0, <2>1 DEF StepOf, IsOp
  <2>3. /\ op'[p].pc = "rename" /\ op'[p].oldKey = op[p].oldKey /\ op'[p].oldSalt = op[p].oldSalt
        /\ op'[p].blob = op[p].blob /\ op'[p].synced
    BY <1>0, <2>2 DEF IsOp
  <2>4. Keyed(p)'
    BY <1>a, <2>1, <2>2, <2>3 DEF Keyed, Writing, Locking
  <2>5. Ordered(p)' /\ CoherentAt(p)'
    BY <1>a, <2>1, <2>2, <2>3 DEF Ordered, CoherentAt, Probing, At, Locking
  <2>6. ProbeRemoved'
    BY <2>1, <2>2, NoProbe DEF Probing, At
  <2>7. QED
    BY <2>1, <2>2, <2>4, <2>5, <2>6, FileKept, ProcStep DEF Own
<1>5. CASE LockFails(p)
  BY <1>5, FailStep DEF LockFails, At, Writing
<1>6. CASE WriteFails(p)
  <2>1. lock = p
    BY <1>6, <1>a DEF WriteFails, Ordered, Locking
  <2>2. QED
    BY <1>6, <2>1, FailStep DEF WriteFails, Writing, Locking
<1>7. CASE SyncDirFails(p)
  <2>1. lock = p
    BY <1>7, <1>a DEF SyncDirFails, Ordered, Locking, At
  <2>2. QED
    BY <1>7, <2>1, FailStep DEF SyncDirFails, Writing, Locking, At
<1>8. CASE Rename(p)
  <2>1. /\ op[p].pc = "rename" /\ op' = [op EXCEPT ![p].pc = "sync dir"] /\ op[p].synced /\ lock = p
    BY <1>8, <1>a DEF Rename, Goto, At, Ordered, Locking
  <2>2. /\ disk' = op[p].blob /\ writer' = p /\ stable' = stable
        /\ ring' = ring /\ lock' = lock /\ mem' = mem /\ (left' = left) /\ keyring' = keyring
    BY <1>8, <2>1 DEF Rename
  <2>3. StepOf(p) /\ mem'[p] = mem[p] /\ op'[p] = [op[p] EXCEPT !.pc = "sync dir"]
    BY <1>0, <2>1, <2>2 DEF StepOf, IsOp
  <2>4. /\ op'[p].pc = "sync dir" /\ op'[p].oldKey = op[p].oldKey /\ op'[p].oldSalt = op[p].oldSalt
        /\ op'[p].blob = op[p].blob
    BY <1>0, <2>3 DEF IsOp
  <2>5. Keyed(p)'
    BY <1>a, <2>1, <2>3, <2>4 DEF Keyed, Writing, Locking
  <2>6. Ordered(p)' /\ CoherentAt(p)'
    <3>1. mem[p].kind = "vault"
      BY <1>a, <2>1 DEF Keyed, Writing, Locking
    <3>2. QED
      BY <2>1, <2>2, <2>3, <2>4, <3>1 DEF Ordered, CoherentAt, Probing, At
  <2>7. VaultOpens'
    <3>1. op[p].blob = Blob(mem[p].key, mem[p].salt, mem[p].entries) /\ Sealed(mem[p].key, mem[p].salt)
      BY <1>a, <2>1 DEF Keyed, Writing, Locking
    <3>2. /\ op[p].blob.form = "vault"
          /\ \E typed \in Passwords : \E pw \in ReadMasterPassword(typed) : Opens(op[p].blob, pw)
      BY <3>1 DEF Blob, Sealed, Opens
    <3>3. QED
      BY <2>2, <3>2 DEF SecretInv, VaultOpens, Opens
  <2>8. ProbeRemoved'
    BY <2>1, <2>2, <2>3, NoProbe DEF Probing, At
  <2>9. QED
    BY <2>1, <2>2, <2>3, <2>5, <2>6, <2>7, <2>8, ProcStep DEF Own
<1>9. CASE syncDir(p)
  <2>1. /\ op[p].pc = "sync dir" /\ op' = [op EXCEPT ![p].pc = "ready", ![p].err = "nil"]
        /\ lock = p /\ writer = p /\ disk = op[p].blob
    BY <1>9, <1>a DEF syncDir, Returned, At, Ordered, Locking
  <2>2. /\ disk' = disk /\ writer' = writer /\ stable' = disk /\ ring' = ring
        /\ mem' = [mem EXCEPT ![p].dirty = FALSE] /\ (left' = left) /\ keyring' = keyring
    BY <1>9 DEF syncDir
  <2>3. /\ StepOf(p) /\ op'[p].pc = "ready" /\ mem'[p].kind = mem[p].kind /\ mem'[p].key = mem[p].key
        /\ mem'[p].salt = mem[p].salt /\ mem'[p].entries = mem[p].entries
    BY <1>0, <2>1, <2>2 DEF StepOf, IsOp, IsMem
  <2>4. /\ mem[p].kind = "vault" /\ Sealed(mem[p].key, mem[p].salt)
        /\ op[p].blob = Blob(mem[p].key, mem[p].salt, mem[p].entries)
    BY <1>a, <2>1 DEF Keyed, Writing, Locking
  <2>5. Keyed(p)'
    BY <2>3, <2>4 DEF Keyed, Writing, Locking, Sealed
  <2>6. Ordered(p)' /\ CoherentAt(p)'
    BY <2>1, <2>2, <2>3, <2>4 DEF Ordered, CoherentAt, Probing, At, Locking
  <2>7. VaultOpens'
    BY <2>2 DEF SecretInv, VaultOpens
  <2>8. ProbeRemoved'
    BY <2>1, <2>2, <2>3, NoProbe DEF Probing, At
  <2>9. QED
    BY <2>1, <2>2, <2>3, <2>5, <2>6, <2>7, <2>8, ProcStep DEF Own
<1>10. QED
  BY <1>2, <1>3, <1>4, <1>5, <1>6, <1>7, <1>8, <1>9
-----------------------------------------------------------------------------
\* A process dies, or all of them with the power.
LEMMA DeathStep ==
    ASSUME SecretInv, PowerLoss \/ \E p \in Procs : Crash(p)
    PROVE  SecretInv'
<1> USE SecretAssumption
<1>0. /\ Shaped /\ DOMAIN mem = Procs /\ DOMAIN op = Procs
  BY DEF SecretInv, Shaped
<1>1. ASSUME NEW p \in Procs, Crash(p) PROVE SecretInv'
  <2>1. /\ mem' = [mem EXCEPT ![p] = Locked] /\ op' = [op EXCEPT ![p] = Ready]
        /\ (lock' = lock \/ lock = p) /\ writer' = Forget(p)
        /\ ring' = ring /\ keyring' = keyring /\ disk' = disk /\ stable' = stable
    BY <1>1 DEF Crash
  <2>2. StepOf(p) /\ mem'[p] = Locked /\ op'[p] = Ready
    BY <1>0, <2>1, FreshRecords DEF StepOf, SecretInv, Shaped
  <2>3. Own(p)'
    BY <2>1, <2>2, FreshRecords
       DEF Own, Keyed, Ordered, CoherentAt, Probing, At, Writing, Locking, Forget
  <2>4. ProbeRemoved'
    <3>1. left' = (left \/ Probing(p))
      BY <1>1 DEF Crash
    <3>2. \A q \in Procs : q # p /\ Probing(q) => Probing(q)'
      BY <2>2 DEF StepOf, Probing, At
    <3>3. ProbeRemoved /\ ring' = ring /\ keyring' = keyring
      BY <2>1 DEF SecretInv
    <3>4. QED
      BY <3>1, <3>2, <3>3, Zenon DEF ProbeRemoved
  <2>5. writer' = writer \/ ((lock = p \/ writer = p) /\ writer' \in {p, "none"})
    BY <2>1 DEF Forget
  <2>6. QED
    BY <2>1, <2>2, <2>3, <2>4, <2>5, FileKept, ProcStep
<1>2. CASE PowerLoss
  <2>1. /\ mem' = [p \in Procs |-> Locked] /\ op' = [p \in Procs |-> Ready]
        /\ disk' \in {disk, stable} /\ stable' = disk' /\ writer' = "none" /\ ring' = ring
        /\ keyring' = keyring
    BY <1>2 DEF PowerLoss
  <2>2. \A p \in Procs : mem'[p] = Locked /\ op'[p] = Ready
    BY <2>1
  <2>3. Shaped'
    BY <1>0, <2>1, <2>2, FreshRecords DEF Shaped
  <2>4. \A p \in Procs : Own(p)'
    BY <2>1, <2>2, FreshRecords DEF Own, Keyed, Ordered, CoherentAt, Probing, At, Writing, Locking
  <2>5. VaultOpens'
    BY <2>1 DEF SecretInv, VaultOpens
  <2>6. ProbeRemoved'
    <3>1. left' = (left \/ \E p \in Procs : Probing(p))
      BY <1>2 DEF PowerLoss
    <3>2. ProbeRemoved /\ ring' = ring /\ keyring' = keyring
      BY <2>1 DEF SecretInv
    <3>3. QED
      BY <3>1, <3>2, Zenon DEF ProbeRemoved
  <2>7. QED
    BY <2>3, <2>4, <2>5, <2>6 DEF SecretInv
<1>3. QED
  BY <1>1, <1>2

LEMMA SecretInvNext == SecretInv /\ [Next]_vars => SecretInv'
<1> SUFFICES ASSUME SecretInv, [Next]_vars PROVE SecretInv'
  OBVIOUS
<1>1. ASSUME NEW p \in Procs, ProbeSet(p) \/ ProbeGet(p) \/ ProbeDelete(p) PROVE SecretInv'
  BY <1>1, RingStep
<1>2. ASSUME NEW p \in Procs, NEW a \in Accounts,
             NEW name \in {"Get", "Set", "Delete"}, NEW v, RingOp(p, name, GitHubPATKey(a), v)
      PROVE SecretInv'
  BY <1>2, RingStep
<1>3. ASSUME NEW p \in Procs,
             \/ Close(p)
             \/ \E typed \in Passwords : \E password \in ReadMasterPassword(typed) :
                   NewFallback(p, password) \/ RotatePassword(p, password)
             \/ \E k, v : Get(p, k) \/ Delete(p, k) \/ Set(p, k, v)
      PROVE SecretInv'
  BY <1>3, VaultStep
<1>4. ASSUME NEW p \in Procs, Steps(p) PROVE SecretInv'
  BY <1>1, <1>4, FileStep DEF Steps
<1>5. CASE PowerLoss \/ \E p \in Procs : Crash(p)
  BY <1>5, DeathStep
<1>6. CASE UNCHANGED vars
  <2>1. /\ UNCHANGED <<keyring, ring, disk, stable, lock, mem, op, writer>> /\ (left' = left)
    BY <1>6 DEF vars
  <2>2. Shaped' /\ \A p \in Procs : Own(p)'
    BY <2>1 DEF SecretInv, Shaped, Own, Keyed, Ordered, CoherentAt, Probing, At
  <2>3. ProbeRemoved'
    BY <2>1, ProbeKept DEF Probing, At
  <2>4. QED
    BY <2>1, <2>2, <2>3, FileKept DEF SecretInv
<1>7. QED
  <2>1. ASSUME NEW p \in Procs, NEW a \in Accounts,
               LET k == GitHubPATKey(a)
               IN  \/ Get(p, k) \/ Delete(p, k) \/ \E v \in Tokens : Set(p, k, v)
                   \/ \E name \in {"Get", "Delete"} : RingOp(p, name, k, "none")
                   \/ \E v \in Tokens : RingOp(p, "Set", k, v)
        PROVE SecretInv'
    BY <1>2, <1>3, <2>1
  <2>2. QED
    BY <1>1, <1>3, <1>4, <1>5, <1>6, <2>1 DEF Next

LEMMA SecretInvHolds == Spec => []SecretInv
BY SecretInvInit, SecretInvNext, PTL DEF Spec
-----------------------------------------------------------------------------
\* Whatever fails, crashes or loses power, in whatever process and after any
\* number of saves and rotations, a password that can be typed opens the
\* vault at the path (RotatePassword, writeVaultFile).
THEOREM VaultAlwaysOpens == Spec => []VaultOpens
<1>1. SecretInv => VaultOpens
  BY DEF SecretInv
<1>2. QED
  BY <1>1, SecretInvHolds, PTL

\* What a backend holds after saves that all succeeded is what the next start
\* reads, also after a power loss, as long as no other process wrote
\* (persistLocked, writeVaultFile).
THEOREM SavedIsFound == Spec => []Coherent
<1>1. SecretInv => Coherent
  BY DEF SecretInv, Own, CoherentAt, Coherent
<1>2. QED
  BY <1>1, SecretInvHolds, PTL

\* However many processes probe the keyring at once, and whatever they find, no
\* probe stays behind in a keyring that deletes what it is told to and stores
\* nothing of a Set it refuses, unless a process died while it probed
\* (detectWithClient).
THEOREM NoProbeStays == Spec => []ProbeRemoved
<1>1. SecretInv => ProbeRemoved
  BY DEF SecretInv
<1>2. QED
  BY <1>1, SecretInvHolds, PTL
=============================================================================
