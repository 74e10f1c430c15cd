--------------------------- MODULE Configuration ---------------------------
(***************************************************************************)
(* Which identity and which servers a command works with: loading and       *)
(* validating the configuration (internal/config), logging in              *)
(* (internal/infisical, cmd/root.go) and opening an engine (database.New).  *)
(* The configuration is read once, when a process starts, from a file and   *)
(* the environment of that moment: nothing keeps it the one an app was      *)
(* provisioned under.                                                      *)
(*                                                                         *)
(* One app under its default names, and operators who wait for each other.  *)
(* Lifecycle has the calls a command makes, one by one. Here the calls to   *)
(* one store that follow each other are one step, which is carried out or   *)
(* stops at any of them, whether that call failed, its answer was lost or   *)
(* the process died, and leaves what the calls before it, and its own       *)
(* rollback, have left. What is printed then is left out.                   *)
(***************************************************************************)
EXTENDS Contract

CONSTANTS
    Servers,        \* hostnames of database servers, of either engine
    Aliases,        \* addresses that only the apps reach a server by
    UserHosts,      \* host parts of mysql accounts, "%" among them
    Files,          \* what the configuration file may hold, or how it fails
    Environments,   \* what the environment variables may hold
    Commands,       \* the command lines
    MaxCommands,    \* how many of them are typed
    Generated,      \* the password that the n-th command generates
    Worlds          \* what the servers and the vault may hold at first

InfisicalKeys == {"project", "client_id", "client_secret", "token"}
RequiredKeys == {"hostname", "port", "user", "password", "name"}
SectionKeys == RequiredKeys \cup {"user_host"}

\* "" is a key that is not set. A secret or token is as good as the vault finds
\* it; "jwt" is a token where a client secret belongs.
Identities == [InfisicalKeys -> {"", "set", "good", "bad", "jwt"}]
EngineSections ==
    {s \in [SectionKeys -> {"", "set"} \cup Servers \cup UserHosts] :
        s["hostname"] \in Servers \cup {""} /\ s["user_host"] \in UserHosts \cup {""}}
Configs == [infisical : Identities, postgres : EngineSections, mysql : EngineSections]
Unreadable == {"missing", "broken"}

CommandType ==
    [cmd : {"provision", "rotate", "delete", "test", "list", "version"},
     engine : Engines \cup {"", "oracle"}, adopt : BOOLEAN, explicit : BOOLEAN,
     host : Servers \cup Aliases \cup {""}, noVerify : BOOLEAN]

Accounts == [Engines -> [Servers -> [UserHosts -> STRING \cup {Absent}]]]

ASSUME ConfigurationAssumption ==
    /\ Environments \subseteq Configs
    /\ \A f \in Files : f.state \in Unreadable \cup {"ok"} /\ f.keys \in Configs
    /\ Commands # {} /\ Commands \subseteq CommandType
    /\ "" \notin Servers \cup Aliases \cup UserHosts /\ "%" \in UserHosts
    /\ MaxCommands \in Nat

\* Values the record may get, but for passwords; Absent is none of them.
Plain == Engines \cup {"", "set", "app_db", "app_user", "public"} \cup Servers \cup Aliases \cup UserHosts

\* A generated password is new: nobody generated or recorded it before.
ASSUME PasswordsAssumption ==
    /\ Absent \notin Plain
    /\ \A n \in 1 .. MaxCommands : Generated[n] \notin {"", Absent}
    /\ \A m, n \in 1 .. MaxCommands : m # n => Generated[m] # Generated[n]
    /\ \A w \in Worlds :
        /\ w.database \subseteq Engines \X Servers /\ w.account \in Accounts
        /\ w.record \in [Keys -> STRING \cup {Absent}]
        /\ \A n \in 1 .. MaxCommands :
            /\ w.record["DB_PASSWORD"] # Generated[n]
            /\ \A e \in Engines, s \in Servers, h \in UserHosts : w.account[e][s][h] # Generated[n]

VARIABLES
    run,        \* the command under way or last run
    database,   \* the servers, by engine, that have the app's database
    account,    \* engine -> server -> account host -> the app's password there
    record,     \* the secrets in the app's folder
    typed       \* commands so far

vars == <<run, database, account, record, typed>>

NoConfig == [infisical |-> [k \in InfisicalKeys |-> ""],
             postgres |-> [k \in SectionKeys |-> ""], mysql |-> [k \in SectionKeys |-> ""]]
Nothing == [k \in Keys |-> Absent]

Init ==
    /\ run = [step |-> "done", req |-> CHOOSE r \in Commands : TRUE, cfg |-> NoConfig,
              client |-> "none", seen |-> Nothing]
    /\ \E w \in Worlds : database = w.database /\ account = w.account /\ record = w.record
    /\ typed = 0

----------------------------------------------------------------------------
(* Pure decisions.                                                         *)

\* A variable that is set wins; one that is set to "" counts as not set.
Merge(file, env) ==
    [section \in DOMAIN file |-> [k \in DOMAIN file[section] |->
        IF env[section][k] # "" THEN env[section][k] ELSE file[section][k]]]

Complete(section) == \A k \in RequiredKeys : section[k] # ""

ValidateMutantFirstSection(cfg) ==
    /\ cfg.infisical["project"] # ""
    /\ cfg.infisical["client_secret"] # "jwt"
    /\ cfg.infisical["token"] = "" =>
        cfg.infisical["client_id"] # "" /\ cfg.infisical["client_secret"] # ""
    /\ cfg.postgres["hostname"] # "" => Complete(cfg.postgres)

\* An engine's section may be left out; one with a hostname must be complete.
Validate(cfg) ==
    /\ cfg.infisical["project"] # ""
    /\ cfg.infisical["client_secret"] # "jwt"
    /\ cfg.infisical["token"] = "" =>
        cfg.infisical["client_id"] # "" /\ cfg.infisical["client_secret"] # ""
    /\ \A e \in Engines : cfg[e]["hostname"] # "" => Complete(cfg[e])

\* database.New, an engine of the registry that has a section.
Opens(cfg, e) == e \in Engines /\ cfg[e]["hostname"] # ""

\* userHost: postgres roles have none, "%" stands for that.
UserHost(cfg, e) ==
    IF e = "mysql" /\ cfg.mysql["user_host"] # "" THEN cfg.mysql["user_host"] ELSE "%"

\* External: does the vault answer a call made by this client?
Answers(client, cfg) ==
    \/ client = "pair"
    \/ client = "token" /\ cfg.infisical["token"] = "good"

\* The names an app gets. A record that was changed by hand may hold others,
\* which then fail the identifier allowlist.
OwnNames == [DB_NAME |-> "app_db", DB_USER |-> "app_user"]
Allowed(secrets, k) == Lookup(secrets, k) = OwnNames[k]

\* External: a server lets the app in at any of its accounts with the password.
Admits(creds) ==
    LET e == creds["DB_TYPE"]
        s == creds["DB_HOST"]
    IN  /\ <<e, s>> \in database
        /\ \A k \in DOMAIN OwnNames : creds[k] = OwnNames[k]
        /\ \E h \in UserHosts : account[e][s][h] = creds["DB_PASSWORD"]

----------------------------------------------------------------------------
(* A command.                                                              *)

Ended == {"done", "offline", "synced", "rotated", "rolledBack", "verified", "unverified",
          "deleted", "failed"}

At(step) == run.step = step
Goto(step) == run' = [run EXCEPT !.step = step]
stores == <<database, account, record>>

Type(r) ==
    /\ run.step \in Ended /\ typed < MaxCommands
    /\ run' = [run EXCEPT !.step = IF r.cmd = "version" THEN "done" ELSE "load", !.req = r,
                          !.cfg = NoConfig, !.client = "none", !.seen = Nothing]
    /\ typed' = typed + 1
    /\ UNCHANGED stores

\* Only the file named by --config has to be there, but one that is there has
\* to parse.
Load ==
    /\ At("load")
    /\ \E file \in Files, env \in Environments :
        LET cfg == Merge(IF file.state = "ok" THEN file.keys ELSE NoConfig, env)
        IN  IF /\ file.state # "broken"
               /\ file.state = "missing" => ~run.req.explicit
               /\ Validate(cfg)
            THEN run' = [run EXCEPT !.step = "login", !.cfg = cfg]
            ELSE Goto("failed")
    /\ UNCHANGED <<stores, typed>>

\* NewClient: a token is taken as it is, the pair exchanged for one, which can
\* fail whatever the secret is.
ClientsMutantPairFirst(identity) ==
    IF identity["client_secret"] = "" THEN {"token"}
    ELSE IF identity["client_secret"] = "good" THEN {"pair", "none"} ELSE {"none"}

Clients(identity) ==
    IF identity["token"] # "" THEN {"token"}
    ELSE IF identity["client_secret"] = "good" THEN {"pair", "none"} ELSE {"none"}

\* Without a client the command goes on, to find out for itself.
Login ==
    /\ At("login")
    /\ \E client \in Clients(run.cfg.infisical) :
        run' = [run EXCEPT !.step = "open", !.client = client]
    /\ UNCHANGED <<stores, typed>>

----------------------------------------------------------------------------
(* What the commands do with the client and the section they got.          *)

Password == Generated[typed]
Host(e) == run.cfg[e]["hostname"]

\* The adapters address one account: postgres has but one of a name.
Account(e) == account[e][Host(e)][UserHost(run.cfg, e)]
SetAccount(e, password) ==
    account' = [account EXCEPT ![e][Host(e)][UserHost(run.cfg, e)] = password]

\* The engine of a command that resolves its app.
Engine == ResolveEngine(ParseCredentials(run.seen), run.req.engine)

----------------------------------------------------------------------------
(* provision.                                                              *)

\* prepareSecretSync; a run without a client has none.
Preflight ==
    LET e == run.req.engine
    IN  /\ At("open") /\ run.req.cmd = "provision"
        /\ \/ Goto("failed")
           \/ /\ Opens(run.cfg, e) /\ run.client = "none"
              /\ Goto("adapter")
           \/ /\ Opens(run.cfg, e) /\ Answers(run.client, run.cfg)
              /\ Acceptable(run.req, record)
              /\ run' = [run EXCEPT !.step = "adapter", !.seen = record]
        /\ UNCHANGED <<stores, typed>>

Whole == {"database", "account"}

Make(e, made) ==
    /\ database' = IF "database" \in made THEN database \cup {<<e, Host(e)>>} ELSE database
    /\ IF "account" \in made THEN SetAccount(e, Password) ELSE UNCHANGED account

\* What a run that failed has made or reset and not undone; in postgres a user
\* is made before the database, and not dropped while that is there.
Leftovers(e) ==
    {made \in SUBSET Whole : e = "postgres" /\ "database" \in made => "account" \in made}

\* Without --adopt neither the database nor the account may be there.
Free(e) == <<e, Host(e)>> \notin database /\ Account(e) = Absent

Adapter ==
    LET e == run.req.engine
    IN  /\ At("adapter")
        /\ \/ Goto("failed") /\ UNCHANGED <<database, account>>
           \/ /\ run.req.adopt \/ Free(e)
              /\ \/ /\ Make(e, Whole)
                    /\ Goto(IF run.client = "none" THEN "offline" ELSE "sync")
                 \/ \E made \in Leftovers(e) : Make(e, made) /\ Goto("failed")
        /\ UNCHANGED <<record, typed>>

\* The contract the run wants recorded. --host overrides what is recorded and
\* not where the run connects.
DesiredMutantKeepsHost ==
    LET e == run.req.engine
    IN  ToSecrets([k \in ContractKeys |->
            CASE k = "DB_TYPE" -> e
              [] k \in DOMAIN OwnNames -> OwnNames[k]
              [] k = "DB_PASSWORD" -> Password
              [] k = "DB_HOST" -> IF run.req.host # "" THEN run.req.host
                                  ELSE IF run.seen[k] # Absent THEN run.seen[k] ELSE Host(e)
              [] k = "DB_PORT" -> run.cfg[e]["port"]
              [] k = "DB_SCHEMA" -> IF e = "postgres" THEN "public" ELSE ""])

Desired ==
    LET e == run.req.engine
    IN  ToSecrets([k \in ContractKeys |->
            CASE k = "DB_TYPE" -> e
              [] k \in DOMAIN OwnNames -> OwnNames[k]
              [] k = "DB_PASSWORD" -> Password
              [] k = "DB_HOST" -> IF run.req.host # "" THEN run.req.host ELSE Host(e)
              [] k = "DB_PORT" -> run.cfg[e]["port"]
              [] k = "DB_SCHEMA" -> IF e = "postgres" THEN "public" ELSE ""])

Sync ==
    LET plan == PlanSecretSync(run.seen, Desired)
    IN  /\ At("sync")
        /\ \E done \in DoneSoFar(plan) :
            /\ record' = [k \in Keys |-> IF k \in done THEN Desired[k] ELSE record[k]]
            /\ \/ Goto("failed")
               \/ done = Touched(plan) /\ Goto("synced")
        /\ UNCHANGED <<database, account, typed>>

----------------------------------------------------------------------------
(* The other commands.                                                     *)

\* They need a client; those that manage the app resolve it, its engine and
\* that engine's section. Who confirms, and who declines, is in Resolve.
ResolveApp ==
    LET creds == ParseCredentials(record)
        e == ResolveEngine(creds, run.req.engine)
        cmd == run.req.cmd
    IN  /\ At("open") /\ cmd # "provision"
        /\ \/ Goto("failed")
           \/ /\ Answers(run.client, run.cfg)
              /\ cmd \in {"rotate", "delete"} => Resolvable(record) /\ Opens(run.cfg, e)
              /\ cmd = "test" => ResolveType(creds) /\ RequireCore(creds)
              /\ run' = [run EXCEPT
                    !.seen = record,
                    !.step = CASE cmd = "rotate" -> "alter" [] cmd = "delete" -> "drop"
                               [] cmd = "test" -> "dial" [] OTHER -> "done"]
        /\ UNCHANGED <<stores, typed>>

\* Rotation changes the account on the server of the configuration.
Alter ==
    /\ At("alter")
    /\ \/ Goto("failed") /\ UNCHANGED account
       \/ /\ Allowed(run.seen, "DB_USER") /\ Account(Engine) # Absent
          /\ SetAccount(Engine, Password)
          /\ Goto("record") \/ Goto("failed")
    /\ UNCHANGED <<database, record, typed>>

OldPassword == Lookup(run.seen, "DB_PASSWORD")

\* A password that is missing is created, any other updated. Success is
\* reported before it is verified.
RecordPassword ==
    LET key == "DB_PASSWORD"
        refused == Goto(IF OldPassword = "" THEN "failed" ELSE "restore")
    IN  /\ At("record")
        /\ \/ refused /\ UNCHANGED record
           \/ /\ (OldPassword = "") = (record[key] = Absent)
              /\ record' = [record EXCEPT ![key] = Password]
              /\ refused \/ Goto(IF run.req.noVerify THEN "rotated" ELSE "dial")
        /\ UNCHANGED <<database, account, typed>>

\* A restore that fails is told with the new password.
Restore ==
    /\ At("restore")
    /\ \/ Goto("failed") /\ UNCHANGED account
       \/ SetAccount(Engine, OldPassword) /\ (Goto("rolledBack") \/ Goto("failed"))
    /\ UNCHANGED <<database, record, typed>>

\* TestAppConnection dials the server of the record: after a rotation with
\* the new password, and the engine it was done on where none was recorded.
Dialled ==
    LET creds == ParseCredentials(run.seen)
    IN  IF run.req.cmd = "rotate"
        THEN [creds EXCEPT !["DB_TYPE"] = Engine, !["DB_PASSWORD"] = Password]
        ELSE creds

DialMutantAdminHost ==
    /\ At("dial")
    /\ \/ Goto(IF run.req.cmd = "rotate" THEN "unverified" ELSE "failed")
       \/ /\ RequireCore(Dialled) /\ ResolveType(Dialled)
          /\ Admits([Dialled EXCEPT !["DB_HOST"] = Host(Dialled["DB_TYPE"])])
          /\ Goto("verified")
    /\ UNCHANGED <<stores, typed>>

Dial ==
    /\ At("dial")
    /\ \/ Goto(IF run.req.cmd = "rotate" THEN "unverified" ELSE "failed")
       \/ RequireCore(Dialled) /\ ResolveType(Dialled) /\ Admits(Dialled) /\ Goto("verified")
    /\ UNCHANGED <<stores, typed>>

\* How far the drops may get: postgres drops the database first, mysql the
\* user. They succeed where there is nothing to drop.
Dropped(e) ==
    {gone \in SUBSET Whole :
        /\ e = "postgres" /\ "account" \in gone => "database" \in gone
        /\ e = "mysql" /\ "database" \in gone => "account" \in gone}

Drop ==
    /\ At("drop")
    /\ \/ Goto("failed") /\ UNCHANGED <<database, account>>
       \/ /\ Allowed(run.seen, "DB_NAME") /\ Allowed(run.seen, "DB_USER")
          /\ \E gone \in Dropped(Engine) :
              /\ database' = IF "database" \in gone THEN database \ {<<Engine, Host(Engine)>>}
                             ELSE database
              /\ IF "account" \in gone THEN SetAccount(Engine, Absent) ELSE UNCHANGED account
              /\ \/ Goto("failed")
                 \/ gone = Whole /\ Goto("erase")
    /\ UNCHANGED <<record, typed>>

\* The secrets are listed and erased, then the folder.
Erase ==
    LET listed == {k \in Keys : record[k] # Absent}
    IN  /\ At("erase")
        /\ \E gone \in ErasedSoFar(listed) :
            /\ record' = [k \in Keys |-> IF k \in gone THEN Absent ELSE record[k]]
            /\ \/ Goto("failed")
               \/ gone = listed /\ Goto("deleted")
        /\ UNCHANGED <<database, account, typed>>

Next ==
    \/ \E r \in Commands : Type(r)
    \/ Load \/ Login
    \/ Preflight \/ Adapter \/ Sync
    \/ ResolveApp \/ Alter \/ RecordPassword \/ Restore \/ Dial \/ Drop \/ Erase

Spec == Init /\ [][Next]_vars

----------------------------------------------------------------------------
(* Properties.                                                             *)

Touches(e, s) ==
    (<<e, s>> \in database) # (<<e, s>> \in database') \/ account[e][s] # account'[e][s]

\* A server is changed only under a section that names it and is complete,
\* however its keys were spread over the file and the environment.
ChangesAreConfigured ==
    [][\A e \in Engines, s \in Servers : Touches(e, s) =>
        Host(e) = s /\ Complete(run.cfg[e])]_vars

\* A rejected token fails closed: no server is changed by a run that carries
\* one. Only a login that failed lets a run go on, and then nothing that was
\* recorded is forgotten or changed.
BadTokenChangesNothing ==
    [][/\ run.cfg.infisical["token"] \notin {"", "good"} => UNCHANGED stores
       /\ run.client = "none" => UNCHANGED record]_vars

\* Whatever earlier commands left, half done and under whatever configuration,
\* the record of a run that reported a sync is whole and lets the app in: at
\* the host it records, or with --host at the one the run connected to.
SyncedLogsIn ==
    At("synced") =>
        LET creds == ParseCredentials(record)
            e == run.req.engine
        IN  /\ creds["DB_TYPE"] = e /\ ValidateContract(creds, e)
            /\ Admits(IF run.req.host = "" THEN creds
                      ELSE [creds EXCEPT !["DB_HOST"] = Host(e)])

\* Verification finds drift out: a rotation under a configuration that names
\* another server than the record does, which changed the password of a user
\* of the same name there, is never reported as verified.
VerificationFindsDrift ==
    [][At("dial") /\ run.req.cmd = "rotate" /\ run'.step = "verified" =>
        record["DB_HOST"] = Host(Engine)]_vars

\* REFERENCE.md: delete's prompt names "exactly what will be deleted (database,
\* user, host, ...)", which is the recorded host: after it, that is gone.
DeletesWhatItNamed ==
    At("deleted") => <<Engine, Lookup(run.seen, "DB_HOST")>> \notin database
=============================================================================
