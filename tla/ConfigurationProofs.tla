------------------------ MODULE ConfigurationProofs ------------------------
(***************************************************************************)
(* The properties of Configuration, for any servers, files, environments,  *)
(* first states and command lines: which configuration a command read is   *)
(* settled before it changes anything, what it resolved is what the vault  *)
(* records, and a password it generated is on the server it was set on and *)
(* nowhere else.                                                           *)
(***************************************************************************)
EXTENDS Configuration, TLAPS

\* Which fields and keys things have; what is in them matters little.
RunShape ==
    run = [step |-> run.step, req |-> run.req, cfg |-> run.cfg,
           client |-> run.client, seen |-> run.seen]
Folder(secrets) == secrets = [k \in Keys |-> secrets[k]]
AccountShape(f) ==
    /\ f = [e \in Engines |-> f[e]]
    /\ \A e \in Engines : f[e] = [s \in Servers |-> f[e][s]]
    /\ \A e \in Engines, s \in Servers : f[e][s] = [h \in UserHosts |-> f[e][s][h]]
Stored ==
    /\ AccountShape(account) /\ Folder(record)
    /\ database \subseteq Engines \X Servers

\* A command under way has been typed.
Typed ==
    /\ RunShape /\ Folder(run.seen) /\ run.req \in CommandType
    /\ typed \in 0 .. MaxCommands
    /\ run.step \notin Ended => typed \in 1 .. MaxCommands

Provisions == {"adapter", "sync"}
Manages == {"alter", "record", "restore", "drop", "erase"}
Working == Provisions \cup Manages \cup {"dial"}

\* From the login on, the configuration is a valid one.
Configured ==
    run.step \in Working \cup {"login", "open"} =>
        /\ Validate(run.cfg)
        /\ \A e \in Engines : run.cfg[e] \in EngineSections

\* A run that carries a token has no other client, and only a provisioning run
\* goes on without one.
Authenticated ==
    /\ run.step \in Working \cup {"open"} /\ run.cfg.infisical["token"] # ""
        => run.client = "token"
    /\ run.step \in Working =>
        \/ run.step = "adapter" /\ run.client = "none"
        \/ Answers(run.client, run.cfg)

\* What a command changes it changes on an engine that has a section.
Opened ==
    /\ run.step \in Provisions => Opens(run.cfg, run.req.engine)
    /\ run.step \in Manages => Opens(run.cfg, Engine)
    /\ run.step \in {"alter", "record", "restore"} => run.req.cmd = "rotate"
    /\ run.step = "dial" /\ run.req.cmd = "rotate" => Opens(run.cfg, Engine)

\* What it resolved is what is recorded, but for the password it recorded itself.
Resolved ==
    /\ run.step \in {"sync", "alter", "record"} => run.seen = record
    /\ run.step = "adapter" /\ run.client # "none" => run.seen = record
    /\ run.step = "dial" =>
        \A k \in Keys \ {"DB_PASSWORD"} : run.seen[k] = record[k]

\* What the adapter has made when the contract is recorded.
Made ==
    At("sync") =>
        LET e == run.req.engine
        IN  <<e, Host(e)>> \in database /\ Account(e) = Password

\* The passwords not yet given to anything, the running command's own among
\* them until it changes an account, are nowhere.
Unspent(n) ==
    n > typed \/ (n = typed /\ run.step \in {"load", "login", "open", "alter"})
Clean(n) ==
    /\ \A e \in Engines, s \in Servers, h \in UserHosts : account[e][s][h] # Generated[n]
    /\ record["DB_PASSWORD"] # Generated[n] /\ run.seen["DB_PASSWORD"] # Generated[n]
Fresh == \A n \in 1 .. MaxCommands : Unspent(n) => Clean(n)

\* A rotation's own password is on the server it set it on only.
Here ==
    run.step \in {"record", "dial"} /\ run.req.cmd = "rotate" =>
        \A e \in Engines, s \in Servers, h \in UserHosts :
            account[e][s][h] = Password => e = Engine /\ s = Host(Engine)

IInv ==
    /\ Stored /\ Typed /\ Configured /\ Authenticated /\ Opened /\ Resolved
    /\ Made /\ Fresh /\ Here /\ SyncedLogsIn

----------------------------------------------------------------------------
(* Small facts.                                                            *)

LEMMA PasswordFacts ==
  ASSUME NEW n \in 1 .. MaxCommands
  PROVE  /\ Generated[n] # "" /\ Generated[n] # Absent
         /\ \A m \in 1 .. MaxCommands : m # n => Generated[m] # Generated[n]
  BY PasswordsAssumption

LEMMA CommandFacts == Commands \subseteq CommandType /\ MaxCommands \in Nat
  BY ConfigurationAssumption

LEMMA HostFacts ==
  ASSUME Typed, Configured, run.step \in Working, NEW e, Opens(run.cfg, e)
  PROVE  /\ e \in Engines /\ Complete(run.cfg[e])
         /\ Host(e) \in Servers /\ UserHost(run.cfg, e) \in UserHosts
         /\ run.cfg[e] \in EngineSections
  <1>1. e \in Engines /\ Complete(run.cfg[e]) /\ run.cfg[e] \in EngineSections
    BY DEF Configured, Validate, Opens
  <1>2. Host(e) \in Servers
    BY <1>1 DEF EngineSections, Opens, Host
  <1>3. UserHost(run.cfg, e) \in UserHosts
    <2>1. "mysql" \in Engines /\ run.cfg["mysql"] \in EngineSections
      BY DEF Configured, Engines
    <2>2. run.cfg.mysql \in EngineSections
      BY <2>1
    <2>3. QED
      BY <2>2, ConfigurationAssumption DEF EngineSections, UserHost
  <1>4. QED
    BY <1>1, <1>2, <1>3

Sets(e, s, h, pw) == account' = [account EXCEPT ![e][s][h] = pw]

LEMMA OneAccount ==
  ASSUME AccountShape(account), NEW c \in Engines, NEW t \in Servers, NEW u \in UserHosts, NEW pw,
         Sets(c, t, u, pw)
  PROVE  /\ AccountShape(account')
         /\ \A e \in Engines, s \in Servers, h \in UserHosts :
              account'[e][s][h] = IF e = c /\ s = t /\ h = u THEN pw ELSE account[e][s][h]
  <1>a. account' = [account EXCEPT ![c][t][u] = pw]
    BY DEF Sets
  <1>1. \A e \in Engines : account'[e] = IF e = c THEN [account[c] EXCEPT ![t][u] = pw] ELSE account[e]
    BY <1>a DEF AccountShape
  <1>2. \A s \in Servers :
          account'[c][s] = IF s = t THEN [account[c][t] EXCEPT ![u] = pw] ELSE account[c][s]
    BY <1>1 DEF AccountShape
  <1>3. \A h \in UserHosts : account'[c][t][h] = IF h = u THEN pw ELSE account[c][t][h]
    BY <1>2 DEF AccountShape
  <1>4. account' = [e \in Engines |-> account'[e]]
    BY <1>a DEF AccountShape
  <1>5. ASSUME NEW e \in Engines PROVE account'[e] = [s \in Servers |-> account'[e][s]]
    <2>1. CASE e = c
      <3>1. DOMAIN account[c] = Servers
        BY DEF AccountShape
      <3>2. account'[c] = [s \in Servers |-> [account[c] EXCEPT ![t][u] = pw][s]]
        BY <1>1, <3>1
      <3>3. QED
        BY <1>1, <2>1, <3>2
    <2>2. CASE e # c
      BY <1>1, <2>2 DEF AccountShape
    <2>3. QED
      BY <2>1, <2>2
  <1>0. \A e \in Engines, s \in Servers : account[e][s] = [h \in UserHosts |-> account[e][s][h]]
    BY DEF AccountShape
  <1>6. ASSUME NEW e \in Engines, NEW s \in Servers
        PROVE  account'[e][s] = [h \in UserHosts |-> account'[e][s][h]]
    <2>1. CASE e = c /\ s = t
      <3> DEFINE row == [account[c][t] EXCEPT ![u] = pw]
      <3>1. DOMAIN account[c][t] = UserHosts
        BY DEF AccountShape
      <3>2. row = [h \in UserHosts |-> row[h]]
        BY <3>1
      <3>3. account'[e][s] = row
        BY <1>2, <2>1
      <3> HIDE DEF row
      <3>4. QED
        BY <3>2, <3>3
    <2>2. CASE ~(e = c /\ s = t)
      <3>1. account'[e][s] = account[e][s]
        BY <1>1, <1>2, <2>2
      <3> DEFINE row == account[e][s]
      <3>2. row = [h \in UserHosts |-> row[h]]
        BY <1>0
      <3>3. account'[e][s] = row
        BY <3>1
      <3> HIDE DEF row
      <3>4. QED
        BY <3>2, <3>3
    <2>3. QED
      BY <2>1, <2>2
  <1>7. AccountShape(account')
    BY <1>4, <1>5, <1>6 DEF AccountShape
  <1>8. ASSUME NEW e \in Engines, NEW s \in Servers, NEW h \in UserHosts
        PROVE  account'[e][s][h] = IF e = c /\ s = t /\ h = u THEN pw ELSE account[e][s][h]
    BY <1>1, <1>2, <1>3
  <1>9. QED
    BY <1>7, <1>8

\* What moves a run to a step leaves the rest of it.
LEMMA Moved ==
  ASSUME Typed, NEW step, Goto(step), UNCHANGED typed, run.step \notin Ended \/ step \in Ended
  PROVE  /\ Typed' /\ run'.step = step
         /\ run'.req = run.req /\ run'.cfg = run.cfg
         /\ run'.client = run.client /\ run'.seen = run.seen
  BY DEF Typed, RunShape, Goto, Folder

\* A run goes on with a valid configuration and a client that is answered.
LEMMA Onward ==
  ASSUME Configured, Authenticated, run.step \in Working \cup {"open"},
         run'.cfg = run.cfg, run'.client = run.client,
         \/ run'.step = "adapter" /\ run.client = "none"
         \/ Answers(run.client, run.cfg)
  PROVE  Configured' /\ Authenticated'
  BY DEF Configured, Authenticated, Answers

\* Passwords stay fresh where the only one that is spread is none of them.
LEMMA KeepsFresh ==
  ASSUME Fresh, NEW pw,
         \A n \in 1 .. MaxCommands : Unspent(n)' => Unspent(n) /\ Generated[n] # pw,
         \A e \in Engines, s \in Servers, h \in UserHosts :
            account'[e][s][h] \in {account[e][s][h], pw},
         record'["DB_PASSWORD"] \in {record["DB_PASSWORD"], pw},
         run'.seen["DB_PASSWORD"] \in {run.seen["DB_PASSWORD"], record["DB_PASSWORD"], pw}
  PROVE  Fresh'
  <1> SUFFICES ASSUME NEW n \in 1 .. MaxCommands, Unspent(n)' PROVE Clean(n)'
    BY DEF Fresh
  <1>1. Clean(n) /\ Generated[n] # pw
    BY DEF Fresh
  <1>2. QED
    BY <1>1 DEF Clean

\* Past the point where a command uses its password, the fresh ones are those
\* of the commands to come.
LEMMA ToCome ==
  ASSUME NEW n \in 1 .. MaxCommands, Unspent(n)', UNCHANGED typed,
         run'.step \notin {"load", "login", "open", "alter"}
  PROVE  Unspent(n) /\ n > typed
  BY DEF Unspent

\* A step that only moves a run on to its end keeps what it keeps of the stores.
LEMMA Ending ==
  ASSUME IInv, NEW end \in Ended \ {"synced"}, Goto(end), Stored', UNCHANGED typed, Fresh'
  PROVE  IInv'
  <1>1. Typed' /\ run'.step = end
    BY Moved DEF IInv
  <1>2. end \notin Working \cup {"login", "open"} /\ end # "synced"
    BY DEF Ended, Working, Provisions, Manages
  <1>3. Configured' /\ Authenticated' /\ Opened' /\ Resolved' /\ Made' /\ Here' /\ SyncedLogsIn'
    BY <1>1, <1>2 DEF Configured, Authenticated, Opened, Resolved, Made, Here, SyncedLogsIn, At,
                      Working, Provisions, Manages
  <1>4. QED
    BY <1>1, <1>3 DEF IInv

\* The stores as they are: nothing is spent by a step to an end.
LEMMA EndSafe ==
  ASSUME IInv, NEW end \in Ended \ {"synced"}, Goto(end), UNCHANGED <<stores, typed>>
  PROVE  IInv'
  <1>1. run'.step = end /\ run'.seen = run.seen
    BY Moved DEF IInv, stores
  <1>2. end \notin {"load", "login", "open", "alter"}
    BY DEF Ended
  <1>3. Fresh' /\ Stored'
    BY <1>1, <1>2 DEF IInv, Fresh, Unspent, Clean, Stored, stores
  <1>4. QED
    BY <1>3, Ending DEF stores

LEMMA FailSafe == ASSUME IInv, Goto("failed"), UNCHANGED <<stores, typed>> PROVE IInv'
  BY EndSafe DEF Ended

----------------------------------------------------------------------------
(* From the command line to an engine.                                     *)

LEMMA InitSafe == ASSUME Init PROVE IInv
  <1>1. PICK w \in Worlds : database = w.database /\ account = w.account /\ record = w.record
    BY DEF Init
  <1>2. /\ w.database \subseteq Engines \X Servers /\ w.account \in Accounts
        /\ w.record \in [Keys -> STRING \cup {Absent}]
        /\ \A n \in 1 .. MaxCommands :
            /\ w.record["DB_PASSWORD"] # Generated[n]
            /\ \A e \in Engines, s \in Servers, h \in UserHosts : w.account[e][s][h] # Generated[n]
    BY PasswordsAssumption
  <1>3. AccountShape(account)
    BY <1>1, <1>2 DEF Accounts, AccountShape
  <1>4. Stored
    BY <1>1, <1>2, <1>3 DEF Stored, Folder
  <1>5. run.step = "done" /\ run.seen = Nothing /\ RunShape /\ run.req \in Commands /\ typed = 0
    BY ConfigurationAssumption DEF Init, RunShape
  <1>6. Typed
    BY <1>5, CommandFacts DEF Typed, Folder, Nothing, Ended
  <1>7. "DB_PASSWORD" \in Keys
    BY DEF Keys, ContractKeys
  <1>8. Fresh
    <2> SUFFICES ASSUME NEW n \in 1 .. MaxCommands PROVE Clean(n)
      BY DEF Fresh
    <2>1. run.seen["DB_PASSWORD"] # Generated[n]
      BY <1>5, <1>7, PasswordFacts DEF Nothing
    <2>2. QED
      BY <1>1, <1>2, <2>1 DEF Clean
  <1>9. QED
    BY <1>4, <1>5, <1>6, <1>8 DEF IInv, Configured, Authenticated, Opened, Resolved, Made, Here,
        SyncedLogsIn, At, Working, Provisions, Manages

LEMMA TypeSafe == ASSUME IInv, NEW r \in Commands, Type(r) PROVE IInv'
  <1>1. /\ run'.step \in {"done", "load"} /\ run'.seen = Nothing /\ RunShape' /\ run'.req = r
        /\ typed' = typed + 1 /\ typed' \in 1 .. MaxCommands /\ UNCHANGED stores
    <2>1. run.step \in Ended /\ typed < MaxCommands /\ typed \in 0 .. MaxCommands
      BY DEF IInv, Typed, Type
    <2> DEFINE to == IF r.cmd = "version" THEN "done" ELSE "load"
    <2>2. to \in {"done", "load"}
      OBVIOUS
    <2>3. run' = [run EXCEPT !.step = to, !.req = r, !.cfg = NoConfig, !.client = "none",
                             !.seen = Nothing]
      BY DEF Type
    <2> HIDE DEF to
    <2>4. run'.step \in {"done", "load"} /\ run'.seen = Nothing /\ RunShape' /\ run'.req = r
      BY <2>2, <2>3 DEF IInv, Typed, RunShape
    <2>5. typed' = typed + 1 /\ typed' \in 1 .. MaxCommands /\ UNCHANGED stores
      BY <2>1, CommandFacts DEF Type
    <2>6. QED
      BY <2>4, <2>5
  <1>2. Typed'
    BY <1>1, CommandFacts DEF Typed, Folder, Nothing
  <1>3. "DB_PASSWORD" \in Keys
    BY DEF Keys, ContractKeys
  <1>4. ASSUME NEW n \in 1 .. MaxCommands, Unspent(n)' PROVE Clean(n)'
    <2>1. n > typed
      BY <1>1, <1>4 DEF Unspent, IInv, Typed
    <2>2. Clean(n)
      BY <2>1 DEF IInv, Fresh, Unspent
    <2>3. QED
      BY <2>2, <1>1, <1>3, PasswordFacts DEF Clean, Nothing, stores
  <1>5. Stored' /\ Fresh'
    BY <1>1, <1>4 DEF IInv, Stored, stores, Fresh
  <1>6. QED
    BY <1>1, <1>2, <1>5 DEF IInv, Configured, Authenticated, Opened, Resolved, Made, Here,
        SyncedLogsIn, At, Working, Provisions, Manages

LEMMA MergeFacts ==
  ASSUME NEW file \in Configs, NEW env \in Configs, NEW e \in Engines
  PROVE  Merge(file, env)[e] \in EngineSections
  <1>1. /\ file[e] \in EngineSections /\ env[e] \in EngineSections /\ e \in DOMAIN file
    BY DEF Configs, Engines
  <1>2. Merge(file, env)[e] = [k \in SectionKeys |->
            IF env[e][k] # "" THEN env[e][k] ELSE file[e][k]]
    BY <1>1 DEF Merge, EngineSections
  <1>3. "hostname" \in SectionKeys /\ "user_host" \in SectionKeys
    BY DEF SectionKeys, RequiredKeys
  <1> DEFINE merged == [k \in SectionKeys |-> IF env[e][k] # "" THEN env[e][k] ELSE file[e][k]]
  <1>4. merged \in [SectionKeys -> {"", "set"} \cup Servers \cup UserHosts]
    BY <1>1 DEF EngineSections
  <1>5. merged["hostname"] \in Servers \cup {""} /\ merged["user_host"] \in UserHosts \cup {""}
    BY <1>1, <1>3 DEF EngineSections
  <1> HIDE DEF merged
  <1>6. merged \in EngineSections
    BY <1>4, <1>5 DEF EngineSections
  <1>7. QED
    BY <1>2, <1>6 DEF merged

LEMMA NoConfigFacts == NoConfig \in Configs
  BY DEF NoConfig, Configs, Identities, EngineSections, SectionKeys, RequiredKeys

LEMMA LoadSafe == ASSUME IInv, Load PROVE IInv'
  <1>1. PICK file \in Files, env \in Environments :
            LET cfg == Merge(IF file.state = "ok" THEN file.keys ELSE NoConfig, env)
            IN  \/ Validate(cfg) /\ run' = [run EXCEPT !.step = "login", !.cfg = cfg]
                \/ Goto("failed")
    BY DEF Load
  <1> DEFINE keys == IF file.state = "ok" THEN file.keys ELSE NoConfig
             cfg == Merge(keys, env)
  <1>2. UNCHANGED <<stores, typed>> /\ run.step = "load"
    BY DEF Load, At
  <1>3. CASE Goto("failed")
    BY <1>2, <1>3, FailSafe
  <1>4. CASE Validate(cfg) /\ run' = [run EXCEPT !.step = "login", !.cfg = cfg]
    <2>1. keys \in Configs /\ env \in Configs
      BY ConfigurationAssumption, NoConfigFacts
    <2>2. \A e \in Engines : cfg[e] \in EngineSections
      <3> HIDE DEF keys
      <3>1. QED
        BY <2>1, MergeFacts
    <2> HIDE DEF cfg
    <2>3. /\ run'.step = "login" /\ run'.cfg = cfg /\ run'.req = run.req
          /\ run'.seen = run.seen /\ RunShape'
      BY <1>4 DEF IInv, Typed, RunShape
    <2>4. Typed' /\ Configured'
      BY <1>2, <1>4, <2>2, <2>3 DEF IInv, Typed, Folder, Configured, Ended
    <2>5. Stored' /\ Fresh'
      BY <1>2, <2>3 DEF IInv, Stored, stores, Fresh, Unspent, Clean
    <2>6. QED
      BY <2>3, <2>4, <2>5 DEF IInv, Authenticated, Opened, Resolved, Made, Here,
          SyncedLogsIn, At, Working, Provisions, Manages
  <1>5. QED
    BY <1>1, <1>3, <1>4

LEMMA LoginSafe == ASSUME IInv, Login PROVE IInv'
  <1>1. PICK client \in Clients(run.cfg.infisical) :
            run' = [run EXCEPT !.step = "open", !.client = client]
    BY DEF Login
  <1>2. UNCHANGED <<stores, typed>> /\ run.step = "login"
    BY DEF Login, At
  <1>3. /\ run'.step = "open" /\ run'.cfg = run.cfg /\ run'.req = run.req
        /\ run'.client = client /\ run'.seen = run.seen /\ RunShape'
    BY <1>1 DEF IInv, Typed, RunShape
  <1>4. Typed' /\ Configured'
    BY <1>2, <1>3 DEF IInv, Typed, Folder, Configured, Ended
  <1>5. Authenticated'
    BY <1>3 DEF Authenticated, Clients, Working, Provisions, Manages
  <1>6. Stored' /\ Fresh'
    BY <1>2, <1>3 DEF IInv, Stored, stores, Fresh, Unspent, Clean
  <1>7. QED
    BY <1>3, <1>4, <1>5, <1>6 DEF IInv, Opened, Resolved, Made, Here, SyncedLogsIn, At,
        Working, Provisions, Manages

----------------------------------------------------------------------------
(* provision.                                                              *)

LEMMA PreflightSafe == ASSUME IInv, Preflight PROVE IInv'
  <1> DEFINE e == run.req.engine
  <1>1. run.step = "open" /\ UNCHANGED <<stores, typed>>
    BY DEF Preflight, At
  <1>2. CASE Goto("failed")
    BY <1>1, <1>2, FailSafe
  <1>3. ASSUME Opens(run.cfg, e), run'.step = "adapter", RunShape', run'.req = run.req,
               run'.cfg = run.cfg, run'.client = run.client,
               \/ run.client = "none" /\ run'.seen = run.seen
               \/ Answers(run.client, run.cfg) /\ run'.seen = record
        PROVE  IInv'
    <2>1. Typed' /\ Stored'
      BY <1>1, <1>3 DEF IInv, Typed, Stored, Folder, stores, Ended
    <2>2. Configured' /\ Authenticated'
      BY <1>1, <1>3, Onward DEF IInv
    <2>3. Opened' /\ Resolved'
      BY <1>1, <1>3 DEF Opened, Resolved, Answers, Provisions, Manages, stores
    <2>4. Fresh'
      <3>1. ASSUME NEW n \in 1 .. MaxCommands, Unspent(n)' PROVE Clean(n)'
        <4>1. Clean(n)
          BY <1>1, <1>3, <3>1, ToCome DEF IInv, Fresh
        <4>2. QED
          BY <4>1, <1>1, <1>3 DEF Clean, stores
      <3>2. QED
        BY <3>1 DEF Fresh
    <2>5. QED
      BY <1>3, <2>1, <2>2, <2>3, <2>4 DEF IInv, Made, Here, SyncedLogsIn, At
  <1>4. CASE Opens(run.cfg, e) /\ run.client = "none" /\ Goto("adapter")
    BY <1>1, <1>3, <1>4 DEF IInv, Typed, RunShape, Goto
  <1>5. CASE /\ Opens(run.cfg, e) /\ Answers(run.client, run.cfg)
             /\ run' = [run EXCEPT !.step = "adapter", !.seen = record]
    BY <1>1, <1>3, <1>5 DEF IInv, Typed, RunShape
  <1>6. QED
    BY <1>2, <1>4, <1>5 DEF Preflight

\* What any step does that gives one password to one account at most.
Spreads(e, pw) ==
    /\ database' \subseteq Engines \X Servers
    /\ UNCHANGED account \/ SetAccount(e, pw)

LEMMA SpreadFacts ==
  ASSUME IInv, run.step \in Working, NEW e, Opens(run.cfg, e), NEW pw, Spreads(e, pw)
  PROVE  /\ AccountShape(account') /\ database' \subseteq Engines \X Servers
         /\ \A f \in Engines, s \in Servers, h \in UserHosts :
              account'[f][s][h] \in {account[f][s][h], pw}
         /\ \A f \in Engines, s \in Servers, h \in UserHosts :
              account'[f][s][h] = pw => account[f][s][h] = pw \/ (f = e /\ s = Host(e))
         /\ \A f \in Engines, s \in Servers :
              account'[f][s] # account[f][s] => f = e /\ s = Host(e)
         /\ SetAccount(e, pw) => account'[e][Host(e)][UserHost(run.cfg, e)] = pw
  <1>1. e \in Engines /\ Host(e) \in Servers /\ UserHost(run.cfg, e) \in UserHosts
    BY HostFacts DEF IInv
  <1>2. AccountShape(account)
    BY DEF IInv, Stored
  <1>3. CASE SetAccount(e, pw)
    <2> DEFINE t == Host(e)
               u == UserHost(run.cfg, e)
    <2>1. Sets(e, t, u, pw)
      BY <1>3 DEF SetAccount, Sets
    <2> HIDE DEF t, u
    <2>2. t \in Servers /\ u \in UserHosts
      BY <1>1 DEF t, u
    <2>3. /\ AccountShape(account')
          /\ \A f \in Engines, s \in Servers, h \in UserHosts :
              account'[f][s][h] = IF f = e /\ s = t /\ h = u THEN pw ELSE account[f][s][h]
      BY <1>1, <1>2, <2>1, <2>2, OneAccount
    <2>4. ASSUME NEW f \in Engines, NEW s \in Servers, ~(f = e /\ s = t)
          PROVE  account'[f][s] = account[f][s]
      <3>1. \A h \in UserHosts : account'[f][s][h] = account[f][s][h]
        BY <2>3, <2>4
      <3> DEFINE new == account'[f][s]
                 old == account[f][s]
      <3>2. new = [h \in UserHosts |-> new[h]] /\ old = [h \in UserHosts |-> old[h]]
        BY <1>2, <2>3 DEF AccountShape
      <3> HIDE DEF new, old
      <3>3. \A h \in UserHosts : new[h] = old[h]
        BY <3>1 DEF new, old
      <3>4. new = old
        BY <3>2, <3>3
      <3>5. QED
        BY <3>4 DEF new, old
    <2>5. QED
      BY <1>1, <2>2, <2>3, <2>4 DEF Spreads, t, u
  <1>4. CASE UNCHANGED account
    <2>1. SetAccount(e, pw) => account'[e][Host(e)][UserHost(run.cfg, e)] = pw
      <3> SUFFICES ASSUME SetAccount(e, pw) PROVE account'[e][Host(e)][UserHost(run.cfg, e)] = pw
        OBVIOUS
      <3> DEFINE t == Host(e)
                 u == UserHost(run.cfg, e)
      <3>1. Sets(e, t, u, pw) /\ t \in Servers /\ u \in UserHosts
        BY <1>1 DEF SetAccount, Sets
      <3> HIDE DEF t, u
      <3>2. account'[e][t][u] = pw
        BY <1>1, <1>2, <3>1, OneAccount
      <3>3. QED
        BY <3>2 DEF t, u
    <2>2. QED
      BY <1>2, <1>4, <2>1 DEF Spreads
  <1>5. QED
    BY <1>3, <1>4 DEF Spreads

LEMMA MakeSpreads ==
  ASSUME IInv, run.step \in Working, NEW e, Opens(run.cfg, e), NEW made, Make(e, made)
  PROVE  Spreads(e, Password)
  <1>1. e \in Engines /\ Host(e) \in Servers
    BY HostFacts DEF IInv
  <1>2. QED
    BY <1>1 DEF Spreads, Make, IInv, Stored

\* A step past the point of use that spreads a password already used.
LEMMA SpreadFresh ==
  ASSUME IInv, run.step \in Working, NEW e, Opens(run.cfg, e), NEW pw, Spreads(e, pw),
         run'.step \notin {"load", "login", "open", "alter"}, UNCHANGED typed,
         run'.seen = run.seen, record'["DB_PASSWORD"] \in {record["DB_PASSWORD"], pw},
         \A n \in 1 .. MaxCommands : n > typed => Generated[n] # pw
  PROVE  Fresh'
  <1>1. \A n \in 1 .. MaxCommands : Unspent(n)' => Unspent(n) /\ Generated[n] # pw
    BY ToCome
  <1>2. \A f \in Engines, s \in Servers, h \in UserHosts :
            account'[f][s][h] \in {account[f][s][h], pw}
    BY SpreadFacts
  <1>3. QED
    BY <1>1, <1>2, KeepsFresh DEF IInv

\* The running command's own password is one of those generated, and not one of
\* those to come.
LEMMA OwnPassword ==
  ASSUME IInv, run.step \in Working
  PROVE  /\ typed \in 1 .. MaxCommands /\ Password = Generated[typed]
         /\ \A n \in 1 .. MaxCommands : n > typed => Generated[n] # Password
  <1>1. typed \in 1 .. MaxCommands
    BY DEF IInv, Typed, Working, Provisions, Manages, Ended
  <1>2. \A n \in 1 .. MaxCommands : n # typed => Generated[n] # Generated[typed]
    BY <1>1, PasswordFacts
  <1>3. QED
    BY <1>1, <1>2, CommandFacts DEF Password

LEMMA AdapterSafe == ASSUME IInv, Adapter PROVE IInv'
  <1> DEFINE e == run.req.engine
  <1>1. run.step = "adapter" /\ run.step \in Working /\ UNCHANGED <<record, typed>>
    BY DEF Adapter, At, Working, Provisions
  <1>2. CASE Goto("failed") /\ UNCHANGED <<database, account>>
    BY <1>1, <1>2, FailSafe DEF stores
  <1>3. ASSUME NEW made, Make(e, made), NEW step \in {"failed", "offline", "sync"}, Goto(step)
        PROVE  Stored' /\ Fresh'
    <2>1. Opens(run.cfg, e)
      BY <1>1 DEF IInv, Opened, Provisions
    <2>2. Spreads(e, Password)
      BY <1>1, <1>3, <2>1, MakeSpreads
    <2>3. Stored'
      <3>1. AccountShape(account') /\ database' \subseteq Engines \X Servers
        BY <1>1, <2>1, <2>2, SpreadFacts
      <3>2. QED
        BY <1>1, <3>1 DEF Stored, IInv, Folder
    <2>4. run'.step = step /\ run'.seen = run.seen
      BY <1>3 DEF IInv, Typed, RunShape, Goto
    <2>5. Fresh'
      <3>1. run'.step \notin {"load", "login", "open", "alter"}
        BY <2>4
      <3>2. \A n \in 1 .. MaxCommands : n > typed => Generated[n] # Password
        BY <1>1, OwnPassword
      <3>3. QED
        BY <1>1, <2>1, <2>2, <2>4, <3>1, <3>2, SpreadFresh
    <2>6. QED
      BY <2>3, <2>5
  <1>4. ASSUME NEW made, Make(e, made), Goto("failed") \/ Goto("offline") PROVE IInv'
    <2>1. Stored' /\ Fresh'
      BY <1>3, <1>4
    <2>2. QED
      BY <1>1, <1>4, <2>1, Ending DEF Ended
  <1>5. ASSUME Make(e, Whole), Goto("sync"), run.client # "none" PROVE IInv'
    <2>1. Stored' /\ Fresh'
      BY <1>3, <1>5
    <2>2. /\ Typed' /\ run'.step = "sync" /\ run'.req = run.req /\ run'.cfg = run.cfg
          /\ run'.client = run.client /\ run'.seen = run.seen
      BY <1>1, <1>5, Moved DEF IInv, Ended
    <2>3. Answers(run.client, run.cfg)
      BY <1>1, <1>5 DEF IInv, Authenticated
    <2>4. Configured' /\ Authenticated'
      BY <1>1, <2>2, <2>3, Onward DEF IInv
    <2>5. Opens(run.cfg, e) /\ run.seen = record
      BY <1>1, <1>5 DEF IInv, Opened, Resolved, Provisions
    <2>6. Opened' /\ Resolved'
      BY <1>1, <2>2, <2>5 DEF Opened, Resolved, Provisions, Manages
    <2>7. Made'
      <3>1. SetAccount(e, Password) /\ <<e, Host(e)>> \in database'
        BY <1>5 DEF Make, Whole
      <3>2. account'[e][Host(e)][UserHost(run.cfg, e)] = Password
        BY <1>1, <1>5, <2>5, <3>1, MakeSpreads, SpreadFacts
      <3>3. QED
        BY <1>1, <2>2, <3>1, <3>2 DEF Made, Account, Host, Password
    <2>8. QED
      BY <2>1, <2>2, <2>4, <2>6, <2>7 DEF IInv, Here, SyncedLogsIn, At
  <1>6. QED
    BY <1>2, <1>4, <1>5 DEF Adapter

\* What a run wants recorded, key by key.
LEMMA DesiredFacts ==
  ASSUME IInv, At("sync")
  PROVE  LET e == run.req.engine
             host == IF run.req.host # "" THEN run.req.host ELSE Host(e)
         IN  /\ Desired["DB_TYPE"] = e /\ Desired["DB_PASSWORD"] = Password
             /\ \A k \in DOMAIN OwnNames : Desired[k] = OwnNames[k]
             /\ Desired["DB_HOST"] = host /\ host # ""
             /\ Desired["DB_PORT"] # ""
             /\ Desired["DB_SCHEMA"] = IF e = "postgres" THEN "public" ELSE Absent
             /\ \A k \in ContractKeys \ {"DB_SCHEMA"} : Desired[k] # Absent
             /\ Password # "" /\ e \in Engines /\ "public" # Absent
  <1> DEFINE e == run.req.engine
             host == IF run.req.host # "" THEN run.req.host ELSE Host(e)
  <1>1. run.step = "sync" /\ run.step \in Working
    BY DEF At, Working, Provisions
  <1>2. Opens(run.cfg, e)
    BY <1>1 DEF IInv, Opened, Provisions
  <1>3. /\ e \in Engines /\ Complete(run.cfg[e]) /\ Host(e) \in Servers
        /\ run.cfg[e] \in EngineSections
    BY <1>1, <1>2, HostFacts DEF IInv
  <1>4. /\ Password # "" /\ Password # Absent
    BY <1>1, OwnPassword, PasswordFacts
  <1>5. run.req.host \in Servers \cup Aliases \cup {""}
    BY DEF IInv, Typed, CommandType
  <1>6. Absent \notin Plain
    BY PasswordsAssumption
  <1>7. host # "" /\ host # Absent
    <2>1. "" \notin Servers \cup Aliases
      BY ConfigurationAssumption
    <2>2. QED
      BY <1>3, <1>5, <1>6, <2>1 DEF Plain
  <1>8. run.cfg[e]["port"] # "" /\ run.cfg[e]["port"] # Absent
    <2>1. "port" \in RequiredKeys /\ "port" \in SectionKeys
      BY DEF RequiredKeys, SectionKeys
    <2>2. run.cfg[e]["port"] \in {"", "set"} \cup Servers \cup UserHosts
      BY <1>3, <2>1 DEF EngineSections
    <2>3. run.cfg[e]["port"] # ""
      BY <1>3, <2>1 DEF Complete
    <2>4. QED
      BY <1>6, <2>2, <2>3 DEF Plain
  <1>9. /\ e # "" /\ e # Absent
        /\ \A k \in DOMAIN OwnNames : OwnNames[k] # Absent
        /\ "public" # Absent
    <2>1. "public" # Absent /\ "app_db" # Absent /\ "app_user" # Absent
      BY <1>6 DEF Plain
    <2>2. \A k \in DOMAIN OwnNames : OwnNames[k] # Absent
      BY <2>1 DEF OwnNames
    <2>3. QED
      BY <1>3, <1>6, <2>1, <2>2 DEF Engines, Plain
  <1>a. DOMAIN OwnNames = {"DB_NAME", "DB_USER"}
    BY DEF OwnNames
  <1>b. ContractKeys \subseteq Keys
    BY DEF Keys
  <1> DEFINE creds == [k \in ContractKeys |->
            CASE k = "DB_TYPE" -> e
              [] k \in DOMAIN OwnNames -> OwnNames[k]
              [] k = "DB_PASSWORD" -> Password
              [] k = "DB_HOST" -> host
              [] k = "DB_PORT" -> run.cfg[e]["port"]
              [] k = "DB_SCHEMA" -> IF e = "postgres" THEN "public" ELSE ""]
  <1>c. /\ creds["DB_TYPE"] = e /\ creds["DB_PASSWORD"] = Password
        /\ creds["DB_NAME"] = OwnNames["DB_NAME"] /\ creds["DB_USER"] = OwnNames["DB_USER"]
        /\ creds["DB_HOST"] = host /\ creds["DB_PORT"] = run.cfg[e]["port"]
        /\ creds["DB_SCHEMA"] = IF e = "postgres" THEN "public" ELSE ""
    <2> HIDE DEF e, host
    <2>1. QED
      BY <1>a DEF ContractKeys
  <1>d. Desired = ToSecrets(creds)
    BY DEF Desired
  <1> HIDE DEF creds, e, host
  <1>e. \A k \in ContractKeys : Desired[k] = IF k = "DB_SCHEMA" /\ creds[k] = "" THEN Absent ELSE creds[k]
    BY <1>b, <1>d DEF ToSecrets
  <1>f. /\ Desired["DB_TYPE"] = e /\ Desired["DB_PASSWORD"] = Password
        /\ Desired["DB_NAME"] = OwnNames["DB_NAME"] /\ Desired["DB_USER"] = OwnNames["DB_USER"]
        /\ Desired["DB_HOST"] = host /\ Desired["DB_PORT"] = run.cfg[e]["port"]
        /\ Desired["DB_SCHEMA"] = IF e = "postgres" THEN "public" ELSE Absent
    BY <1>c, <1>e DEF ContractKeys
  <1>g. \A k \in ContractKeys \ {"DB_SCHEMA"} : Desired[k] # Absent
    BY <1>4, <1>7, <1>8, <1>9, <1>a, <1>f DEF ContractKeys
  <1>h. \A k \in DOMAIN OwnNames : Desired[k] = OwnNames[k]
    BY <1>a, <1>f
  <1>i. QED
    BY <1>3, <1>4, <1>7, <1>8, <1>9, <1>f, <1>g, <1>h DEF e, host

\* A plan that was carried out whole has recorded what was wanted.
LEMMA PlanCarriedOut ==
  ASSUME NEW old, NEW desired, NEW new,
         \A k \in Keys : new[k] = IF k \in Touched(PlanSecretSync(old, desired))
                                THEN desired[k] ELSE old[k]
  PROVE  \A k \in ContractKeys : new[k] = desired[k]
  BY DEF Touched, PlanSecretSync, Keys

LEMMA SyncSafe == ASSUME IInv, Sync PROVE IInv'
  <1> DEFINE e == run.req.engine
             plan == PlanSecretSync(run.seen, Desired)
  <1>1. run.step = "sync" /\ run.step \in Working /\ UNCHANGED <<database, account, typed>>
    BY DEF Sync, At, Working, Provisions
  <1>2. PICK done \in DoneSoFar(plan) :
            /\ record' = [k \in Keys |-> IF k \in done THEN Desired[k] ELSE record[k]]
            /\ \/ Goto("failed")
               \/ done = Touched(plan) /\ Goto("synced")
    BY DEF Sync
  <1>3. Opens(run.cfg, e)
    BY <1>1 DEF IInv, Opened, Provisions
  <1>4. Stored'
    <2>1. Folder(record')
      BY <1>2 DEF Folder
    <2>2. QED
      BY <1>1, <2>1 DEF IInv, Stored, Folder
  <1>5. ASSUME NEW step \in {"failed", "synced"}, Goto(step) PROVE Fresh'
    <2>1. run'.step = step /\ run'.seen = run.seen
      BY <1>5 DEF IInv, Typed, RunShape, Goto
    <2>2. "DB_PASSWORD" \in Keys /\ Desired["DB_PASSWORD"] = Password
      BY <1>1, DesiredFacts DEF At, Keys, ContractKeys
    <2>3. record'["DB_PASSWORD"] \in {record["DB_PASSWORD"], Password}
      BY <1>2, <2>2
    <2>4. Spreads(e, Password)
      BY <1>1 DEF Spreads, IInv, Stored
    <2>5. \A n \in 1 .. MaxCommands : n > typed => Generated[n] # Password
      BY <1>1, OwnPassword
    <2>6. run'.step \notin {"load", "login", "open", "alter"}
      BY <2>1
    <2>7. QED
      BY <1>1, <1>3, <2>1, <2>3, <2>4, <2>5, <2>6, SpreadFresh
  <1>6. CASE Goto("failed")
    BY <1>1, <1>4, <1>5, <1>6, Ending DEF Ended
  <1>7. CASE done = Touched(plan) /\ Goto("synced")
    <2>1. /\ Typed' /\ run'.step = "synced" /\ run'.req = run.req /\ run'.cfg = run.cfg
      BY <1>1, <1>7, Moved DEF IInv, Ended
    <2>2. Fresh'
      BY <1>5, <1>7
    <2>3. run.seen = record
      BY <1>1 DEF IInv, Resolved
    <2>4. \A k \in Keys : record'[k] = IF k \in Touched(plan) THEN Desired[k] ELSE record[k]
      BY <1>2, <1>7
    <2>5. \A k \in ContractKeys : record'[k] = Desired[k]
      BY <2>3, <2>4, PlanCarriedOut
    <2> DEFINE host == IF run.req.host # "" THEN run.req.host ELSE Host(e)
    <2>6. PICK creds : creds = ParseCredentials(record')
      OBVIOUS
    <2>7. \A k \in ContractKeys : creds[k] = IF Desired[k] = Absent THEN "" ELSE Desired[k]
      BY <2>5, <2>6 DEF ParseCredentials, Lookup
    <2>8. /\ creds["DB_TYPE"] = e /\ creds["DB_PASSWORD"] = Password /\ Password # ""
          /\ creds["DB_NAME"] = "app_db" /\ creds["DB_USER"] = "app_user"
          /\ creds["DB_HOST"] = host /\ host # "" /\ creds["DB_PORT"] # ""
          /\ creds["DB_SCHEMA"] = IF e = "postgres" THEN "public" ELSE ""
          /\ e \in Engines
      <3>1. At("sync")
        BY <1>1 DEF At
      <3>2. Desired["DB_NAME"] = "app_db" /\ Desired["DB_USER"] = "app_user"
        BY <3>1, DesiredFacts DEF OwnNames
      <3> HIDE DEF host, e
      <3>3. QED
        BY <2>7, <3>1, <3>2, DesiredFacts DEF ContractKeys, host, e
    <2>9. ValidateContract(creds, e) /\ creds["DB_TYPE"] = e
      BY <2>8 DEF ValidateContract, RequireCore, Engines
    <2>a. <<e, Host(e)>> \in database /\ Account(e) = Password /\ UserHost(run.cfg, e) \in UserHosts
      BY <1>1, <1>3, HostFacts DEF IInv, Made, At
    <2>b. ASSUME NEW c, c["DB_TYPE"] = e, c["DB_HOST"] = Host(e), c["DB_PASSWORD"] = Password,
                 c["DB_NAME"] = "app_db", c["DB_USER"] = "app_user"
          PROVE  Admits(c)'
      <3>1. \A k \in DOMAIN OwnNames : c[k] = OwnNames[k]
        BY <2>b DEF OwnNames
      <3>2. QED
        BY <1>1, <2>a, <2>b, <3>1 DEF Admits, Account
    <2>c. (Host(e))' = Host(e)
      BY <2>1 DEF Host
    <2>d. PICK c : c = IF run.req.host = "" THEN creds ELSE [creds EXCEPT !["DB_HOST"] = Host(e)]
      OBVIOUS
    <2>e. Admits(c)'
      <3>1. DOMAIN creds = ContractKeys
        BY <2>6 DEF ParseCredentials
      <3>2. /\ c["DB_TYPE"] = e /\ c["DB_HOST"] = Host(e) /\ c["DB_PASSWORD"] = Password
            /\ c["DB_NAME"] = "app_db" /\ c["DB_USER"] = "app_user"
        BY <2>8, <2>d, <3>1 DEF ContractKeys
      <3>3. QED
        BY <2>b, <3>2
    <2>f. SyncedLogsIn'
      BY <2>1, <2>6, <2>9, <2>c, <2>d, <2>e DEF SyncedLogsIn
    <2>g. QED
      BY <1>4, <2>1, <2>2, <2>f DEF IInv, Configured, Authenticated, Opened, Resolved, Made, Here,
          At, Working, Provisions, Manages
  <1>8. QED
    BY <1>2, <1>6, <1>7

----------------------------------------------------------------------------
(* The other commands.                                                     *)

LEMMA ResolveAppSafe == ASSUME IInv, ResolveApp PROVE IInv'
  <1> DEFINE creds == ParseCredentials(record)
             e == ResolveEngine(creds, run.req.engine)
             cmd == run.req.cmd
             next == CASE cmd = "rotate" -> "alter" [] cmd = "delete" -> "drop"
                       [] cmd = "test" -> "dial" [] OTHER -> "done"
  <1>1. run.step = "open" /\ UNCHANGED <<stores, typed>>
    BY DEF ResolveApp, At
  <1>2. CASE Goto("failed")
    BY <1>1, <1>2, FailSafe
  <1>3. CASE /\ Answers(run.client, run.cfg)
             /\ cmd \in {"rotate", "delete"} => Resolvable(record) /\ Opens(run.cfg, e)
             /\ run' = [run EXCEPT !.seen = record, !.step = next]
    <2>1. /\ next \in {"alter", "drop", "dial", "done"}
          /\ next = "alter" => cmd = "rotate"
          /\ next = "drop" => cmd = "delete"
          /\ next = "dial" => cmd = "test"
      OBVIOUS
    <2> HIDE DEF next
    <2>2. /\ run'.step = next /\ run'.seen = record /\ run'.req = run.req
          /\ run'.cfg = run.cfg /\ run'.client = run.client /\ RunShape'
      BY <1>3 DEF IInv, Typed, RunShape
    <2>3. Typed' /\ Stored'
      BY <1>1, <2>2 DEF IInv, Typed, Stored, Folder, stores, Ended
    <2>4. Configured' /\ Authenticated'
      BY <1>1, <1>3, <2>2, Onward DEF IInv
    <2>5. Engine' = e
      BY <2>2 DEF Engine
    <2>6. Opened'
      BY <1>3, <2>1, <2>2, <2>5 DEF Opened, Provisions, Manages
    <2>7. Resolved' /\ Made' /\ Here' /\ SyncedLogsIn'
      BY <1>1, <2>1, <2>2 DEF Resolved, Made, Here, SyncedLogsIn, At, stores
    <2>8. ASSUME NEW n \in 1 .. MaxCommands, Unspent(n)' PROVE Clean(n)'
      <3>1. Clean(n)
        BY <1>1, <2>8 DEF IInv, Fresh, Unspent
      <3>2. QED
        BY <3>1, <1>1, <2>2 DEF Clean, stores
    <2>9. QED
      BY <2>3, <2>4, <2>6, <2>7, <2>8 DEF IInv, Fresh
  <1>4. QED
    BY <1>2, <1>3 DEF ResolveApp

LEMMA AlterSafe == ASSUME IInv, Alter PROVE IInv'
  <1>1. run.step = "alter" /\ run.step \in Working /\ UNCHANGED <<database, record, typed>>
    BY DEF Alter, At, Working, Manages
  <1>2. CASE Goto("failed") /\ UNCHANGED account
    BY <1>1, <1>2, FailSafe DEF stores
  <1>3. ASSUME SetAccount(Engine, Password), NEW step \in {"failed", "record"}, Goto(step)
        PROVE  IInv'
    <2>1. Opens(run.cfg, Engine) /\ run.req.cmd = "rotate" /\ run.seen = record
      BY <1>1 DEF IInv, Opened, Resolved, Manages
    <2>2. Spreads(Engine, Password)
      BY <1>1, <1>3 DEF Spreads, IInv, Stored
    <2>3. Stored'
      <3>1. AccountShape(account')
        BY <1>1, <2>1, <2>2, SpreadFacts
      <3>2. QED
        BY <1>1, <3>1 DEF Stored, IInv, Folder
    <2>4. /\ Typed' /\ run'.step = step /\ run'.req = run.req /\ run'.cfg = run.cfg
          /\ run'.client = run.client /\ run'.seen = run.seen
      BY <1>1, <1>3, Moved DEF IInv, Ended
    <2>5. Fresh'
      <3>1. run'.step \notin {"load", "login", "open", "alter"}
        BY <2>4
      <3>2. \A n \in 1 .. MaxCommands : n > typed => Generated[n] # Password
        BY <1>1, OwnPassword
      <3>3. QED
        BY <1>1, <2>1, <2>2, <2>4, <3>1, <3>2, SpreadFresh
    <2>6. CASE step = "failed"
      BY <1>1, <1>3, <2>3, <2>5, <2>6, Ending DEF Ended
    <2>7. CASE step = "record"
      <3>1. Configured' /\ Authenticated'
        <4>1. Answers(run.client, run.cfg)
          BY <1>1 DEF IInv, Authenticated
        <4>2. QED
          BY <1>1, <2>4, <4>1, Onward DEF IInv
      <3>2. Opened' /\ Resolved'
        BY <1>1, <2>1, <2>4, <2>7 DEF Opened, Resolved, Provisions, Manages, Engine
      <3>3. Here'
        <4>1. \A f \in Engines, s \in Servers, h \in UserHosts :
                account'[f][s][h] = Password =>
                    account[f][s][h] = Password \/ (f = Engine /\ s = Host(Engine))
          BY <1>1, <2>1, <2>2, SpreadFacts
        <4>2. typed \in 1 .. MaxCommands /\ Unspent(typed)
          BY <1>1, OwnPassword DEF Unspent
        <4>3. Clean(typed)
          BY <4>2 DEF IInv, Fresh
        <4>4. \A f \in Engines, s \in Servers, h \in UserHosts : account[f][s][h] # Password
          BY <4>3 DEF Clean, Password
        <4>5. Password' = Password /\ Engine' = Engine /\ (Host(Engine))' = Host(Engine)
          BY <1>1, <2>4 DEF Password, Engine, Host
        <4>6. QED
          BY <4>1, <4>4, <4>5 DEF Here
      <3>4. QED
        BY <2>3, <2>4, <2>5, <2>7, <3>1, <3>2, <3>3 DEF IInv, Made, SyncedLogsIn, At
    <2>8. QED
      BY <2>6, <2>7
  <1>4. QED
    BY <1>2, <1>3 DEF Alter

LEMMA RecordPasswordSafe == ASSUME IInv, RecordPassword PROVE IInv'
  <1>1. /\ run.step = "record" /\ run.step \in Working /\ UNCHANGED <<database, account, typed>>
    BY DEF RecordPassword, At, Working, Manages
  <1>2. PICK step \in {"failed", "restore", "rotated", "dial"} : Goto(step)
    BY DEF RecordPassword
  <1>3. UNCHANGED record \/ record' = [record EXCEPT !["DB_PASSWORD"] = Password]
    BY DEF RecordPassword
  <1>4. Folder(record) /\ "DB_PASSWORD" \in Keys
    BY DEF IInv, Stored, Keys, ContractKeys
  <1>5. /\ Folder(record') /\ record'["DB_PASSWORD"] \in {record["DB_PASSWORD"], Password}
        /\ \A k \in Keys \ {"DB_PASSWORD"} : record'[k] = record[k]
    BY <1>3, <1>4 DEF Folder
  <1>6. /\ Typed' /\ run'.step = step /\ run'.req = run.req /\ run'.cfg = run.cfg
        /\ run'.client = run.client /\ run'.seen = run.seen
    BY <1>1, <1>2, Moved DEF IInv, Ended
  <1>7. Opens(run.cfg, Engine) /\ run.req.cmd = "rotate" /\ run.seen = record
    BY <1>1 DEF IInv, Opened, Resolved, Manages
  <1>8. Stored'
    BY <1>1, <1>5 DEF IInv, Stored
  <1>9. Fresh'
    <2>1. Spreads(Engine, Password)
      BY <1>1 DEF Spreads, IInv, Stored
    <2>2. \A n \in 1 .. MaxCommands : n > typed => Generated[n] # Password
      BY <1>1, OwnPassword
    <2>3. run'.step \notin {"load", "login", "open", "alter"}
      BY <1>6
    <2>4. QED
      BY <1>1, <1>5, <1>6, <1>7, <2>1, <2>2, <2>3, SpreadFresh
  <1>a. CASE step \in {"failed", "rotated"}
    BY <1>1, <1>2, <1>8, <1>9, <1>a, Ending DEF Ended
  <1>b. CASE step \in {"restore", "dial"}
    <2>1. Configured' /\ Authenticated'
      <3>1. Answers(run.client, run.cfg)
        BY <1>1 DEF IInv, Authenticated
      <3>2. QED
        BY <1>1, <1>6, <3>1, Onward DEF IInv
    <2>2. Engine' = Engine
      BY <1>6 DEF Engine
    <2>3. Opened' /\ Resolved'
      BY <1>5, <1>6, <1>7, <1>b, <2>2 DEF Opened, Resolved, Provisions, Manages
    <2>4. Here'
      <3>1. Password' = Password /\ (Host(Engine))' = Host(Engine)
        BY <1>1, <1>6 DEF Password, Engine, Host
      <3>2. QED
        BY <1>1, <1>7, <2>2, <3>1 DEF IInv, Here
    <2>5. QED
      BY <1>6, <1>8, <1>9, <1>b, <2>1, <2>3, <2>4 DEF IInv, Made, SyncedLogsIn, At
  <1>c. QED
    BY <1>a, <1>b

LEMMA RestoreSafe == ASSUME IInv, Restore PROVE IInv'
  <1>1. run.step = "restore" /\ run.step \in Working /\ UNCHANGED <<database, record, typed>>
    BY DEF Restore, At, Working, Manages
  <1>2. PICK end \in {"failed", "rolledBack"} : Goto(end)
    BY DEF Restore
  <1>3. Opens(run.cfg, Engine)
    BY <1>1 DEF IInv, Opened, Manages
  <1>4. Spreads(Engine, OldPassword)
    BY <1>1 DEF Spreads, IInv, Stored, Restore
  <1>5. Stored'
    <2>1. AccountShape(account')
      BY <1>1, <1>3, <1>4, SpreadFacts
    <2>2. QED
      BY <1>1, <2>1 DEF Stored, IInv, Folder
  <1>6. run'.step = end /\ run'.seen = run.seen
    BY <1>2 DEF IInv, Typed, RunShape, Goto
  <1>7. Fresh'
    <2>1. ASSUME NEW n \in 1 .. MaxCommands, n > typed PROVE Generated[n] # OldPassword
      <3>1. Clean(n)
        BY <2>1 DEF IInv, Fresh, Unspent
      <3>2. QED
        BY <3>1, PasswordFacts DEF Clean, OldPassword, Lookup
    <2>2. run'.step \notin {"load", "login", "open", "alter"}
      BY <1>6
    <2>3. QED
      BY <1>1, <1>3, <1>4, <1>6, <2>1, <2>2, SpreadFresh
  <1>8. QED
    BY <1>1, <1>2, <1>5, <1>7, Ending DEF Ended

LEMMA DialSafe == ASSUME IInv, Dial PROVE IInv'
  <1>1. PICK end \in {"verified", "unverified", "failed"} : Goto(end)
    BY DEF Dial
  <1>2. QED
    BY <1>1, EndSafe DEF Dial, Ended

LEMMA DropSafe == ASSUME IInv, Drop PROVE IInv'
  <1>1. run.step = "drop" /\ run.step \in Working /\ UNCHANGED <<record, typed>>
    BY DEF Drop, At, Working, Manages
  <1>2. CASE Goto("failed") /\ UNCHANGED <<database, account>>
    BY <1>1, <1>2, FailSafe DEF stores
  <1>3. ASSUME NEW step \in {"failed", "erase"}, Goto(step), Spreads(Engine, Absent) PROVE IInv'
    <2>1. Opens(run.cfg, Engine)
      BY <1>1 DEF IInv, Opened, Manages
    <2>2. Stored'
      <3>1. AccountShape(account') /\ database' \subseteq Engines \X Servers
        BY <1>1, <1>3, <2>1, SpreadFacts
      <3>2. QED
        BY <1>1, <3>1 DEF Stored, IInv, Folder
    <2>3. /\ Typed' /\ run'.step = step /\ run'.req = run.req /\ run'.cfg = run.cfg
          /\ run'.client = run.client /\ run'.seen = run.seen
      BY <1>1, <1>3, Moved DEF IInv, Ended
    <2>4. Fresh'
      <3>1. run'.step \notin {"load", "login", "open", "alter"}
        BY <2>3
      <3>2. \A n \in 1 .. MaxCommands : n > typed => Generated[n] # Absent
        BY PasswordFacts
      <3>3. QED
        BY <1>1, <1>3, <2>1, <2>3, <3>1, <3>2, SpreadFresh
    <2>5. CASE step = "failed"
      BY <1>1, <1>3, <2>2, <2>4, <2>5, Ending DEF Ended
    <2>6. CASE step = "erase"
      <3>1. Configured' /\ Authenticated'
        <4>1. Answers(run.client, run.cfg)
          BY <1>1 DEF IInv, Authenticated
        <4>2. QED
          BY <1>1, <2>3, <4>1, Onward DEF IInv
      <3>2. Opened' /\ Resolved'
        BY <2>1, <2>3, <2>6 DEF Opened, Resolved, Provisions, Manages, Engine
      <3>3. QED
        BY <2>2, <2>3, <2>4, <2>6, <3>1, <3>2 DEF IInv, Made, Here, SyncedLogsIn, At
    <2>7. QED
      BY <2>5, <2>6
  <1>4. ASSUME NEW gone,
               database' = IF "database" \in gone THEN database \ {<<Engine, Host(Engine)>>}
                           ELSE database,
               IF "account" \in gone THEN SetAccount(Engine, Absent) ELSE UNCHANGED account
        PROVE  Spreads(Engine, Absent)
    BY <1>4 DEF Spreads, IInv, Stored
  <1>5. QED
    BY <1>2, <1>3, <1>4 DEF Drop

LEMMA EraseSafe == ASSUME IInv, Erase PROVE IInv'
  <1>1. run.step = "erase" /\ run.step \in Working /\ UNCHANGED <<database, account, typed>>
    BY DEF Erase, At, Working, Manages
  <1>2. PICK end \in {"failed", "deleted"} : Goto(end)
    BY DEF Erase
  <1>3. PICK gone : record' = [k \in Keys |-> IF k \in gone THEN Absent ELSE record[k]]
    BY DEF Erase
  <1>4. Folder(record') /\ record'["DB_PASSWORD"] \in {record["DB_PASSWORD"], Absent}
    BY <1>3 DEF Folder, Keys, ContractKeys
  <1>5. Stored'
    BY <1>1, <1>4 DEF IInv, Stored
  <1>6. run'.step = end /\ run'.seen = run.seen
    BY <1>2 DEF IInv, Typed, RunShape, Goto
  <1>7. Fresh'
    <2>1. Opens(run.cfg, Engine)
      BY <1>1 DEF IInv, Opened, Manages
    <2>2. Spreads(Engine, Absent)
      BY <1>1 DEF Spreads, IInv, Stored
    <2>3. run'.step \notin {"load", "login", "open", "alter"}
      BY <1>6
    <2>4. \A n \in 1 .. MaxCommands : n > typed => Generated[n] # Absent
      BY PasswordFacts
    <2>5. QED
      BY <1>1, <1>4, <1>6, <2>1, <2>2, <2>3, <2>4, SpreadFresh
  <1>8. QED
    BY <1>1, <1>2, <1>5, <1>7, Ending DEF Ended

LEMMA StutterSafe == ASSUME IInv, UNCHANGED vars PROVE IInv'
  <1>1. UNCHANGED <<run, database, account, record, typed>>
    BY DEF vars
  <1>2. Stored' /\ Typed' /\ Configured' /\ Authenticated'
    BY <1>1 DEF IInv, Stored, Typed, RunShape, Configured, Authenticated
  <1>3. Opened' /\ Resolved' /\ Made'
    BY <1>1 DEF IInv, Opened, Engine, Resolved, Made, At, Host, Account, Password
  <1>4. Fresh'
    BY <1>1 DEF IInv, Fresh, Unspent, Clean
  <1>5. Here'
    BY <1>1 DEF IInv, Here, Engine, Host, Password
  <1>6. SyncedLogsIn'
    <2>1. CASE run.step # "synced"
      BY <1>1, <2>1 DEF SyncedLogsIn, At
    <2>2. CASE run.step = "synced"
      <3>1. PICK c : c = IF run.req.host = "" THEN ParseCredentials(record)
                         ELSE [ParseCredentials(record) EXCEPT !["DB_HOST"] = Host(run.req.engine)]
        OBVIOUS
      <3>2. Admits(c) /\ ParseCredentials(record)["DB_TYPE"] = run.req.engine
            /\ ValidateContract(ParseCredentials(record), run.req.engine)
        BY <2>2, <3>1 DEF IInv, SyncedLogsIn, At
      <3>3. Admits(c)'
        BY <1>1, <3>2 DEF Admits
      <3>4. QED
        BY <1>1, <2>2, <3>1, <3>2, <3>3 DEF SyncedLogsIn, At, Host
    <2>3. QED
      BY <2>1, <2>2
  <1>7. QED
    BY <1>2, <1>3, <1>4, <1>5, <1>6 DEF IInv

LEMMA NextSafe == ASSUME IInv, [Next]_vars PROVE IInv'
  <1>1. CASE UNCHANGED vars
    BY <1>1, StutterSafe
  <1>2. ASSUME NEW r \in Commands, Type(r) PROVE IInv'
    BY <1>2, TypeSafe
  <1>3. CASE Load \/ Login
    BY <1>3, LoadSafe, LoginSafe
  <1>4. CASE Preflight \/ Adapter \/ Sync
    BY <1>4, PreflightSafe, AdapterSafe, SyncSafe
  <1>5. CASE ResolveApp \/ Alter \/ RecordPassword \/ Restore
    BY <1>5, ResolveAppSafe, AlterSafe, RecordPasswordSafe, RestoreSafe
  <1>6. CASE Dial \/ Drop \/ Erase
    BY <1>6, DialSafe, DropSafe, EraseSafe
  <1>7. QED
    BY <1>1, <1>2, <1>3, <1>4, <1>5, <1>6 DEF Next

LEMMA Invariance == Spec => []IInv
  <1>1. Init => IInv
    BY InitSafe
  <1>2. IInv /\ [Next]_vars => IInv'
    BY NextSafe
  <1>3. QED
    BY <1>1, <1>2, PTL DEF Spec

----------------------------------------------------------------------------
(* Which steps touch what.                                                 *)

LEMMA WhoWorks ==
  ASSUME [Next]_vars, ~ UNCHANGED stores
  PROVE  \/ Adapter \/ Sync \/ Alter \/ RecordPassword \/ Restore \/ Drop \/ Erase
  <1>1. ASSUME NEW r \in Commands, Type(r) PROVE FALSE
    BY <1>1 DEF Type
  <1>2. CASE UNCHANGED vars
    BY <1>2 DEF vars, stores
  <1>3. CASE Load \/ Login \/ Preflight \/ ResolveApp \/ Dial
    BY <1>3 DEF Load, Login, Preflight, ResolveApp, Dial
  <1>4. QED
    BY <1>1, <1>2, <1>3 DEF Next

LEMMA WorkingSteps ==
  /\ Adapter => run.step = "adapter" /\ UNCHANGED record
  /\ Sync => run.step = "sync" /\ UNCHANGED <<database, account>>
  /\ Alter => run.step = "alter" /\ UNCHANGED <<database, record>>
  /\ RecordPassword => run.step = "record" /\ UNCHANGED <<database, account>>
  /\ Restore => run.step = "restore" /\ UNCHANGED <<database, record>>
  /\ Drop => run.step = "drop" /\ UNCHANGED record
  /\ Erase => run.step = "erase" /\ UNCHANGED <<database, account>>
  BY DEF Adapter, Sync, Alter, RecordPassword, Restore, Drop, Erase, At

\* The one server a step may change.
LEMMA OneServer ==
  ASSUME IInv, [Next]_vars, NEW f \in Engines, NEW s \in Servers, Touches(f, s)
  PROVE  /\ run.step \in Working /\ Opens(run.cfg, f) /\ s = Host(f)
  <1>1. ~ UNCHANGED stores
    BY DEF Touches, stores
  <1>2. CASE Adapter
    <2> DEFINE e == run.req.engine
    <2>1. run.step = "adapter" /\ run.step \in Working
      BY <1>2, WorkingSteps DEF Working, Provisions
    <2>2. Opens(run.cfg, e)
      BY <2>1 DEF IInv, Opened, Provisions
    <2>3. PICK made : Make(e, made)
      BY <1>1, <1>2, WorkingSteps DEF Adapter, stores
    <2>4. Spreads(e, Password)
      BY <2>1, <2>2, <2>3, MakeSpreads
    <2>5. account'[f][s] # account[f][s] => f = e /\ s = Host(e)
      BY <2>1, <2>2, <2>4, SpreadFacts
    <2>6. QED
      BY <2>1, <2>2, <2>3, <2>5 DEF Touches, Make
  <1>3. ASSUME NEW pw, SetAccount(Engine, pw), Alter \/ Restore
        PROVE  run.step \in Working /\ Opens(run.cfg, f) /\ s = Host(f)
    <2>1. run.step \in {"alter", "restore"} /\ run.step \in Working /\ UNCHANGED database
      BY <1>3, WorkingSteps DEF Working, Manages
    <2>2. Opens(run.cfg, Engine)
      BY <2>1 DEF IInv, Opened, Manages
    <2>3. Spreads(Engine, pw)
      BY <1>3, <2>1 DEF Spreads, IInv, Stored
    <2>4. account'[f][s] # account[f][s] => f = Engine /\ s = Host(Engine)
      BY <2>1, <2>2, <2>3, SpreadFacts
    <2>5. QED
      BY <2>1, <2>2, <2>4 DEF Touches
  <1>4. CASE Alter \/ Restore
    BY <1>1, <1>3, <1>4, WorkingSteps DEF Alter, Restore, stores
  <1>5. CASE Drop
    <2>1. run.step = "drop" /\ run.step \in Working
      BY <1>5, WorkingSteps DEF Working, Manages
    <2>2. Opens(run.cfg, Engine)
      BY <2>1 DEF IInv, Opened, Manages
    <2>3. PICK gone :
            /\ database' = IF "database" \in gone THEN database \ {<<Engine, Host(Engine)>>}
                           ELSE database
            /\ IF "account" \in gone THEN SetAccount(Engine, Absent) ELSE UNCHANGED account
      BY <1>1, <1>5, WorkingSteps DEF Drop, stores
    <2>4. Spreads(Engine, Absent)
      BY <2>3 DEF Spreads, IInv, Stored
    <2>5. account'[f][s] # account[f][s] => f = Engine /\ s = Host(Engine)
      BY <2>1, <2>2, <2>4, SpreadFacts
    <2>6. QED
      BY <2>1, <2>2, <2>3, <2>5 DEF Touches
  <1>6. CASE Sync \/ RecordPassword \/ Erase
    BY <1>6, WorkingSteps DEF Touches
  <1>7. QED
    BY <1>1, <1>2, <1>4, <1>5, <1>6, WhoWorks

----------------------------------------------------------------------------
(* The theorems.                                                           *)

\* The record of a run that reported a sync is whole, and the app logs in with
\* it: on one server and under one account, whatever earlier commands have left
\* on any server and in the folder, and wherever they stopped.
THEOREM SyncedRecordsWork == Spec => []SyncedLogsIn
  <1>1. IInv => SyncedLogsIn
    BY DEF IInv
  <1>2. QED
    BY <1>1, Invariance, PTL

\* A rotation is reported as verified only if the server it changed is the one
\* the record names: its password is new, and so on no other server.
THEOREM VerifiedIsAtHome == Spec => VerificationFindsDrift
  <1>1. ASSUME IInv, [Next]_vars, At("dial"), run.req.cmd = "rotate", run'.step = "verified"
        PROVE  record["DB_HOST"] = Host(Engine)
    <2>1. run.step = "dial"
      BY <1>1 DEF At
    <2>2. Dial
      <3>1. run.step \notin Ended
        BY <2>1 DEF Ended
      <3>2. ~ UNCHANGED vars
        BY <1>1, <2>1 DEF vars
      <3>3. /\ \A r \in Commands : ~ Type(r)
            /\ ~ (Load \/ Login \/ Preflight \/ ResolveApp)
        BY <2>1, <3>1 DEF Type, Load, Login, Preflight, ResolveApp, At
      <3>4. QED
        BY <1>1, <2>1, <3>2, <3>3, WorkingSteps DEF Next
    <2>3. Admits(Dialled)
      BY <1>1, <2>2 DEF Dial, Goto, IInv, Typed, RunShape
    <2> DEFINE creds == ParseCredentials(run.seen)
               there == creds["DB_HOST"]
    <2>4. Dialled["DB_TYPE"] = Engine /\ Dialled["DB_PASSWORD"] = Password /\ Dialled["DB_HOST"] = there
      BY <1>1 DEF Dialled, ParseCredentials, ContractKeys
    <2> HIDE DEF creds
    <2>5. PICK h \in UserHosts : account[Engine][there][h] = Password
      BY <2>3, <2>4 DEF Admits
    <2>6. Engine \in Engines /\ there \in Servers
      BY <1>1, <2>3, <2>4 DEF Admits, IInv, Stored
    <2>7. there = Host(Engine)
      BY <1>1, <2>1, <2>5, <2>6 DEF IInv, Here
    <2>8. there # ""
      BY <2>6, ConfigurationAssumption
    <2>9. there = run.seen["DB_HOST"]
      BY <2>8 DEF creds, ParseCredentials, Lookup, ContractKeys
    <2>a. run.seen["DB_HOST"] = record["DB_HOST"]
      BY <1>1, <2>1 DEF IInv, Resolved, Keys, ContractKeys
    <2>b. QED
      BY <2>7, <2>9, <2>a
  <1>2. IInv /\ [Next]_vars =>
            [At("dial") /\ run.req.cmd = "rotate" /\ run'.step = "verified" =>
                record["DB_HOST"] = Host(Engine)]_vars
    BY <1>1
  <1>3. QED
    BY <1>2, Invariance, PTL DEF Spec, VerificationFindsDrift

\* A server is changed only under a section that names it and is complete.
THEOREM OnlyConfiguredServers == Spec => ChangesAreConfigured
  <1>1. ASSUME IInv, [Next]_vars, NEW e \in Engines, NEW s \in Servers, Touches(e, s)
        PROVE  Host(e) = s /\ Complete(run.cfg[e])
    <2>1. run.step \in Working /\ Opens(run.cfg, e) /\ s = Host(e)
      BY <1>1, OneServer
    <2>2. QED
      BY <1>1, <2>1, HostFacts DEF IInv
  <1>2. IInv /\ [Next]_vars =>
            [\A e \in Engines, s \in Servers : Touches(e, s) =>
                Host(e) = s /\ Complete(run.cfg[e])]_vars
    BY <1>1
  <1>3. QED
    BY <1>2, Invariance, PTL DEF Spec, ChangesAreConfigured

\* A run that carries a rejected token changes nothing anywhere, and one whose
\* login failed changes nothing that was recorded.
THEOREM BadTokenFailsClosed == Spec => BadTokenChangesNothing
  <1>1. ASSUME IInv, [Next]_vars
        PROVE  /\ run.cfg.infisical["token"] \notin {"", "good"} => UNCHANGED stores
               /\ run.client = "none" => UNCHANGED record
    <2>1. ASSUME ~ UNCHANGED stores
          PROVE  /\ run.step \in Working
                 /\ (Adapter /\ run.client = "none") \/ Answers(run.client, run.cfg)
      <3>1. /\ run.step \in Working
            /\ Adapter \/ run.step # "adapter"
        BY <1>1, <2>1, WhoWorks, WorkingSteps DEF Working, Provisions, Manages
      <3>2. QED
        BY <1>1, <3>1 DEF IInv, Authenticated
    <2>2. run.cfg.infisical["token"] \notin {"", "good"} => UNCHANGED stores
      BY <1>1, <2>1 DEF IInv, Authenticated, Answers
    <2>3. run.client = "none" => UNCHANGED record
      BY <2>1, WorkingSteps DEF Answers, stores
    <2>4. QED
      BY <2>2, <2>3
  <1>2. IInv /\ [Next]_vars =>
            [/\ run.cfg.infisical["token"] \notin {"", "good"} => UNCHANGED stores
             /\ run.client = "none" => UNCHANGED record]_vars
    BY <1>1
  <1>3. QED
    BY <1>2, Invariance, PTL DEF Spec, BadTokenChangesNothing
=============================================================================
