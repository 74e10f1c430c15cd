-------------------------- MODULE MCConfiguration --------------------------
(* Small instances of Configuration: every way to be authenticated, sections
   that are whole, half, missing or completed by the environment, and files
   that differ in the server or the account host they name. *)
EXTENDS Configuration

CONSTANTS a, b, h

Identity(token, secret) ==
    [project |-> "set", client_id |-> IF secret = "" THEN "" ELSE "set",
     client_secret |-> secret, token |-> token]
Section(server) ==
    [k \in SectionKeys |-> CASE k = "hostname" -> server [] k = "user_host" -> "" [] OTHER -> "set"]
NoSection == NoConfig.postgres
Half(server) == [NoSection EXCEPT !["hostname"] = server, !["port"] = "set"]

File(identity, pg, my) ==
    [state |-> "ok", keys |-> [infisical |-> identity, postgres |-> pg, mysql |-> my]]
NoFile(how) == [state |-> how, keys |-> NoConfig]
Pair == Identity("", "good")

(* Configuration that changes between commands. *)
AllFiles ==
    {File(i, Section(a), NoSection) :
        i \in {Pair, Identity("", "bad"), Identity("good", ""), Identity("bad", "good"),
               Identity("", "jwt"), Identity("", "")}}
    \cup {File(Pair, Section(b), Half(a)), File(Pair, NoSection, Section(a)),
          File(Pair, NoSection, [Section(a) EXCEPT !["user_host"] = h]),
          File(Pair, NoSection, [Section(b) EXCEPT !["user_host"] = h])}
    \cup {NoFile(how) : how \in Unreadable}
AllEnvironments ==
    {NoConfig,
     [NoConfig EXCEPT !.infisical["token"] = "bad"],
     [NoConfig EXCEPT !.postgres["hostname"] = b],
     [NoConfig EXCEPT !.mysql = [Section("") EXCEPT !["hostname"] = ""]],
     [infisical |-> Pair, postgres |-> Section(b), mysql |-> NoSection]}

Cmd(cmd, e) ==
    [cmd |-> cmd, engine |-> e, adopt |-> FALSE, explicit |-> FALSE, host |-> "", noVerify |-> FALSE]
AllCommands ==
    {[Cmd("provision", e) EXCEPT !.adopt = ad] : e \in Engines, ad \in BOOLEAN}
    \cup {[Cmd("provision", "postgres") EXCEPT !.adopt = TRUE, !.host = "alias"],
          Cmd("provision", "oracle"), [Cmd("list", "") EXCEPT !.explicit = TRUE],
          [Cmd("rotate", "") EXCEPT !.noVerify = TRUE], Cmd("rotate", "postgres")}
    \cup {Cmd(c, "") : c \in {"rotate", "delete", "test", "version"}}

TwoServers == {File(Pair, Section(s), NoSection) : s \in {a, b}}
DeleteCommands == {Cmd("provision", "postgres"), Cmd("delete", "")}
NoVariables == {NoConfig}

(* Passwords and first states. *)
ThreePasswords == [n \in 1 .. 3 |-> CASE n = 1 -> "pw1" [] n = 2 -> "pw2" [] n = 3 -> "pw3"]

EmptyWorld ==
    [database |-> {}, record |-> Nothing,
     account |-> [e \in Engines |-> [s \in Servers |-> [u \in UserHosts |-> Absent]]]]

\* Recorded before DB_TYPE existed, or under a name that fails the allowlist.
Legacy ==
    [database |-> {<<"postgres", a>>},
     account |-> [EmptyWorld.account EXCEPT !["postgres"][a]["%"] = "old"],
     record |-> [k \in Keys |->
        CASE k = "DB_NAME" -> "app_db" [] k = "DB_USER" -> "app_user" [] k = "DB_PASSWORD" -> "old"
          [] k = "DB_HOST" -> a [] k = "DB_PORT" -> "set" [] OTHER -> Absent]]
Misnamed == [Legacy EXCEPT !.record["DB_TYPE"] = "postgres", !.record["DB_NAME"] = "1st"]

AllWorlds == {EmptyWorld, Legacy, Misnamed}
EmptyOnly == {EmptyWorld}
=============================================================================
