------------------------------ MODULE Readers ------------------------------
(***************************************************************************)
(* `conn`, `test` and `list` (cmd/conn.go, cmd/test.go, cmd/list.go): they  *)
(* change nothing, but read the vault at one moment and act on what they    *)
(* read at a later one, while other commands write it key by key.           *)
(*                                                                         *)
(* Readers do not meet each other, so one reader with one command stands    *)
(* for all. What is rendered is left out except for which credentials a     *)
(* connection string is made of and whether their password is in it.        *)
(***************************************************************************)
EXTENDS Overlap

CONSTANTS ReadRequests      \* the command lines the reader may type

Formats == {"table", "uri", "psql", "mysql", "env"}

\* "" is an absent --type, and no KEY argument of list.
ReadRequestType ==
    [cmd : {"conn", "test", "listApps", "list", "listKey"}, site : Sites, online : BOOLEAN,
     type : Engines \cup {""}, format : Formats, copy : BOOLEAN, key : Keys]

ASSUME ReadRequestsAssumption == ReadRequests # {} /\ ReadRequests \subseteq ReadRequestType

VARIABLE reader     \* the reader's step, command line, what it read and says

Mask == "mask"
Nothing == [k \in Keys |-> Absent]
NotReading == [step |-> "idle", req |-> CHOOSE r \in ReadRequests : TRUE,
               found |-> Nothing, says |-> {}]

----------------------------------------------------------------------------
(* The decisions of the readers about a folder's content.                  *)

\* fetchAppCredentials: a folder that is empty, or is not there, has no app.
Fetched(found) == \E k \in Keys : found[k] # Absent

\* validateFormatForDatabase.
ValidFormats == [postgres |-> {"table", "uri", "psql", "env"},
                 mysql |-> {"table", "uri", "mysql", "env"}]

\* The cases of GeneratePostgres and GenerateMySQL.
RenderedMutantForgetsEnv == [postgres |-> {"uri", "psql", "env"}, mysql |-> {"uri", "mysql"}]
Rendered == [postgres |-> {"uri", "psql", "env"}, mysql |-> {"uri", "mysql", "env"}]

\* The rows of the table: GenerateAll, which fails if one can not be rendered.
TableRows == [postgres |-> {"uri", "psql", "env"}, mysql |-> {"uri", "mysql", "env"}]

\* What conn checks of the app once it is fetched, before it renders it.
ConnAccepts(r, creds) ==
    /\ ResolveType(creds)
    /\ r.type \in {"", creds["DB_TYPE"]}
    /\ r.format \in ValidFormats[creds["DB_TYPE"]]
    /\ ValidateContract(creds, creds["DB_TYPE"])

\* What test checks before it dials: the schema is not among it.
TestAccepts(creds) == ResolveType(creds) /\ RequireCore(creds)

ToRender(r, engine) == IF r.format = "table" THEN TableRows[engine] ELSE {r.format}

\* The credentials a table row or a string is made of: in the table a marker
\* takes the password's place before anything is rendered.
Shown(r, creds) == IF r.format = "table" THEN [creds EXCEPT !["DB_PASSWORD"] = Mask] ELSE creds

----------------------------------------------------------------------------
(* The commands.                                                           *)

ReadStart(r) ==
    /\ reader.step = "idle"
    /\ reader' = [NotReading EXCEPT
                    !.req = r,
                    !.step = IF r.online /\ ~(r.cmd = "conn" /\ r.copy /\ r.format = "table")
                             THEN "fetch" ELSE "failed"]

\* One call lists the folder; what it answers is all the command knows.
Fetch ==
    LET r == reader.req
        found == secrets[r.site]
        creds == ParseCredentials(found)
    IN  /\ reader.step = "fetch"
        /\ \/ reader' = [reader EXCEPT !.step = "failed"]
           \/ /\ r.cmd = "conn"
              /\ reader' = [reader EXCEPT
                    !.found = found,
                    !.step = IF Fetched(found) /\ ConnAccepts(r, creds) THEN "render" ELSE "failed"]
           \/ /\ r.cmd = "test"
              /\ reader' = [reader EXCEPT
                    !.found = found,
                    !.step = IF Fetched(found) /\ TestAccepts(creds) THEN "dial" ELSE "failed"]
           \/ /\ r.cmd = "listApps"
              /\ reader' = [reader EXCEPT !.step = "done", !.says = {s \in Sites : folder[s]}]
           \/ /\ r.cmd = "list"
              /\ reader' = [reader EXCEPT !.step = "done",
                    !.says = {k \in Keys : found[k] # Absent}]
           \/ /\ r.cmd = "listKey"
              /\ reader' = [reader EXCEPT
                    !.says = {r.key} \cap {k \in Keys : found[k] # Absent},
                    !.step = IF found[r.key] # Absent THEN "done" ELSE "failed"]

\* The string is printed, or copied; --copy prints it when there is no
\* clipboard.
Render ==
    LET r == reader.req
        creds == ParseCredentials(reader.found)
    IN  /\ reader.step = "render"
        /\ reader' = IF ToRender(r, creds["DB_TYPE"]) \subseteq Rendered[creds["DB_TYPE"]]
                     THEN [reader EXCEPT !.step = "done", !.says = {Shown(r, creds)}]
                     ELSE [reader EXCEPT !.step = "failed"]

\* TestAppConnection, with the application's own credentials.
Dial ==
    LET creds == ParseCredentials(reader.found)
    IN  /\ reader.step = "dial"
        /\ \/ LetsIn(creds["DB_TYPE"], creds) /\ reader' = [reader EXCEPT !.step = "done"]
           \/ reader' = [reader EXCEPT !.step = "failed"]

ReaderNext ==
    \/ \E r \in ReadRequests : ReadStart(r)
    \/ Fetch
    \/ Render
    \/ Dial

ReadersInit == Init /\ reader = NotReading
ReadersNext ==
    \/ Next /\ UNCHANGED reader
    \/ ReaderNext /\ UNCHANGED vars
ReadersSpec == ReadersInit /\ [][ReadersNext]_<<vars, reader>>

----------------------------------------------------------------------------
(* Properties.                                                             *)

Says(r) == reader.step = "done" /\ reader.req.cmd = r

\* What a reader has fetched and is about to render or dial with, or has
\* printed, opens the database it names. Records are written key by key, but
\* not before the database is made, and a reader takes none that is half
\* written. (For strict provisioning: see the runs.)
ReadersSeeWorkingApps ==
    LET works(creds) == LetsIn(creds["DB_TYPE"], creds)
    IN  /\ reader.step \in {"render", "dial"} => works(ParseCredentials(reader.found))
        /\ Says("conn") =>
            \A creds \in reader.says : creds["DB_PASSWORD"] # Mask => works(creds)

\* An app conn accepts is one that test accepts, and that rotate and delete
\* resolve, to the same engine without a --type. They may refuse it later: conn
\* renders a recorded name as it is, but rotate holds the user, and delete the
\* database too, against the identifier allowlist.
ConnectableIsResolvable ==
    reader.step = "render" =>
        LET creds == ParseCredentials(reader.found)
        IN  /\ TestAccepts(creds)
            /\ Resolvable(reader.found)
            /\ ResolveEngine(creds, "") = creds["DB_TYPE"]

\* The four tables of formats agree: a format that passed the check of its
\* engine is one the generator of that engine renders.
AcceptedIsRendered ==
    [][reader.step = "render" /\ reader'.step # "render" => reader'.step = "done"]_<<vars, reader>>

\* Rotation doubles as recovery: if the rest of the contract is recorded, the
\* readers accept the app once a rotation has reported success, whatever was
\* recorded as its password.
RotationRestoresReaders ==
    [][\A p \in Invocations : Ends(p, "rotated") =>
        LET e == Engine(p)
            after == ParseCredentials(secrets'[Site(p)])
            whole(creds) == creds["DB_TYPE"] = e /\ ValidateContract(creds, e)
        IN  whole([ParseCredentials(job[p].seen) EXCEPT !["DB_PASSWORD"] = p]) => whole(after)]_vars

=============================================================================
