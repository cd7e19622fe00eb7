------------------------------- MODULE Connect -------------------------------
(***************************************************************************)
(* How gaet finds what it talks to, as functions of their input: the parts *)
(* of a connection URL (pgurl.go), the client tools of a machine           *)
(* (pgtools.go) and the PostgreSQL servers that answer on it (detect.go).  *)
(* Reports calls them.                                                     *)
(*                                                                         *)
(* A URL is the sequence of its characters after postgresql://, over the   *)
(* four that ParseConnURL tells apart, digits, and a letter for the rest.  *)
(* Left out: the scheme, and case.                                         *)
(***************************************************************************)
EXTENDS Naturals, Sequences, FiniteSets, SequencesExt, FiniteSetsExt, Listing

Digits == {"2", "3", "4", "5"}
Chars == {"a", "@", ":", "/", "?"} \cup Digits
DefaultPort == <<"5", "4", "3", "2">>

Places(s, c) == {i \in DOMAIN s : s[i] = c}
FirstOf(s, c) == IF Places(s, c) = {} THEN 0 ELSE Min(Places(s, c))
LastOf(s, c) == IF Places(s, c) = {} THEN 0 ELSE Max(Places(s, c))
Before(s, i) == SubSeq(s, 1, i - 1)
After(s, i) == SubSeq(s, i + 1, Len(s))
UpTo(s, c) == IF FirstOf(s, c) = 0 THEN s ELSE Before(s, FirstOf(s, c))

Refused == [ok |-> FALSE]

(* The password starts after the first ':' of the credentials, and what    *)
(* follows the last ':' of the host is a port when it is digits only.      *)
UserOf(userinfo) == UpTo(userinfo, ":")
PasswordOf(userinfo) ==
    IF FirstOf(userinfo, ":") = 0 THEN <<>> ELSE After(userinfo, FirstOf(userinfo, ":"))

HasPort(hostport) == /\ LastOf(hostport, ":") # 0
                     /\ Range(After(hostport, LastOf(hostport, ":"))) \subseteq Digits
HostOf(hostport) ==
    IF HasPort(hostport) THEN Before(hostport, LastOf(hostport, ":")) ELSE hostport
PortOf(hostport) ==
    IF HasPort(hostport) THEN After(hostport, LastOf(hostport, ":")) ELSE DefaultPort

(* The credentials end at the last '@', the database starts after the last *)
(* '/' of what is left and ends at a '?'.                                  *)
ParseConnURL(url) ==
    LET at == LastOf(url, "@")
        userinfo == Before(url, at)
        hostpart == After(url, at)
        slash == LastOf(hostpart, "/")
        hostport == Before(hostpart, slash)
        db == UpTo(After(hostpart, slash), "?")
    IN  IF at = 0 \/ slash = 0 \/ <<>> \in {userinfo, db, HostOf(hostport)}
        THEN Refused
        ELSE [ok |-> TRUE,
              user |-> UserOf(userinfo),
              password |-> PasswordOf(userinfo),
              host |-> HostOf(hostport),
              port |-> PortOf(hostport),
              db |-> db]
-----------------------------------------------------------------------------
ToolNames == {"pg_dump", "pg_restore", "psql"}

(* Directory names as sort.Reverse puts them: as text, not as numbers. *)
VersionsByName == <<"9.6", "16", "14">>
Newest(versions) == Among(VersionsByName, versions)

Nowhere == <<"", "">>

(* A directory gives the tools that are missing so far, of those it has. *)
TryFill(found, dir, has) ==
    [t \in ToolNames |-> IF found[t] = Nowhere /\ t \in has THEN dir ELSE found[t]]

(* The places looked at, in their order, as a root and a version.  A machine *)
(* says which tools the settings name, and what each directory has; of pg0   *)
(* and of a root of Windows only the first version is looked at, and of the  *)
(* roots the first with a version, of Postgres.app every version.            *)
Under(machine, root) == [i \in DOMAIN Newest(machine.versions[root]) |->
                           <<root, Newest(machine.versions[root])[i]>>]
FirstUnder(machine, root) ==
    IF Under(machine, root) = <<>> THEN <<>> ELSE <<Under(machine, root)[1]>>

Roots(machine) == Among(<<"Program Files", "Program Files (x86)">>,
                        {root \in DOMAIN machine.versions : machine.versions[root] # {}})
PlatformDirs(machine) ==
    IF machine.os = "windows"
    THEN IF Roots(machine) = <<>> THEN <<>> ELSE FirstUnder(machine, Roots(machine)[1])
    ELSE IF machine.os = "darwin" THEN <<<<"brew", "">>>> \o Under(machine, "Postgres.app")
    ELSE <<>>

Dirs(machine) == FirstUnder(machine, "pg0") \o <<<<"PATH", "">>>> \o PlatformDirs(machine)

(* What GAET_PG_DUMP and the like name is taken as it is: nothing looks   *)
(* whether there is a file.                                               *)
FindDBTools(machine) ==
    LET dirs == Dirs(machine)
        found[i \in 0 .. Len(dirs)] ==
            IF i = 0 THEN TryFill([t \in ToolNames |-> Nowhere], <<"settings", "">>, machine.named)
            ELSE TryFill(found[i - 1], dirs[i], machine.has[dirs[i]])
    IN  found[Len(dirs)]

Tools(machine) == {t \in ToolNames : FindDBTools(machine)[t] # Nowhere}
-----------------------------------------------------------------------------
TcpPorts == <<"5432", "5433">>

(* The lock files of the sockets with them. *)
FindAllPaths(files) == files

(* A socket file is .s.PGSQL.<suffix> in a directory: a lock file is passed *)
(* over, and a suffix that is no number counts as the default port.         *)
FindSocketPaths(files) == Among(files, {f \in Range(files) : f.suffix # "lock"})
SocketPort(f) == IF f.suffix = "odd" THEN "5432" ELSE f.suffix

(* buildUserList: whoever runs gaet, and two names that are usual. *)
Users == <<"me", "postgres", "root">>

(* The first user of the list whom the server lets in without a password. *)
LetsIn(users, answers) == Among(users, answers)
Instance(port, user, isSocket) == [port |-> port, user |-> user, isSocket |-> isSocket]
Ports(results) == {results[i].port : i \in DOMAIN results}

(* What is tried: the sockets first, then the TCP ports. *)
BySocket(f) == [port |-> SocketPort(f), answers |-> f.answers, isSocket |-> TRUE]
ByTcp(port, tcp) == [port |-> port, answers |-> tcp[port], isSocket |-> FALSE]
Attempts(files, tcp) ==
    [i \in DOMAIN FindSocketPaths(files) |-> BySocket(FindSocketPaths(files)[i])]
    \o [i \in DOMAIN TcpPorts |-> ByTcp(TcpPorts[i], tcp)]

(* A port that has answered is not tried again. *)
Tried(results, attempt, users) ==
    IF attempt.port \in Ports(results) \/ LetsIn(users, attempt.answers) = <<>>
    THEN results
    ELSE Append(results, Instance(attempt.port, LetsIn(users, attempt.answers)[1], attempt.isSocket))

DetectLocalDB(tools, users, files, tcp) ==
    LET attempts == Attempts(files, tcp)
        results[i \in 0 .. Len(attempts)] ==
            IF i = 0 THEN <<>> ELSE Tried(results[i - 1], attempts[i], users)
    IN  IF "psql" \notin tools THEN <<>> ELSE results[Len(attempts)]
=============================================================================
