------------------------------ MODULE MCReports ------------------------------
(***************************************************************************)
(* Instance of Reports for TLC.  The settings of the instance differ in    *)
(* what a report tells apart: a cloud URL that is there, missing or        *)
(* unreadable, a local host that is this machine or not, TLS, the file     *)
(* itself, and tools that are complete, partly there, or not there.        *)
(*                                                                         *)
(* A setting that is meant is typed as the URL of it.  A query that has a  *)
(* '/' or a '@' (sslrootcert=/etc/ca.pem) is not among the inputs, as      *)
(* ParseConnURL cuts it in two.                                            *)
(***************************************************************************)
EXTENDS Reports, TLC

Symmetry == Permutations(Runs) \cup Permutations(Tables)

Url == <<"a", ":", "@", "@", "a", "/", "a">>
NoDirs == [root \in {"pg0", "Program Files", "Program Files (x86)", "Postgres.app"} |-> {}]
OnPath(tools) == [os |-> "linux", named |-> {}, versions |-> NoDirs,
                  has |-> (<<"PATH", "">> :> tools)]
Pg0(tools, others) ==
    [os |-> "linux", named |-> {}, versions |-> [NoDirs EXCEPT !["pg0"] = {"14", "16"}],
     has |-> (<<"PATH", "">> :> others) @@ (<<"pg0", "16">> :> tools) @@ (<<"pg0", "14">> :> {})]

Plain == [url |-> Url, near |-> TRUE, tls |-> FALSE, file |-> TRUE, machine |-> OnPath(ToolNames)]
MCConfigs == {Plain,
              [Plain EXCEPT !.near = FALSE, !.tls = TRUE],
              [Plain EXCEPT !.url = <<"a", "@", "a">>, !.machine = Pg0({"psql"}, {"pg_dump"})],
              [Plain EXCEPT !.url = <<>>, !.machine = OnPath({"pg_dump"}), !.file = FALSE],
              [Plain EXCEPT !.tls = TRUE, !.machine = Pg0({"pg_restore", "psql"}, ToolNames)]}
-----------------------------------------------------------------------------
Settings == [ok : {TRUE}, user : {<<>>, <<"a", "@">>, <<"/", "a">>},
             password : SeqOf({"@", ":", "/", "?", "5", "a"}, 2),
             host : {<<"5", "a">>, <<"a", ":", "a">>}, port : {DefaultPort, <<"5">>},
             db : {<<"a">>, <<"a", ":", "5">>}]
Queries == {<<>>, <<"?", "?", "a", ":", "5">>}

Meaningless(urls) == {[meant |-> Refused, query |-> <<>>, url |-> url] : url \in urls}
MCLively == Meaningless({Url, <<"a">>})
MCTyped ==
    MCLively
      \cup Meaningless(SeqOf({"@", ":", "/", "?", "5"}, 5))
      \cup {[meant |-> c, query |-> query, url |-> Written(c, query)] :
                c \in {c \in Settings : <<>> # c.user \o c.password}, query \in Queries}

Logins == SUBSET {"me", "postgres"}
MCScenes == [files : SeqOf([suffix : {"5432", "6000", "lock", "odd"}, answers : Logins], 2),
             tcp : [{"5432", "5433"} -> Logins]]
=============================================================================
