----------------------------- MODULE MCDesiredState -----------------------------
(***************************************************************************)
(* A small instance of DesiredState for TLC: two projects whose slugs give *)
(* the same namespace, services of every type, one managed database.  The  *)
(* second service has "-env" in its name, and may claim as its own domain  *)
(* the host that is generated for the first one.                           *)
(***************************************************************************)
EXTENDS DesiredState, TLC

TwoProjects == {[org |-> <<"acme">>, slug |-> <<"api", "acme", "api">>],
                [org |-> <<"acme", "api", "acme">>, slug |-> <<"api">>]}
TwoServices == <<<<"web">>, <<"my", "environment">>>>
Rewordings  == [env |-> "config", environment |-> "configironment"]
OneResource == <<<<"db">>>>
Postgres    == [r \in {<<"db">>} |-> {"DATABASE_URL", "PGHOST"}]

Plain == [type |-> "web", env |-> {"LOG_LEVEL"}, attached |-> Absent, source |-> "git",
          image |-> Absent, domain |-> Absent, min |-> 1, max |-> 1, egress |-> FALSE]

OneProject == CHOOSE p \in TwoProjects : p.org = <<"acme">>

\* One spec per type, and the variations that change which objects there are.
SomeSpecs ==
    (<<"web">> :> {Plain,
                   [Plain EXCEPT !.type = "private", !.env = {"API_TOKEN", "DATABASE_URL"}, !.max = 2],
                   [Plain EXCEPT !.type = "worker", !.attached = {}, !.egress = TRUE, !.min = 0],
                   [Plain EXCEPT !.type = "job", !.source = "image", !.image = <<"tool">>]})
    @@ (<<"my", "environment">> :>
            {[Plain EXCEPT !.domain = serviceHostname(OneProject, <<"web">>, Absent)],
             [Plain EXCEPT !.type = "cron", !.env = {}],
             [Plain EXCEPT !.source = "image"]})

OperatorSymmetry == Permutations(Operators)
================================================================================
