------------------------------ MODULE Repairs ------------------------------
(***************************************************************************)
(* repair_scenarios.py, regression_scenarios.py and remote_scenarios.py:   *)
(* repairs of damaged deployments, upstream regressions and the remotes'   *)
(* configuration.                                                          *)
(***************************************************************************)
EXTENDS Target

Prepared == <<Setup(RemoteAdd("server")), Setup(Install("app", {})), Shows("user", "app", "A")>>
Fixture == <<Shows("user", "app", "A"), Shows("user", "runtime", "R")>>
Executable == <<"files", "user", "app">>
Objects == <<"objects", "user", "app">>
Healthy == Set(<<>>)

-----------------------------------------------------------------------------
\* repair_scenarios.py

\* An ordinary repair leaves a deployment whose objects are sound alone.
repair_reinstall_all ==
    <<Env(Executable :> "removed"), Fact(Executable, "removed"), Healthy, Fact(Executable, "removed"),
      Opt(Executable :> "restored", <<>>)>> \o Fixture \o <<Fact(Executable, "restored")>>

\* The offline redeployment fails unless the repair fetched the removed payload again.
repair_user(dry) ==
    <<Healthy, Prepare, Env(Objects :> "removed")>> \o
    (IF dry THEN <<Note(Objects), Opt(<<>>, Objects :> "restored"), Same(Objects)>> ELSE <<>>) \o
    <<Set(Objects :> "restored")>> \o Fixture \o <<Unseen({"lies"}, RemoteEdit("unavailable")),
      Unseen({"lies"}, When(Objects :> "restored", Set(<<"redeployed", "user">> :> "yes")))>> \o Fixture

-----------------------------------------------------------------------------
\* regression_scenarios.py

\* Repairs keep the one pin and make none of the dependency.
repair_pins ==
    LET pin(r) == <<"pin", "user", r>>
        pins == <<Fact(pin("ext"), "yes"), Fact(pin("runtime"), "none")>>
        repaired == pins \o Fixture \o <<Shows("user", "ext", "control")>>
    IN <<Prepare, From("other", RemoteAdd("control")), From("other", Install("ext", {})),
         Set(pin("ext") :> "yes")>> \o pins
       \o <<Healthy>> \o repaired
       \o <<Env(Executable :> "removed"), Fact(Executable, "removed"), Opt(Executable :> "restored", <<>>)>> \o repaired
       \o <<Fact(Executable, "restored"), Uninstall("app", {}), Uninstall("unused", {}), Lists("user", Refs, {"ext"}),
            Shows("user", "ext", "control")>>

\* Only the safe fields of what an application exports reach the session.
export_filter ==
    LET exported(what) == <<"export", what>>
    IN <<Prepare, From("other", RemoteAdd("exports")),
         When(<<"remote", "user", "other">> :> "exports",
              Set((<<"at", "user", "app">> :> "exports") @@ Each({exported("desktop"), exported("action"), exported("service")}, "safe"))),
         Shows("user", "app", "exports"), Fact(exported("desktop"), "safe"), Fact(exported("action"), "safe"),
         Fact(exported("service"), "safe")>>

\* A malformed deployment may fail but not at the wrong version, nor may it prevent a
\* later update; what lies outside stays as it was.
deployment_traversal(ref) ==
    LET canary == <<"canary", ref>>
        original == IF ref = "app" THEN "A" ELSE "R"
        on(url, c) == When(<<"remote", "user", "fixture">> :> url, c)
    IN <<Prepare, Env(canary :> "intact"), Note(canary), RemoteEdit("regression"),
         Attempt(<<"at", "user", ref>> :> "malicious"), Same(canary)>>
       \o IfOk(<<Shows("user", ref, "malicious")>>) \o IfRefused(<<Shows("user", ref, original)>>)
       \o <<on("regression", Set(<<"at", "user", ref>> :> "recovered")), Shows("user", ref, "recovered"), Same(canary)>>

process_group ==
    LET turn(op) == <<Set(<<"signal", op>> :> "isolated"), Fact(<<"signal", op>>, "isolated")>>
    IN turn("kill") \o turn("killpg")

instance_fd == <<Set(<<"instance", "user">> :> "immediate"), Fact(<<"instance", "user">>, "immediate")>>

-----------------------------------------------------------------------------
\* remote_scenarios.py

\* Every row of the list and every single lookup agree, whatever was edited last; the
\* library alone tells a title that is not set.
Row(r, f) == <<"row", r, f>>
RowSet(r, url, title, prio) == (Row(r, "url") :> url) @@ (Row(r, "title") :> title) @@ (Row(r, "priority") :> prio)
RowIs(r, url, title, prio) == <<Fact(Row(r, "url"), url), Fact(Row(r, "title"), title), Fact(Row(r, "priority"), prio)>>
Listed(r) == Fact(<<"listed", "user">>, r)
Order(r) == <<"listed", "user">> :> r

remote_configuration(library) ==
    LET second == RowIs("second", "url/", "Second", "20")
        edit(url, title, prio, order) ==
            <<Set(RowSet("first", url, title, prio) @@ Order(order)), Listed(order)>>
            \o RowIs("first", url, title, prio) \o second
    IN <<Listed("none"), Set(RowSet("first", "url", "First", "20") @@ Order("first")), Listed("first")>>
       \o RowIs("first", "url", "First", "20")
       \o <<Set(RowSet("second", "url/", "Second", "20"))>> \o RowIs("first", "url", "First", "20") \o second
       \o edit("url", "First", "10", "second, first")
       \o (IF library THEN <<When(Row("first", "url") :> "url", Set(<<>>)), Failing(<<>>)>> ELSE <<>>)
       \o edit("url", "First", "30", "first, second") \o edit("changed", "Revised", "30", "first, second")
       \o (IF library THEN edit("changed", "none", "30", "first, second") ELSE <<>>)
       \o <<Set(RowSet("first", "none", "none", "none") @@ Order("second")), Listed("second"),
            Fact(Row("first", "url"), "none")>> \o second
       \o (IF library THEN <<Failing(<<>>)>> \o second ELSE <<>>)

\* The tied names are created in the reverse of the order they are listed in.
remote_priority_order ==
    LET rank(r) == <<"rank", r>>
        created == <<<<"z", "2">>, <<"a", "1">>, <<"low", "3">>>>
    IN ForAll(created, LAMBDA c : <<Fact(rank(c[1]), "none")>>) \o ForAll(created, LAMBDA c : <<Set(rank(c[1]) :> c[2])>>)
       \o ForAll(created, LAMBDA c : <<Fact(rank(c[1]), c[2])>>)

RemoteNames == {"remote-configuration", "remote-configuration (library)", "remote-priority-order"}
DeployedNames == {"repair-reinstall-all", "repair-user-dry-run", "repair-user-restore", "repair-pins",
    "sandbox-export-filter", "sandbox-deployment-etc", "sandbox-deployment-export", "sandbox-process-group",
    "instance-fd-immediate"}
Names == RemoteNames \union DeployedNames

run(n) ==
    CASE n = "remote-configuration" -> remote_configuration(FALSE)
      [] n = "remote-configuration (library)" -> remote_configuration(TRUE)
      [] n = "remote-priority-order" -> remote_priority_order
      [] n \in DeployedNames -> Prepared \o
            CASE n = "repair-reinstall-all" -> repair_reinstall_all
              [] n = "repair-user-dry-run" -> repair_user(TRUE)
              [] n = "repair-user-restore" -> repair_user(FALSE)
              [] n = "repair-pins" -> repair_pins
              [] n = "sandbox-export-filter" -> export_filter
              [] n = "sandbox-deployment-etc" -> deployment_traversal("runtime")
              [] n = "sandbox-deployment-export" -> deployment_traversal("app")
              [] n = "sandbox-process-group" -> process_group
              [] n = "instance-fd-immediate" -> instance_fd
=============================================================================
