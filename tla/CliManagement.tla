--------------------------- MODULE CliManagement ---------------------------
(***************************************************************************)
(* cli_management_scenarios.py: management contracts of the command line,  *)
(* one program per scenario name.                                          *)
(***************************************************************************)
EXTENDS Target

Commits(v, refs) == [i \in DOMAIN refs |-> Shows("user", refs[i], v)]
Fixture(v) == <<Shows("user", "app", v), Shows("user", "runtime", "R")>>
Languages == <<"config", "user">>
Remote == <<"remote", "user", "fixture">>
Option(o) == <<"remote-option", "user", o>>

\* Every update of the two branches is exercised from A before the ambiguous one.
update_ambiguous ==
    LET refs == <<"ext", "ext-next">>
        advance(r) == <<Update(r, {}), Shows("user", r, "B"), With("A", Update(r, {}))>>
    IN <<Install("ext", {}), Shows("user", "ext", "A"),
         Install("ext-next", {}), Shows("user", "ext-next", "A"), RemoteEdit("B"),
         Tips("user", "ext", "B"), Tips("user", "ext-next", "B")>>
         \o advance("ext") \o advance("ext-next") \o Commits("A", refs)
         \o <<Reject("ambiguous")>> \o Commits("A", refs)
         \o <<Update("all", {})>> \o Commits("B", refs)

\* The fields of a ref are compared: its permissions are declared by every version, the
\* metadata offered are those of A, and only B has A for its parent.
query_fields ==
    LET permissions == Lists("user", {"query"}, {"query"})
        metadata == Tips("user", "query", "A")
        parent == Tips("user", "query", "B")
    IN <<Install("query", {}), permissions, metadata, RemoteEdit("B"), parent>>

rich(n) == <<RemoteAdd("A")>> \o
    CASE n = "management-update-ambiguous" -> update_ambiguous
      [] n = "management-update-all" ->
            LET refs == <<"query", "native", "ext-next">>
            IN [i \in 1..3 |-> Install(refs[i], {})] \o Commits("A", refs)
               \o <<Shows("user", "runtime", "R"), RemoteEdit("B"), Update("all", {})>>
               \o Commits("B", refs) \o <<Shows("user", "runtime", "R")>>
      [] n = "management-install-arch" ->
            <<Install("named", {"no-deps", "foreign"}), Lists("user", Refs, {"foreign"}),
              Shows("user", "foreign", "A")>>
      [] n = "management-query-fields" -> query_fields
      [] n = "management-remote-info-arch" -> <<Tips("user", "foreign", "A")>>
      [] OTHER ->
            <<Unseen({"options"}, Install("native", {"no-deps"})), Shows("user", "native", "A"),
              Unseen({"options"}, Install("foreign", {"no-deps"})), Shows("user", "foreign", "A")>> \o
            CASE n = "management-installed-arch" ->
                    <<Lists("user", ForeignArch, {"foreign"}),
                      Lists("user", Refs \ ForeignArch, {"native"}), Shows("user", "foreign", "A")>>
              [] n = "management-uninstall-arch" ->
                    <<Uninstall("named", {"foreign"}), Lists("user", Refs, {"native"}),
                      Shows("user", "native", "A")>>
              [] n = "management-update-arch" ->
                    <<RemoteEdit("B"), Update("named", {"no-deps", "foreign"}),
                      Shows("user", "foreign", "B"), Shows("user", "native", "A")>>
              [] n = "management-update-kinds" ->
                    <<Install("ext", {}), RemoteEdit("B"), Update("all", {"runtime", "no-deps"}),
                      Shows("user", "ext", "B"), Shows("user", "native", "A"),
                      With("A", Update("ext", {})), Update("all", {"app", "no-deps"}),
                      Shows("user", "native", "B"), Shows("user", "ext", "A")>>
              [] n = "management-update-no-deps" ->
                    <<RemoteEdit("B"), Update("native", {"no-deps"}), Shows("user", "native", "B"),
                      Absent("user", "runtime")>>

remote_options(n) ==
    IF n = "management-remote-properties"
    THEN LET fields == <<"comment", "description", "homepage", "icon">>
             all(v) == Each({Option(fields[i]) : i \in 1..4}, v)
             shown(v) == [i \in 1..4 |-> Fact(Option(fields[i]), v)]
         IN <<Set((Remote :> "server") @@ all("first"))>> \o shown("first")
            \o [i \in 1..4 |-> Set(Option(fields[i]) :> "second")] \o shown("second")
    ELSE LET flag(v) == <<Set(Option("no-enumerate") :> v), Fact(Option("no-enumerate"), v)>>
         IN flag("yes") \o flag("none") \o flag("yes")

\* Both reinstalls are exercised even when the first fails; the failures are
\* judged at the end.
flatpakref_reinstall ==
    LET origin == <<"origin", "user", "app">>
        from(opts) == From("other", Command("install-from", "app", opts))
        again(v) == <<Publish(v), IF v = "A" THEN Unseen({"options"}, Try(from({"reinstall"})))
                                  ELSE Try(from({"reinstall"})), Count("app", v),
                      Shows("user", "runtime", "R"), Lists("user", Refs, {"app", "runtime"}),
                      Same(origin)>>
    IN <<from({})>> \o Fixture("A") \o <<Note(origin)>> \o again("A") \o again("B") \o <<NoFailures>>

remote_dependencies ==
    LET phase(final) ==
            <<RefusedFor("runtime", Install("app", {})), Lists("user", Refs, {}),
              Set(<<"nodeps", "user", "other">> :> "none"), Install("app", {})>> \o Fixture("A") \o
            (IF final THEN <<Unseen({"lies"}, Uninstall("all", {})),
                                Unseen({"lies", "limits"}, Set(<<"nodeps", "user", "other">> :> "yes"))>>
             ELSE <<Uninstall("all", {}), Set(<<"nodeps", "user", "other">> :> "yes")>>)
    IN <<Set((Remote :> "server") @@ (<<"hidden", "user", "fixture", "runtime">> :> "yes")),
         Set((<<"remote", "user", "other">> :> "server") @@ (<<"nodeps", "user", "other">> :> "yes"))>>
       \o phase(FALSE) \o phase(TRUE)

\* Scenarios of remotes and of what may be installed.
before_install(n) ==
    CASE n \in {"management-flatpakref-reinstall", "management-flatpakref-reinstall-http"} ->
            flatpakref_reinstall
      [] n = "management-duplicate-remote-description" ->
            <<Note(Remote), Reject("unavailable description"), Same(Remote),
              With("unavailable", Command("remote-add", "none", {"if-not-exists"})), Same(Remote)>>
      [] n = "management-install-kinds" ->
            <<RefusedFor("runtime", Install("runtime", {"app"})), Lists("user", Refs, {}),
              RefusedFor("app", Install("app", {"runtime"})), Lists("user", Refs, {})>>
      [] n = "management-remote-info-kinds" ->
            <<Reject("runtime"), Lists("user", Refs, {}), Reject("app"), Lists("user", Refs, {})>>
      [] n = "management-remote-gpg" ->
            <<Set(<<"gpg", "user", "fixture">> :> "yes"), RefusedFor("signature", Install("app", {})), Lists("user", Refs, {}),
              Set(<<"gpg", "user", "fixture">> :> "none"), Install("app", {}), Shows("user", "app", "A")>>
      [] n = "management-duplicate-remote" ->
            <<With("wrong", Command("remote-add", "none", {"if-not-exists"})), Fact(Remote, "server")>>
      [] n = "management-flatpakrepo" ->
            <<From("other", RemoteAdd("server")), Fact(<<"remote", "user", "other">>, "server")>>
      [] n \in {"management-filter", "management-filter-replacement"} ->
            LET filter(a, r) == Set((<<"hidden", "user", "fixture", "app">> :> a)
                                    @@ (<<"hidden", "user", "fixture", "runtime">> :> r))
            IN <<filter("yes", "no"), Offers("user", Refs, {"runtime"}), RefusedFor("app", Install("app", {})),
                 Lists("user", Refs, {}), Install("runtime", {}), Shows("user", "runtime", "R")>> \o
               (IF n = "management-filter" THEN <<>>
                ELSE <<filter("no", "yes"), Offers("user", Refs, {"app"})>>)
               \o <<filter("no", "no"), Offers("user", Refs, {"app", "runtime"})>>
      [] n = "management-remote-available" ->
            <<Lists("user", Refs, {}), Offers("user", Refs, {"app", "runtime"}), Offers("user", Apps, {"app"}),
              Offers("user", Runtimes, {"runtime"}), Offers("user", Refs \ ForeignArch, {"app", "runtime"}), Offers("user", {}, {})>>
      [] n = "management-flatpakref" ->
            <<From("other", Command("install-from", "app", {}))>> \o Fixture("A")
      [] n = "management-install-local" ->
            <<Install("app", {"no-deploy"}), Lists("user", Refs, {}), Absent("user", "app"),
              Publish("B"), Install("app", {"no-pull"})>> \o Fixture("A")
      [] n = "management-install-no-deps" ->
            <<Install("app", {"no-deps"}), Shows("user", "app", "A"), Lists("user", Refs, {"app"})>>

\* Scenarios that start from the fixture installed at A.
installed_at_A(n) ==
    CASE n = "management-keep-ref" ->
            <<Uninstall("app", {"keep-ref"}), Absent("user", "app"), Publish("B"),
              Install("app", {"no-pull"}), Shows("user", "app", "A"), Uninstall("app", {}),
              Refused(Install("app", {"no-pull"}))>>
      [] n = "management-uninstall-apps" ->
            <<Refused(Uninstall("runtime", {"app"}))>> \o Fixture("A") \o
            <<Uninstall("app", {"app"}), Lists("user", Refs, {"runtime"}), Shows("user", "runtime", "R")>>
      [] n = "management-uninstall-runtimes" ->
            <<Refused(Uninstall("app", {"runtime"}))>> \o Fixture("A") \o
            <<Uninstall("app", {}), Uninstall("runtime", {"runtime"}), Lists("user", Refs, {})>>
      [] n = "management-installed-queries" ->
            <<Lists("user", Apps, {"app"}), Lists("user", Runtimes, {"runtime"}), Fact(Remote, "server")>>
      [] n = "management-file-access" ->
            LET grant == <<"access", "user">>
            IN <<Fact(grant, "none"), Set(grant :> "ro"), Fact(grant, "ro"),
                 Set(grant :> "rw"), Fact(grant, "rw")>>
      [] n = "management-force-delete" ->
            <<Refused(RemoteDelete({})), RemoteDelete({"force"}), Fact(Remote, "none")>> \o Fixture("A")
      [] n \in {"management-unused", "management-pin"} ->
            LET pin == <<"pin", "user", "runtime">>
                pinned == n = "management-pin"
            IN <<Fact(pin, "none")>>
               \o (IF pinned THEN <<Set(pin :> "yes"), Fact(pin, "yes")>> ELSE <<>>)
               \o <<Uninstall("app", {}), Lists("user", Apps, {}), Shows("user", "runtime", "R"),
                    Uninstall("unused", {})>>
               \o (IF pinned THEN <<Shows("user", "runtime", "R"), Set(pin :> "none"),
                                    Fact(pin, "none"), Uninstall("unused", {})>> ELSE <<>>)
               \o <<Lists("user", Refs, {})>>
      [] n = "management-uninstall-all" -> <<Uninstall("all", {}), Lists("user", Refs, {})>>

\* Scenarios for which B is then published.
published_B(n) == <<Publish("B")>> \o
    CASE n = "management-or-update" -> <<Install("app", {"or-update"}), Shows("user", "app", "B")>>
      [] n = "management-reinstall" -> <<Install("app", {"reinstall"}), Shows("user", "app", "B")>>
      [] n = "management-update-local" ->
            <<Update("app", {"no-pull"}), Shows("user", "app", "A"),
              Update("app", {"no-deploy"}), Shows("user", "app", "A"),
              Env(<<"blocked", "app">> :> "yes"), Update("app", {"no-pull"}), Shows("user", "app", "B")>>
      [] n = "management-commit" ->
            <<Update("app", {}), Shows("user", "app", "B"), With("A", Update("app", {})),
              Shows("user", "app", "A"), Tips("user", "app", "B")>>
      [] n \in {"management-disabled", "management-mask"} ->
            LET k == IF n = "management-mask" THEN <<"mask", "user", "app">> ELSE <<"disabled", "user", "fixture">>
            IN <<Set(k :> "yes"), Fact(k, "yes"), Update("all", {}), Shows("user", "app", "A"),
                 Set(k :> "none")>>
               \o (IF n = "management-mask" THEN <<Fact(k, "none")>> ELSE <<>>)
               \o <<Update("all", {}), Shows("user", "app", "B")>>
      [] n = "management-remote-updates" -> <<Updates({"app"}), Update("all", {}), Updates({})>>
      [] n = "management-remote-info" -> <<Tips("user", "app", "B"), Shows("user", "app", "A")>>
      [] n = "management-remote-log" -> <<Tips("user", "app", "B")>>

RichNames == {"management-install-arch", "management-query-fields", "management-remote-info-arch",
    "management-installed-arch", "management-uninstall-arch", "management-update-arch",
    "management-update-kinds", "management-update-no-deps", "management-update-all",
    "management-update-ambiguous"}
RemoteNames == {"management-remote-properties", "management-remote-enumerate"}
BeforeNames == {"management-flatpakref-reinstall", "management-flatpakref-reinstall-http",
    "management-duplicate-remote-description", "management-install-kinds",
    "management-remote-info-kinds", "management-remote-gpg", "management-duplicate-remote",
    "management-flatpakrepo", "management-filter", "management-filter-replacement",
    "management-remote-available", "management-flatpakref", "management-install-local",
    "management-install-no-deps"}
AtANames == {"management-keep-ref", "management-uninstall-apps", "management-uninstall-runtimes",
    "management-installed-queries", "management-file-access", "management-force-delete",
    "management-unused", "management-pin", "management-uninstall-all"}
AtBNames == {"management-or-update", "management-reinstall", "management-update-local",
    "management-commit", "management-disabled", "management-mask", "management-remote-updates",
    "management-remote-info", "management-remote-log"}
ManagementNames == RichNames \union RemoteNames \union BeforeNames \union AtANames \union AtBNames
    \union {"management-remote-dependencies", "management-config"}

\* Scenarios of a description do not depend on the remote added first.
fixture_remote(n) ==
    IF n \in {"management-flatpakrepo", "management-flatpakref", "management-flatpakref-reinstall",
             "management-flatpakref-reinstall-http"}
    THEN Unseen({"lies"}, RemoteAdd("server")) ELSE RemoteAdd("server")

management_run(n) ==
    CASE n \in RichNames -> rich(n)
      [] n \in RemoteNames -> remote_options(n)
      [] n = "management-remote-dependencies" -> remote_dependencies
      [] n = "management-config" ->
            <<Set(Languages :> "de;fr"), Fact(Languages, "de;fr"),
              Set(Languages :> "ja;en"), Fact(Languages, "ja;en")>>
      [] n \in BeforeNames -> <<fixture_remote(n)>> \o before_install(n)
      [] n \in AtANames -> <<RemoteAdd("server"), Install("app", {})>> \o Fixture("A") \o installed_at_A(n)
      [] n \in AtBNames -> <<RemoteAdd("server"), Install("app", {})>> \o Fixture("A") \o published_B(n)
=============================================================================
