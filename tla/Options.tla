------------------------------ MODULE Options ------------------------------
(***************************************************************************)
(* The option scenarios of queries, remotes, authenticators, selectors and *)
(* preinstallation: query_option, remote_option, remote_metadata_option,   *)
(* remote_auth_option, selection_option and preinstall_option_scenarios.py.*)
(***************************************************************************)
EXTENDS Target

Put(refs, v) == Each({<<"at", "user", r>> : r \in refs}, v)
Fixture(v) == <<Lists("user", Refs, {"app", "runtime"}), Shows("user", "app", v), Shows("user", "runtime", "R")>>
Nothing == Lists("user", Refs, {})
Clear == <<Uninstall("all", {}), Nothing>>
Url(m) == <<"remote", "user", m>>

-----------------------------------------------------------------------------
\* query_option_scenarios.py

\* A cached query answers from the last refresh and sends no request.
cached ==
    LET view == <<"view", "user">>
        shown == <<"shown", "user">>
        sent == <<"requests", "user">>
        quiet == Env((sent :> "none") @@ (shown :> "none"))
        fresh(v) == <<quiet, Set((view :> v) @@ (shown :> v) @@ (sent :> "some")), Fact(shown, v), Fact(sent, "some")>>
        kept(v, now) == <<quiet, When(view :> v, Opt(shown :> v, (view :> now) @@ (shown :> now) @@ (sent :> "some"))),
                          Fact(shown, v), Fact(sent, "none")>>
    IN <<RemoteAdd("server"), quiet, When(Url("fixture") :> "server", Set((view :> "A") @@ (shown :> "A"))), Fact(shown, "A")>>
       \o kept("A", "B") \o fresh("B") \o kept("B", "B") \o kept("B", "A") \o fresh("A") \o kept("A", "A")

\* An extension is hidden unless every ref is asked for; an unrelated one is not listed.
query_installed(n) ==
    CASE n = "query-options-list-all" ->
            <<Install("query", {}), Install("ext", {}), Shows("user", "ext", "A"), Lists("user", Refs \ {"ext"}, {"query", "runtime"}),
              Lists("user", Refs, {"query", "runtime", "ext"}), Lists("user", Refs \ {"ext"}, {"query", "runtime"})>>
      [] n = "query-options-list-details" ->
            <<Install("query", {}), Install("native", {}), Lists("user", Apps, {"query", "native"}),
              Shows("user", "query", "A"), Shows("user", "native", "A")>>
      [] n = "query-options-info-size" ->
            <<Install("query", {}), Shows("user", "query", "A"), Install("second", {}), Shows("user", "second", "A")>>
      [] n = "query-options-info-extensions" ->
            <<Install("query", {}), Install("ext", {}), Install("ext-next", {}), Lists("user", {"query", "ext"}, {"query", "ext"}),
              Shows("user", "ext", "A"), Uninstall("ext", {}), Absent("user", "ext"), Shows("user", "ext-next", "A")>>

query_remote(n) ==
    CASE n \in {"query-options-remote-ls-all", "query-options-app-runtime", "query-options-remote-ls-details"} ->
            <<Offers("user", Refs, {"app", "runtime"}), Offers("user", Apps, {"app"}), Offers("user", {}, {}), Tips("user", "query", "A")>>
      [] n = "query-options-remotes-details" ->
            LET title(v) == <<Set(<<"title", "user">> :> v), Fact(<<"title", "user">>, v), Configured("user", {"fixture", "other"}),
                              Fact(Url("fixture"), "A"), Fact(Url("other"), "B")>>
            IN <<From("other", RemoteAdd("B"))>> \o title("First") \o title("Updated")
      [] n = "query-options-search-columns" ->
            <<Set(<<"appstream", "user">> :> "A"), Fact(<<"appstream", "user">>, "A"), Nothing>>

QueryInstalled == {"query-options-list-all", "query-options-list-details", "query-options-info-size", "query-options-info-extensions"}
QueryRemote == {"query-options-remote-ls-all", "query-options-app-runtime", "query-options-remote-ls-details",
                "query-options-remotes-details", "query-options-search-columns"}
QueryCached == {"query-options-remote-info-cached", "query-options-remote-ls-cached"}

query_run(n) == <<Require>> \o
    (IF n \in QueryCached THEN cached
     ELSE <<IF n = "query-options-search-columns" THEN Unseen({"lies"}, RemoteAdd("A")) ELSE RemoteAdd("A")>>
          \o IF n \in QueryInstalled THEN query_installed(n) ELSE query_remote(n))

-----------------------------------------------------------------------------
\* remote_option_scenarios.py

Untrusted(m) == <<RefusedFor("signature", From(m, Install("app", {}))), Nothing>>
Verified(m, v) == <<"gpg", "user", m>> :> v
Filtered(m, v) == <<"hidden", "user", m, "app">> :> v

\* An imported key makes signed content acceptable and leaves verification on.
gpg_import(adding) ==
    LET chosen == IF adding THEN "other" ELSE "fixture"
    IN <<Set((Url("fixture") :> "A") @@ Verified("fixture", "none")), Set(Verified("fixture", "yes"))>> \o Untrusted("fixture")
       \o <<IF adding THEN Set((Url("other") :> "A") @@ Verified("other", "good"))
            ELSE Opt(Verified("fixture", "good"), <<>>),
            From(chosen, Install("app", {}))>> \o Fixture("A") \o Clear
       \o <<Set((Url(chosen) :> "unsigned") @@ Verified(chosen, "yes"))>> \o Untrusted(chosen)

remote_option_run(n) ==
    CASE n = "remote-options-default-branch" ->
            LET branch(v) == <<"branch", "user">> :> v
                turn(r, v) == <<When(branch(v), Set(Put({r}, "A"))), Lists("user", {"native", "query"}, {r}), Shows("user", r, "A")>> \o Clear
            IN <<Require, Opt((Url("fixture") :> "A") @@ branch("test"), Url("fixture") :> "A")>> \o turn("query", "test")
               \o <<Opt(branch("master"), <<>>)>> \o turn("native", "master")
      [] n = "remote-options-add-disabled" ->
            LET disabled(v) == <<"disabled", "user", "fixture">> :> v
            IN <<Opt((Url("fixture") :> "server") @@ disabled("yes"), Url("fixture") :> "server"), Configured("user", {"fixture"}),
                 Fact(<<"disabled", "user", "fixture">>, "yes"), Unseen({"lies", "limits"}, Set(disabled("none"))), Install("app", {})>> \o Fixture("A")
      [] n = "remote-options-add-filter" ->
            <<Opt((Url("fixture") :> "server") @@ Filtered("fixture", "yes"), Url("fixture") :> "server"), Offers("user", Refs, {"runtime"}),
              RefusedFor("app", Install("app", {})), Nothing, Install("runtime", {}), Lists("user", Refs, {"runtime"}),
              Set(Filtered("fixture", "none")), Install("app", {})>> \o Fixture("A")
      [] n = "remote-options-add-no-gpg-verify" ->
            <<Attempt((Url("other") :> "server") @@ Verified("other", "yes"))>> \o IfOk(Untrusted("other")) \o IfRefused(<<Nothing>>)
            \o <<Opt(Url("fixture") :> "server", (Url("fixture") :> "server") @@ Verified("fixture", "yes")), Install("app", {})>> \o Fixture("A")
      [] n = "remote-options-add-gpg-import" -> <<Require>> \o gpg_import(TRUE)
      [] n = "remote-options-modify-gpg-import" -> <<Require>> \o gpg_import(FALSE)

-----------------------------------------------------------------------------
\* remote_metadata_option_scenarios.py

\* An absent subset hides every ref.
subset(adding) ==
    LET key == <<"subset", "user">>
        chosen == (key :> "missing") @@ Filtered("fixture", "yes")
    IN (IF adding THEN <<Opt((Url("fixture") :> "server") @@ chosen, Url("fixture") :> "server")>>
        ELSE <<RemoteAdd("server"), Offers("user", Refs, {"app", "runtime"}), Opt(chosen, <<>>)>>)
       \o <<Fact(key, "missing"), Refused(Install("app", {})), Nothing, Set((key :> "none") @@ Filtered("fixture", "none")),
            Install("app", {})>> \o Fixture("A")

collection ==
    LET key == <<"collection", "user">>
        choose(v) == <<Set(key :> v), Fact(key, v)>>
    IN <<Require, RemoteAdd("A")>> \o choose("selected") \o choose("signed")
       \o <<Unseen({"lies"}, Set(Verified("fixture", "good"))), Install("app", {})>> \o Fixture("A")

\* Metadata changes only when its update is asked for.
metadata_update ==
    LET title == <<"title", "user">>
    IN <<Blamed, Set((Url("fixture") :> "server") @@ (title :> "A")), Fact(title, "A"), Publish("B"), Set(<<>>), Fact(title, "A"),
         Opt(title :> "B", <<>>), Fact(title, "B"), Nothing>>

\* Whether the redirection of the summary is followed, and then kept; ostree writes it.
redirect(n) ==
    LET policy == <<"redirect", "user">>
        refresh(url) == When(policy :> "no", Opt(<<>>, Url("fixture") :> url))
        end(url) == <<Fact(Url("fixture"), url), Install("app", {})>> \o Fixture(IF url = "B" THEN "B" ELSE "A")
    IN CASE n = "remote-metadata-build-redirect" ->
                <<Set(<<"published", "redirect">> :> "B"), When(<<"published", "redirect">> :> "B", Set(Url("fixture") :> "B"))>> \o end("B")
         [] n = "remote-metadata-add-no-redirect" -> <<Blamed, Opt(Url("fixture") :> "server", Url("fixture") :> "B")>> \o end("server")
         [] n = "remote-metadata-modify-no-redirect" ->
                <<Blamed, RemoteAdd("server"), Opt(policy :> "no", <<>>), refresh("server")>> \o end("server")
         [] n = "remote-metadata-follow-redirect" ->
                <<Blamed, RemoteAdd("server"), Set(policy :> "no"), refresh("server"), Fact(Url("fixture"), "server"), Opt(policy :> "yes", <<>>),
                  When(policy :> "yes", Opt(Url("fixture") :> "B", <<>>))>> \o end("B")

MetadataNames == {"remote-metadata-subset-add", "remote-metadata-subset-modify", "remote-metadata-collection",
    "remote-metadata-update", "remote-metadata-build-redirect", "remote-metadata-add-no-redirect",
    "remote-metadata-modify-no-redirect", "remote-metadata-follow-redirect"}

metadata_run(n) ==
    CASE n = "remote-metadata-subset-add" -> subset(TRUE)
      [] n = "remote-metadata-subset-modify" -> subset(FALSE)
      [] n = "remote-metadata-collection" -> collection
      [] n = "remote-metadata-update" -> metadata_update
      [] OTHER -> redirect(n)

-----------------------------------------------------------------------------
\* remote_auth_option_scenarios.py

\* The protected payload is asked for only with a token; the authenticator itself is
\* installed only where that is allowed.
Protected(v) == <<"protected", "user">> :> v
Authenticator(v) == <<"authenticator", "user">> :> v
fresh_remote(f) == When(Url("fixture") :> "none", f)
delete == When(Url("fixture") :> "A", Set(Url("fixture") :> "none"))
configure(adding, who, unseen) ==
    IF adding THEN <<Unseen(unseen, fresh_remote(Opt((Url("fixture") :> "A") @@ Authenticator(who), Url("fixture") :> "A")))>>
    ELSE <<fresh_remote(Set((Url("fixture") :> "A") @@ Authenticator("absent"))),
           Unseen(unseen, When(Url("fixture") :> "A", Opt(Authenticator(who), <<>>)))>>

\* The installation fails for want of a service either way, so an option that is ignored
\* shows only where it must install the authenticator.
autoinstall(adding) ==
    LET turn(enabled) ==
            LET chosen == IF enabled THEN "automatic" ELSE "candidate"
                installed == IF enabled THEN {"native"} ELSE {}
            IN configure(adding, chosen, IF enabled THEN {} ELSE IF adding THEN {"options"} ELSE {"options", "lies"})
               \o <<When(Authenticator(chosen), Failing(Put(installed, "A"))), Lists("user", {"native"}, installed),
                    Fact(<<"protected", "user">>, "none")>>
               \o (IF enabled THEN Clear ELSE <<>>)
    IN turn(FALSE) \o <<delete>> \o turn(TRUE) \o <<Unseen({"lies"}, delete)>>

authenticated(adding) ==
    <<RemoteAdd("A"), ForbidAny(Put({"app"}, "A")), Nothing, delete>> \o configure(adding, "selected", {}) \o <<Blamed,
      When(Authenticator("selected"), Set(Put({"app"}, "A") @@ Protected("authorized"))), Lists("user", Refs, {"app"}),
      Shows("user", "app", "A"), Fact(<<"protected", "user">>, "authorized")>>

-----------------------------------------------------------------------------
\* selection_option_scenarios.py

SCOPES == <<"system", "alt", "user">>
Each3(op(_)) == ForAll(SCOPES, op)
own(s) == In(s, From("other", RemoteAdd(s)))

selection_run(n) == Namespace(Guarded(
    CASE n = "selection-options-repair" ->
            LET kept(s) == <<Lists(s, Refs, {}), Configured(s, {"other"})>>
            IN Each3(LAMBDA s : <<own(s)>>)
               \o Each3(LAMBDA s : <<In(s, Set(<<"repaired", s>> :> "yes")), Fact(<<"repaired", s>>, "yes")>> \o Each3(kept))
               \o <<From("other", Reject("installation"))>>
      [] n = "selection-options-make-current" ->
            LET current(s) == <<"current", s>>
                make(s, v) == In(s, Set(current(s) :> v))
                prepared(s) == <<In(s, RemoteAdd("A")), In(s, Install("native", {})), In(s, Install("query", {})),
                                 make(s, "master")>>
                chosen(s) == <<Fact(current(s), "master"), Shows(s, "native", "A"), Shows(s, "query", "A")>>
                turn(s) == <<make(s, "test")>> \o Each3(LAMBDA o : <<Fact(current(o), IF o = s THEN "test" ELSE "master")>>)
                           \o <<make(s, "master"), Fact(current(s), "master")>>
            IN <<Require>> \o Each3(prepared) \o Each3(chosen) \o Each3(turn)
      [] n = "selection-options-search" ->
            LET catalogue(s) == IF s = "alt" THEN "B" ELSE "A"
                found(s) == <<"appstream", s>>
            IN <<Require>> \o Each3(LAMBDA s : <<own(s), When(<<"remote", s, "other">> :> s, In(s, Set(found(s) :> catalogue(s))))>>)
               \o Each3(LAMBDA s : <<Fact(found(s), catalogue(s)), Lists(s, Refs, {})>>)))

-----------------------------------------------------------------------------
\* preinstall_option_scenarios.py

Wanted == <<"one", "platform", "extension", "shared", "sdk", "one debug", "platform debug", "sdk debug">>
base == {"one", "platform", "extension", "shared"}
expected(S) == Exactly(Wanted, LAMBDA r : <<"at", "user", r>>, S, "A")
synchronize(S) == When(Url("fixture") :> "A", Opt(Put(S, "A"), Put(base, "A")))

\* The vendor's removal is no opt-out: the next variant starts from the same definition.
remove(S) == <<Unseen({"lies"}, Set(Put({"one"}, "none"))), Set(Put(S, "none"))>> \o expected({})

preinstall_run(n) == <<Require, RemoteAdd("A")>> \o
    CASE n = "preinstall-options-includes" ->
            LET added(f) == (IF f[1] THEN {"sdk"} ELSE {}) \union (IF f[2] THEN {"one debug", "platform debug"} ELSE {})
                            \union (IF f = <<TRUE, TRUE>> THEN {"sdk debug"} ELSE {})
                turn(f) == <<synchronize(base \union added(f))>> \o expected(base \union added(f)) \o remove(base \union added(f))
            IN ForAll(<<<<FALSE, FALSE>>, <<TRUE, FALSE>>, <<FALSE, TRUE>>, <<TRUE, TRUE>>>>, turn)
      [] n = "preinstall-options-dependencies" ->
            LET turn(S) == <<synchronize(S)>> \o expected(S) \o remove(S)
            IN turn({"one", "shared"}) \o turn({"one", "platform"}) \o <<synchronize(base)>> \o expected(base)
      [] n = "preinstall-options-confirmation" ->
            LET turn == <<Reject("confirmation")>> \o expected({}) \o <<synchronize(base)>> \o expected(base) \o remove(base)
            IN turn \o turn
      [] n = "preinstall-options-no-pull" ->
            <<Attempt(<<>>)>> \o expected({}) \o <<synchronize(base)>> \o expected(base)
      [] n = "preinstall-options-reinstall" ->
            LET marker == <<"files", "user", "one">>
            IN <<synchronize(base)>> \o expected(base) \o <<Env(marker :> "damaged"), Set(<<>>), Fact(marker, "damaged"),
                 Opt(marker :> "restored", <<>>)>> \o expected(base) \o <<Fact(marker, "restored")>>

RemoteOptionNames == {"remote-options-default-branch", "remote-options-add-disabled", "remote-options-add-filter",
    "remote-options-add-no-gpg-verify", "remote-options-add-gpg-import", "remote-options-modify-gpg-import"}
AuthNames == {"remote-auth-options-add", "remote-auth-options-modify", "remote-auth-autoinstall-add",
    "remote-auth-autoinstall-modify"}
SelectionNames == {"selection-options-repair", "selection-options-make-current", "selection-options-search"}
PreinstallNames == {"preinstall-options-includes", "preinstall-options-dependencies", "preinstall-options-confirmation",
    "preinstall-options-no-pull", "preinstall-options-reinstall"}
QueryNames == QueryInstalled \union QueryRemote \union QueryCached

auth_run(n) == <<Require>> \o
    CASE n = "remote-auth-options-add" -> authenticated(TRUE)
      [] n = "remote-auth-options-modify" -> authenticated(FALSE)
      [] n = "remote-auth-autoinstall-add" -> <<Require>> \o autoinstall(TRUE)
      [] n = "remote-auth-autoinstall-modify" -> <<Require>> \o autoinstall(FALSE)

Names == QueryNames \union RemoteOptionNames \union MetadataNames \union AuthNames \union SelectionNames
    \union PreinstallNames
run(n) ==
    CASE n \in QueryNames -> query_run(n)
      [] n \in RemoteOptionNames -> remote_option_run(n)
      [] n \in MetadataNames -> metadata_run(n)
      [] n \in AuthNames -> auth_run(n)
      [] n \in SelectionNames -> selection_run(n)
      [] n \in PreinstallNames -> preinstall_run(n)
=============================================================================
