----------------------------- MODULE Contracts -----------------------------
(***************************************************************************)
(* six_contract_scenarios.py, transaction_contract_scenarios.py and        *)
(* install_option_scenarios.py: what a transaction adds to what was asked  *)
(* for (SDK, debug, related refs, subpaths), its reported causes, data     *)
(* migration and trust.  Every variant has an installation of its own.     *)
(***************************************************************************)
EXTENDS Target

Put(path, refs, v) == Each({<<"at", path, r>> : r \in refs}, v)
Url(path) == <<"remote", path, "fixture">>
setup(path) == Set(Url(path) :> "A")
switch(path, v) == Set(Url(path) :> v)
On(path, v, c) == When(Url(path) :> v, c)

-----------------------------------------------------------------------------
\* six_contract_scenarios.py

ContractRefs == <<"one", "two", "platform", "extension", "shared", "sdk", "one debug", "two debug",
                  "platform debug", "sdk debug">>
dependencies == {"platform", "extension", "shared"}
apps == {"one", "two"}

\* What the flags add to the installation of an application.
selection(app, sdk, debug) ==
    {app} \union dependencies \union (IF sdk THEN {"sdk"} ELSE {})
    \union (IF debug THEN {app \o " debug", "platform debug"} ELSE {})
    \union (IF sdk /\ debug THEN {"sdk debug"} ELSE {})
Flags == <<<<FALSE, FALSE>>, <<TRUE, FALSE>>, <<FALSE, TRUE>>, <<TRUE, TRUE>>>>

state(path, S, v) == Exactly(ContractRefs, LAMBDA r : <<"at", path, r>>, S, v)
deployed(path, S, v) == [i \in DOMAIN state(path, S, v) |-> Observed(state(path, S, v)[i])]

auto_sdk_debug ==
    LET base == selection("one", FALSE, FALSE)
        full == selection("one", TRUE, TRUE)
        fresh(f) == LET path == "auto" \o (IF f[1] THEN " sdk" ELSE "") \o (IF f[2] THEN " debug" ELSE "")
                        S == selection("one", f[1], f[2])
                    IN <<setup(path), On(path, "A", Opt(Put(path, S, "A"), Put(path, base, "A")))>>
                       \o deployed(path, S, "A")
        installed(path) == <<setup(path), On(path, "A", Set(Put(path, base, "A")))>> \o deployed(path, base, "A")
    IN ForAll(Flags, fresh)
       \o installed("update") \o <<Opt(Put("update", full, "A"), <<>>)>> \o deployed("update", full, "A")
       \o installed("uninstall") \o <<Set(Put("uninstall", {"one"}, "none"))>>
       \o deployed("uninstall", dependencies, "A") \o <<NoFailures>>

\* A skipped application is still the cause of its runtime's update.
operation_causes ==
    LET path == "causes"
        cause(r) == <<"cause", path, r>>
        causes(of, v) == Each({cause(r) : r \in of}, v)
    IN <<setup(path),
         On(path, "A", Set(Put(path, apps \union dependencies, "A") @@ causes({"platform", "shared"}, "apps")
                           @@ causes({"extension"}, "platform")))>>
       \o ForAll(<<"platform", "shared">>, LAMBDA r : <<Observed(Fact(cause(r), "apps"))>>)
       \o <<Observed(Fact(cause("extension"), "platform")), Observed(Fact(cause("one"), "none")),
            Observed(Fact(cause("two"), "none"))>> \o deployed(path, apps \union dependencies, "A")
       \o <<switch(path, "RUNTIME"),
            On(path, "RUNTIME", Set(Put(path, {"platform"}, "RUNTIME") @@ causes({"platform"}, "skipped apps"))),
            Observed(Fact(cause("platform"), "skipped apps")), Observed(Fact(<<"at", path, "one">>, "A")),
            Observed(Fact(<<"at", path, "platform">>, "RUNTIME")), NoFailures>>

\* Applications are listed for update when only a dependency is missing or has changed.
missing_dependencies ==
    LET updates(path) == <<"updates", path>>
        all == apps \union dependencies
        turn(path) ==
            LET switched == path \in {"RUNTIME", "EXTENSION"}
                S == apps \union (IF path = "runtime-missing" THEN {} ELSE {"platform"})
                     \union (IF switched THEN {"extension", "shared"} ELSE {})
                complete == Put(path, all, "A") @@ (updates(path) :> "none")
                install == Put(path, S, "A") @@ (updates(path) :> IF switched THEN "none" ELSE "apps")
                changed == IF path = "RUNTIME" THEN "platform" ELSE "extension"
                update == Put(path, all \ S, "A") @@ (updates(path) :> "none")
                          @@ (IF switched THEN Put(path, {changed}, path) ELSE <<>>)
            IN <<setup(path), On(path, "A", Opt(install, complete))>> \o deployed(path, S, "A") \o
               (IF switched THEN <<Fact(updates(path), "none"),
                                   Set((Url(path) :> path) @@ (updates(path) :> "apps"))>> ELSE <<>>)
               \o <<Observed(Fact(updates(path), "apps")), Set(update)>>
               \o (IF switched THEN <<Observed(Fact(<<"at", path, changed>>, path))>> ELSE deployed(path, all, "A"))
               \o <<Observed(Fact(updates(path), "none"))>>
    IN ForAll(<<"runtime-missing", "related-missing", "RUNTIME", "EXTENSION">>, turn) \o <<NoFailures>>

\* A rebase carries the data of the old application over; an installation does not.
rebase_migration ==
    LET data(path, a) == <<"data", path, a>>
        turn(path) ==
            LET both == Put(path, apps \union dependencies, "A")
                rebase == both @@ (data(path, "two") :> "marker")
                version == IF path = "changed-update" THEN "APP" ELSE "A"
            IN <<setup(path), On(path, "A", Set(Put(path, selection("one", FALSE, FALSE), "A"))),
                 When(<<"at", path, "one">> :> "A", Set(data(path, "one") :> "marker")), Fact(data(path, "one"), "marker")>>
               \o (IF path \in {"update", "changed-update"} THEN <<Unseen({"lies"}, Set(Put(path, {"two"}, "A")))>> ELSE <<>>)
               \o (IF path = "changed-update" THEN <<switch(path, "APP")>> ELSE <<>>)
               \o <<IF path = "ordinary-control" THEN Set(both)
                    ELSE On(path, version, Opt(Put(path, {"one", "two"}, version) @@ rebase, both))>>
               \o ForAll(<<"one", "two">>, LAMBDA r : <<Observed(Fact(<<"at", path, r>>, version))>>)
               \o <<Observed(Fact(data(path, "two"), IF path = "ordinary-control" THEN "none" ELSE "marker"))>>
    IN ForAll(<<"install", "update", "changed-update", "ordinary-control">>, turn) \o <<NoFailures>>

\* Clearing one property of a remote keeps the other, and the deployments.
remote_branch_collection ==
    LET path == "signed"
        branch == <<"branch", path>>
        collection == <<"collection", path>>
        signed == <<Fact(<<"at", path, "app">>, "A"), Fact(<<"at", path, "runtime">>, "A")>>
        both == (branch :> "yes") @@ (collection :> "yes")
        populated == <<Fact(branch, "yes"), Fact(collection, "yes")>>
        clear(f) == <<Set(both)>> \o populated \o
            <<Set((IF f[1] THEN branch :> "none" ELSE <<>>) @@ (IF f[2] THEN collection :> "none" ELSE <<>>)),
              Observed(Fact(branch, IF f[1] THEN "none" ELSE "yes")),
              Observed(Fact(collection, IF f[2] THEN "none" ELSE "yes"))>> \o signed
    IN <<Require, Set((Url(path) :> "A") @@ both)>> \o populated \o
       <<On(path, "A", Set(Put(path, {"app", "runtime"}, "A")))>> \o signed \o
       ForAll(<<<<TRUE, FALSE>>, <<FALSE, TRUE>>, <<TRUE, TRUE>>>>, clear) \o <<NoFailures>>

\* Only content signed by a key the remote has is deployed.
remote_trusted_key ==
    LET verified(path) == <<"gpg", path, "fixture">>
        turn(path) ==
            <<Set((Url(path) :> "A") @@ (verified(path) :> IF path = "trusted" THEN "good" ELSE "yes")),
              Fact(verified(path), IF path = "trusted" THEN "good" ELSE "yes"), Lists(path, Refs, {})>> \o
            IF path = "trusted"
            THEN <<In(path, Install("app", {})), Shows(path, "app", "A"), Shows(path, "runtime", "R")>>
            ELSE <<RefusedFor("signature", In(path, Install("app", {}))), Lists(path, Refs, {})>>
    IN <<Require>> \o ForAll(<<"trusted", "missing-key", "unsigned">>, turn)

-----------------------------------------------------------------------------
\* transaction_contract_scenarios.py

contract_setup(path, language) == <<setup(path), Set(<<"languages", path>> :> language)>>
unread_setup(path) == <<setup(path), Unseen({"lies"}, Set(<<"languages", path>> :> "fr"))>>
Files(path, S) == Each({<<"file", path, f>> : f \in S}, "yes")
payloads(path, list, S) == Exactly(list, LAMBDA f : <<"file", path, f>>, S, "yes")
Partial == <<"bin", "extra">>

install_subpaths ==
    LET turn(path) ==
            LET S == IF path = "/bin" THEN {"bin"} ELSE {"bin", "extra"}
            IN unread_setup(path) \o <<On(path, "A", Opt(Files(path, S), Files(path, {"bin", "extra"})))>>
               \o payloads(path, Partial, S)
    IN ForAll(<<"/bin", "null", "empty">>, turn)

update_subpaths_all ==
    LET turn(path) == unread_setup(path) \o
            <<On(path, "A", Opt(Files(path, {"bin"}), Files(path, {"bin", "extra"})))>> \o payloads(path, Partial, {"bin"})
            \o <<Opt(Files(path, {"bin", "extra"}), <<>>)>> \o payloads(path, Partial, {"bin", "extra"})
    IN ForAll(<<"empty", "empty-string">>, turn)

\* An update adds what the languages now ask for to what was chosen.
update_subpaths_default ==
    LET path == "languages"
        all == <<"de", "fr", "ja", "es">>
        update(l) == When(<<"languages", path>> :> l, Set(Files(path, {l})))
    IN contract_setup(path, "fr") \o <<On(path, "A", Opt(Files(path, {"ja"}), Files(path, {"fr"})))>>
       \o payloads(path, all, {"ja"}) \o <<update("fr")>> \o payloads(path, all, {"ja", "fr"})
       \o <<Set(<<"languages", path>> :> "de"), update("de")>> \o payloads(path, all, {"ja", "fr", "de"})

disable_related ==
    LET refs == <<"selected", "runtime", "locale">>
        all == {"selected", "runtime", "locale"}
        turn(path) ==
            LET S == IF path = "disabled" THEN all \ {"locale"} ELSE all
            IN unread_setup(path) \o <<On(path, "A", Opt(Put(path, S, "A"), Put(path, all, "A")))>>
               \o Exactly(refs, LAMBDA r : <<"at", path, r>>, S, "A")
    IN ForAll(<<"disabled", "enabled">>, turn)

\* A runtime of the extra source is not installed a second time.
extra_dependency_source ==
    LET shown(path, S) == Exactly(<<"app", "runtime">>, LAMBDA r : <<"at", path, r>>, S, "A")
        turn(path) ==
            LET S == IF path = "dependent" THEN {"app"} ELSE {"app", "runtime"}
            IN unread_setup(path)
               \o <<On(path, "A", Opt(Put(path, S, "A"), Put(path, {"app", "runtime"}, "A")))>>
               \o shown(path, S) \o shown("dependency", {"runtime"})
    IN unread_setup("dependency") \o <<On("dependency", "A", Set(Put("dependency", {"runtime"}, "A")))>>
       \o ForAll(<<"dependent", "independent">>, turn)

file_uri_origin ==
    LET ref == <<"at", "file-origin", "ext">>
        origin == <<"origin", "file-origin", "ext">>
    IN <<Fact(ref, "none"), Set((ref :> "A") @@ (origin :> "uri")), Fact(ref, "A"), Fact(origin, "uri")>>

\* Each operation reports what it is and the origin it concerns.
operation_identity ==
    LET path == "identity"
        query == <<"at", path, "query">>
        origin == <<"origin", path, "query">>
        op(kind, v, from) == Set((query :> v) @@ (<<"op", path>> :> kind) @@ (origin :> from))
        identity(kind, v, from) == <<Fact(<<"op", path>>, kind), Fact(query, v), Fact(origin, from)>>
    IN unread_setup(path) \o <<On(path, "A", op("install", "A", "fixture"))>> \o identity("install", "A", "fixture")
       \o <<switch(path, "B"), On(path, "B", op("update", "B", "fixture"))>> \o identity("update", "B", "fixture")
       \o <<op("uninstall", "none", "fixture")>> \o identity("uninstall", "none", "fixture")
       \o <<op("install-bundle", "A", "bundle")>> \o identity("install-bundle", "A", "bundle")

-----------------------------------------------------------------------------
\* install_option_scenarios.py

clear(S) == <<Set(Put("user", S, "none"))>> \o state("user", {}, "none")

\* The inclusion options imply an update of an installed application.
includes(mode) ==
    LET app == IF mode = "fresh" THEN "one" ELSE "two"
        base == selection(app, FALSE, FALSE)
        turn(f) ==
            LET S == selection(app, f[1], f[2])
                moved == mode = "update" /\ f # <<FALSE, FALSE>>
                result == (IF moved THEN <<"at", "user", app>> :> "APP" ELSE <<>>) @@ Put("user", S, "A")
                fresh == IF mode = "fresh" THEN Put("user", base, "A") ELSE <<>>
            IN state("user", {}, "none") \o
               (IF mode = "fresh" THEN <<>>
                ELSE <<RemoteEdit("A"), On("user", "A", Set(Put("user", base, "A")))>> \o state("user", base, "A"))
               \o (IF mode # "update" THEN <<>>
                   ELSE <<IF f = <<FALSE, FALSE>> THEN Unseen({"lies"}, RemoteEdit("APP"))
                          ELSE RemoteEdit("APP")>>)
               \o <<IF moved THEN On("user", "APP", Opt(result, fresh))
                    ELSE IF mode = "fresh" THEN On("user", "A", Opt(result, fresh)) ELSE Opt(result, fresh)>>
               \o (IF moved THEN <<Fact(<<"at", "user", app>>, "APP")>> \o
                                 Exactly(SelectSeq(ContractRefs, LAMBDA r : r # app),
                                         LAMBDA r : <<"at", "user", r>>, S, "A")
                   ELSE state("user", S, "A"))
               \o clear(S)
    IN <<Require, RemoteAdd("A")>> \o ForAll(Flags, turn)

\* The chosen subset survives a later update that does not name it.
subpaths(update) ==
    LET ext == <<"at", "user", "ext">>
        files(S) == [k \in {<<"file", "user", f>> : f \in {"bin", "extra"}} |-> IF k[3] \in S THEN "yes" ELSE "none"]
        shown(v, S) == <<Fact(ext, v)>> \o payloads("user", Partial, S)
        deploy(v, S, otherwise) == Opt((ext :> v) @@ files(S), (ext :> v) @@ files(otherwise))
        gone == <<Set((ext :> "none") @@ files({})), Fact(ext, "none")>>
        all == {"bin", "extra"}
        install(S) == <<Fact(ext, "none"), On("user", "A", deploy("A", S, all))>> \o shown("A", S) \o gone
        turn(S) == <<Fact(ext, "none"), RemoteEdit("A"), On("user", "A", deploy("A", {"bin"}, all))>>
            \o shown("A", {"bin"}) \o <<RemoteEdit("B"), On("user", "B", deploy("B", S, {"bin"}))>> \o shown("B", S)
            \o <<deploy("A", S, S)>> \o shown("A", S) \o gone
    IN <<Require, RemoteAdd("A")>> \o
       IF update THEN ForAll(<<{"bin"}, {"extra"}, all>>, turn) ELSE ForAll(<<{"bin"}, {"extra"}, all, all>>, install)

PreparedNames == {"tx-auto-sdk-debug", "tx-operation-causes", "query-missing-dependencies", "tx-rebase-migration",
    "tx-install-subpaths", "tx-update-subpaths-all", "tx-update-subpaths-default", "tx-disable-related",
    "tx-extra-dependency-source", "tx-file-uri-origin", "tx-operation-identity"}
Names == PreparedNames \union {"remote-branch-collection", "remote-trusted-key", "install-options-sdk-debug",
    "install-options-sdk-debug-current", "install-options-sdk-debug-existing", "install-options-subpath",
    "update-options-subpath"}

run(n) ==
    CASE n \in PreparedNames -> <<Require>> \o
           (CASE n = "tx-auto-sdk-debug" -> auto_sdk_debug
              [] n = "tx-operation-causes" -> operation_causes
              [] n = "query-missing-dependencies" -> missing_dependencies
              [] n = "tx-rebase-migration" -> rebase_migration
              [] n = "tx-install-subpaths" -> install_subpaths
              [] n = "tx-update-subpaths-all" -> update_subpaths_all
              [] n = "tx-update-subpaths-default" -> update_subpaths_default
              [] n = "tx-disable-related" -> disable_related
              [] n = "tx-extra-dependency-source" -> extra_dependency_source
              [] n = "tx-file-uri-origin" -> file_uri_origin
              [] n = "tx-operation-identity" -> operation_identity)
      [] n = "remote-branch-collection" -> remote_branch_collection
      [] n = "remote-trusted-key" -> remote_trusted_key
      [] n = "install-options-sdk-debug" -> includes("fresh")
      [] n = "install-options-sdk-debug-current" -> includes("current")
      [] n = "install-options-sdk-debug-existing" -> includes("update")
      [] n = "install-options-subpath" -> subpaths(FALSE)
      [] n = "update-options-subpath" -> subpaths(TRUE)
=============================================================================
