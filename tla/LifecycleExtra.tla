--------------------------- MODULE LifecycleExtra ---------------------------
(***************************************************************************)
(* lifecycle_extra_scenarios.py: pulled and pruned objects, bundles, images,*)
(* sideloads, monitors, triggers and running applications.  What the       *)
(* library client asserts of its own calls is a query after the command.   *)
(***************************************************************************)
EXTENDS Target

Fixture == <<RemoteAdd("A"), Unseen({"lies"}, Install("runtime", {}))>>
Deploy(r, v) == Set(<<"at", "user", r>> :> v)
Payload(v) == Fact(<<"env", "payload">>, v)
Watched == Env(<<"env", "payload">> :> "none")
Payloads(r, on) == Env(<<"blocked", r>> :> IF on THEN "none" ELSE "yes")

\* An instance is launched, seen running, and gone once it is killed.
Running(r) == <<"running", "user", r>>
Launch(r) == <<Set((Running(r) :> "yes") @@ (<<"files", "user", r>> :> "kept")), Fact(Running(r), "yes")>>
Kill(r) == <<Set(Running(r) :> "none"), Fact(Running(r), "none")>>

runtime_instance == Fixture \o Launch("runtime") \o <<Shows("user", "runtime", "R")>> \o Kill("runtime")

bundles(n) == <<Require>> \o Fixture \o
    IF n = "lifex-direct-bundle"
    THEN <<Deploy("query", "A"), Shows("user", "query", "A"), Reject("installed"), Shows("user", "query", "A")>>
    ELSE <<Reject("invalid"), Absent("user", "query"), Reject("invalid"), Absent("user", "query"),
           Shows("user", "runtime", "R")>>

\* The remote of the first import is removed before the key is given explicitly.
signed_bundle ==
    LET origin == <<"remote", "user", "other">>
        import == When(<<"at", "user", "app">> :> "none", Set((<<"at", "user", "app">> :> "B") @@ (origin :> "server")))
    IN <<Require>> \o Fixture \o
       <<import, Shows("user", "app", "B"), Uninstall("app", {}), Unseen({"lies"}, Set(origin :> "none")),
         import, Shows("user", "app", "B")>>

\* The second image replaces the first and keeps its origin.
image ==
    LET origin == <<"remote", "user", "other">>
    IN <<Require>> \o Fixture \o
       <<Set((<<"at", "user", "app">> :> "A") @@ (origin :> "image")), Shows("user", "app", "A"), Note(origin),
         Configured("user", {"fixture", "other"}), Opt(<<"at", "user", "app">> :> "B", <<>>), Shows("user", "app", "B"),
         Same(origin), Configured("user", {"fixture", "other"})>>

sideload_image == <<Require>> \o Fixture \o
    <<From("other", RemoteAdd("empty")),
      When(<<"remote", "user", "other">> :> "empty", Opt(<<"at", "user", "app">> :> "A", <<>>)), Shows("user", "app", "A")>>

sideload(n) ==
    IF n # "lifex-sideload-install"
    THEN <<Require, RemoteAdd("A"), Env(<<"sideload", "user">> :> "app"), Offers("user", Refs, {"app", "runtime"}),
           Fact(<<"sideload", "user">>, "app")>>
    ELSE <<Require, RemoteAdd("A"), Unseen({"lies"}, Install("runtime", {})), Watched, Payloads("app", FALSE),
           Opt(<<"at", "user", "app">> :> "A", <<"env", "payload">> :> "denied"), Shows("user", "app", "A"), Payload("none")>>

\* What is unused or pinned, of every, of the native, and of the foreign architecture.
unused_pinned ==
    LET pin(x) == <<"pin", "user", x>>
        at(x) == <<"at", "user", x>>
        usage == {"usage app", "sdk", "extension"}
        policy == {"unused", "pinned"}
        unpin(x) == Set(pin(x) :> "none")
        shown(x, v) == Fact(pin(x), v)
        asked == <<shown("unused", "none"), shown("pinned", "yes"), shown("foreign", "yes"), shown("sdk", "none"),
                   shown("extension", "none"), Fact(at("usage app"), "A"), Fact(at("sdk"), "A"),
                   Fact(at("unused"), "A"), Fact(at("pinned"), "A"), Fact(at("foreign"), "A")>>
    IN <<Require, RemoteAdd("A"),
         When(<<"remote", "user", "fixture">> :> "A",
              Set(Each({at(x) : x \in usage}, "A") @@ Each({pin(x) : x \in usage \ {"usage app"}}, "yes"))),
         unpin("sdk"), unpin("extension"), From("other", RemoteAdd("policy")),
         When(<<"remote", "user", "other">> :> "policy",
              Set(Each({at(x) : x \in policy}, "A") @@ Each({pin(x) : x \in policy}, "yes"))), unpin("unused"),
         Set(at("foreign") :> "A"), Set(pin("foreign") :> "yes")>> \o asked

\* Every change of the installation is noticed by a monitor made before it.
monitor ==
    LET noticed == <<"env", "changed">>
        change(v, url) ==
            <<Env(noticed :> "none"),
              When(<<"remote", "user", "fixture">> :> url, Set((<<"at", "user", "app">> :> v) @@ (noticed :> "yes"))),
              Shows("user", "app", v), Fact(noticed, "yes")>>
    IN Fixture \o change("A", "A") \o <<RemoteEdit("B")>> \o change("B", "B") \o change("none", "B")

\* The files of a running application survive its removal, unless it is forced.
force_uninstall ==
    LET files == <<"files", "user", "app">>
        at == <<"at", "user", "app">>
        turn(force) ==
            <<Install("app", {}), Shows("user", "app", "A")>> \o Launch("app") \o
            <<IF force THEN Opt((at :> "none") @@ (files :> "none"), at :> "none") ELSE Set(at :> "none"),
              Absent("user", "app"), Fact(files, IF force THEN "none" ELSE "kept")>> \o Kill("app")
    IN <<RemoteAdd("A")>> \o turn(FALSE) \o turn(TRUE)

appdata == <<Require, RemoteAdd("A"), Install("query", {}), Shows("user", "query", "A"),
             Install("second", {}), Shows("user", "second", "A")>>

eol ==
    LET next(v) == <<RemoteEdit(v), Update("first", {}), Shows("user", "first", v), Tips("user", "first", v)>>
    IN <<Require, RemoteAdd("A"), Install("first", {}), Shows("user", "first", "A")>> \o next("EOL") \o next("REBASE")

\* The local reference of a pulled ref, removed or cleaned up.
Local == <<Install("second", {"no-pull"}), Shows("user", "second", "A")>>
NoLocal == <<Refused(Install("second", {"no-pull"})), Absent("user", "second")>>
Remove == Set(<<"cache", "user", "second">> :> "none")
Protected == <<Reject("deployed"), Shows("user", "query", "A")>>
Kept == <<Shows("user", "query", "A"), Shows("user", "runtime", "R")>>

transaction_pruning ==
    LET orphan == <<"objects", "user", "second">>
        update == <<"at", "user", "query">> :> "B"
        from_A(c) == When(<<"at", "user", "query">> :> "A", c)
        turn(disabled) ==
            <<Payloads("second", TRUE), IF disabled THEN Pull("second") ELSE Unseen({"lies"}, Pull("second")), Remove>>
            \o NoLocal \o
            <<Publish("B"), from_A(IF disabled THEN Opt(update, update @@ (orphan :> "none")) ELSE Set(update @@ (orphan :> "none"))),
              Shows("user", "query", "B"), Publish("A"), Payloads("second", FALSE), Watched,
              IF disabled THEN Unseen({"lies"}, Pull("second")) ELSE Refused(Pull("second")),
              Payload(IF disabled THEN "none" ELSE "denied"), Payloads("second", TRUE),
              Unseen({"lies"}, With("A", Update("query", {})))>>
    IN <<Require, RemoteAdd("server"), Install("query", {})>> \o turn(TRUE) \o turn(FALSE) \o turn(TRUE)

\* Objects without a reference are kept until they are pruned.
cleanup(n) ==
    <<Require, RemoteAdd("server"), Install("query", {})>> \o Protected \o
    <<Watched, Payloads("second", FALSE), Refused(Pull("second")), Payload("denied"), Payloads("second", TRUE),
      Pull("second")>> \o Local \o
    <<Uninstall("second", {}), Absent("user", "second"), Unseen({"lies"}, Pull("second")), Remove>> \o NoLocal \o
    <<Payloads("second", FALSE), Watched, Unseen({"lies"}, Pull("second")), Payload("none"), Unseen({"lies"}, Remove)>> \o
    (IF n = "lifex-cleanup-retention" THEN <<>>
     ELSE <<Prune, Watched, Refused(Pull("second")), Payload("denied"), Payloads("second", TRUE)>>)
    \o <<Pull("second")>> \o Local \o Kept

local_ref(n) ==
    <<Require, RemoteAdd("A"), Install("query", {})>> \o Protected \o <<Pull("second")>> \o Local \o
    <<Uninstall("second", {}), Absent("user", "second"), Unseen({"lies"}, Pull("second")), Remove>> \o NoLocal \o
    (IF n = "lifex-prune" THEN <<Unseen({"lies"}, Prune)>> \o NoLocal ELSE <<>>) \o Kept

\* The cache of exported associations changes only when the triggers are run.
deferred_triggers ==
    LET at == <<"at", "user", "trigger">>
        cache == <<"mime", "user">>
        run(v) == When(at :> v, Set(cache :> v))
        turn(v, before) ==
            <<RemoteEdit(v), When(<<"remote", "user", "fixture">> :> v, Opt(at :> v, (at :> v) @@ (cache :> v))),
              Fact(at, v), Fact(cache, before), run(v), Fact(cache, v)>>
    IN <<Require>> \o Fixture \o <<Fact(cache, "none")>> \o turn("A'", "none") \o turn("B'", "A'") \o
       <<Opt(at :> "none", (at :> "none") @@ (cache :> "none")), Fact(at, "none"), Fact(cache, "B'"), run("none"),
         Fact(cache, "none")>>

Names == {"lifex-runtime-instance", "lifex-direct-bundle", "lifex-bundle-errors", "lifex-signed-bundle",
    "lifex-image", "lifex-sideload-image", "lifex-sideload-query", "lifex-sideload-query-native",
    "lifex-sideload-install", "lifex-unused-pinned", "lifex-monitor", "lifex-force-uninstall", "lifex-appdata",
    "lifex-eol", "lifex-transaction-pruning", "lifex-cleanup-retention", "lifex-cleanup-pruning",
    "lifex-local-ref", "lifex-prune", "lifex-deferred-triggers"}

run(n) ==
    CASE n = "lifex-runtime-instance" -> runtime_instance
      [] n \in {"lifex-direct-bundle", "lifex-bundle-errors"} -> bundles(n)
      [] n = "lifex-signed-bundle" -> signed_bundle
      [] n = "lifex-image" -> image
      [] n = "lifex-sideload-image" -> sideload_image
      [] n \in {"lifex-sideload-query", "lifex-sideload-query-native", "lifex-sideload-install"} -> sideload(n)
      [] n = "lifex-unused-pinned" -> unused_pinned
      [] n = "lifex-monitor" -> monitor
      [] n = "lifex-force-uninstall" -> force_uninstall
      [] n = "lifex-appdata" -> appdata
      [] n = "lifex-eol" -> eol
      [] n = "lifex-transaction-pruning" -> transaction_pruning
      [] n \in {"lifex-cleanup-retention", "lifex-cleanup-pruning"} -> cleanup(n)
      [] n \in {"lifex-local-ref", "lifex-prune"} -> local_ref(n)
      [] n = "lifex-deferred-triggers" -> deferred_triggers
=============================================================================
