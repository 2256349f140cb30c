---------------------------- MODULE Distribution ----------------------------
(***************************************************************************)
(* How applications reach an installation and leave it: the scenarios of   *)
(* USB exports, images and sideloading, bundle trust, related refs,        *)
(* confirmation, OCI updates and signatures, removal while running, and    *)
(* the remaining queries (usb_option, distribution_option, bundle_trust,   *)
(* related_option, confirmation_option, oci_update, oci_signature,         *)
(* running_removal and coverage_next_scenarios.py).                        *)
(***************************************************************************)
EXTENDS Target

Url(m) == <<"remote", "user", m>>
App(v) == <<"at", "user", "app">> :> v
Platform(v) == <<"at", "user", "runtime">> :> v
state(v) == <<Lists("user", Refs, {"app", "runtime"}), Shows("user", "app", v), Shows("user", "runtime", "R")>>
base == <<Lists("user", Refs, {"runtime"}), Shows("user", "runtime", "R")>>
Nothing == <<Lists("user", Refs, {})>>
Payload == <<"env", "payload">>
Mark == Env(Payload :> "none")

-----------------------------------------------------------------------------
\* usb_option_scenarios.py

\* The refs of an export, with their commits: no other and none missing.
usb(where, r) == <<"usb", where, r>>
export(where, v) == (usb(where, "app") :> v) @@ (usb(where, "runtime") :> "R")
_refs(where, v) == <<Blamed, Fact(usb(where, "app"), v), Fact(usb(where, "runtime"), "R")>>
unexported(where) == Env(Each({usb(where, "app"), usb(where, "runtime")}, "none"))

\* Each selector exports the copy of its own installation.
usb_selectors ==
    LET scopes == <<"system", "alt", "user">>
        source(s) == IF s = "alt" THEN "B" ELSE "A"
        copy(s) == (<<"at", s, "app">> :> source(s)) @@ (<<"at", s, "runtime">> :> "R")
        prepared(s) == Guarded(<<In(s, RemoteAdd(source(s))), In(s, Install("app", {})), In(s, Install("runtime", {}))>>)
        exported(s) == Guarded(<<When(copy(s), In(s, Set(export(s, source(s)))))>>) \o _refs(s, source(s))
    IN <<Require>> \o Namespace(ForAll(scopes, prepared) \o ForAll(scopes, exported))

\* --allow-partial suppresses the warning of a partial export and changes nothing else:
\* whether such an export succeeds is the target's choice, the same with it and without.
usb_partial ==
    LET files(v) == <<"files", "user">> :> v
        partial == Platform("R") @@ files("bin")
        warned == <<"warned", "user">>
        part == <<"usb part", "bin">>
        allowed(f) == When(partial, Opt(f, f @@ (warned :> "yes")))
    IN <<Opt(partial, Platform("R") @@ files("all"))>> \o base
       \o <<When(partial, AttemptOr(warned :> "yes", warned :> "yes")), Fact(warned, "yes"), Env(warned :> "none")>>
       \o IfOk(<<allowed((usb("allowed", "runtime") :> "R") @@ (part :> "yes")), Fact(warned, "none")>>
               \o <<Blamed, Fact(usb("allowed", "runtime"), "R"), Fact(part, "yes"), Fact(<<"usb part", "lib">>, "none")>>)
       \o IfRefused(<<FailingFor("not installed", allowed(<<>>)), Fact(warned, "none"), Set(Platform("none") @@ files("none")),
                      When(Platform("none"), Set(Platform("R") @@ files("all"))),
                      When(Platform("R") @@ files("all"), Set(usb("full", "runtime") :> "R")), Blamed, Fact(usb("full", "runtime"), "R")>>)

usb_kinds ==
    LET kind(k) ==
            LET refs == IF k = "app" THEN export(k, "A") ELSE usb(k, "runtime") :> "R"
            IN <<Forbid("not installed", <<"usb wrong", k>> :> "yes"), When(App("A"), Set(refs)),
                 Blamed, Fact(usb(k, "runtime"), "R"), Fact(usb(k, "app"), IF k = "app" THEN "A" ELSE "none")>>
    IN ForAll(<<"app", "runtime">>, kind)

\* A diagnostic option adds lines to one run and leaves the runs around it alone.
usb_diagnostics ==
    LET lines == <<"diagnostics", "user">>
        once(verbose) ==
            <<unexported("mount"), Env(lines :> "none"),
              When(App("A"), Opt(export("mount", "A") @@ (lines :> IF verbose THEN "more" ELSE "none"), export("mount", "A")))>>
            \o _refs("mount", "A") \o <<Fact(lines, IF verbose THEN "more" ELSE "none")>>
    IN ForAll(<<FALSE, TRUE, FALSE, FALSE, TRUE, FALSE>>, once)

usb_run(n) ==
    CASE n = "usb-options-selectors" -> usb_selectors
      [] n = "usb-options-partial" -> <<Require, Unseen({"lies"}, RemoteAdd("A"))>> \o usb_partial
      [] n = "usb-options-kinds" -> <<Require, RemoteAdd("A"), Install("app", {})>> \o usb_kinds
      [] n = "usb-options-diagnostics" -> <<Require, RemoteAdd("A"), Install("app", {})>> \o usb_diagnostics

-----------------------------------------------------------------------------
\* distribution_option_scenarios.py

\* --image forces the parsing of an image name; a replacement keeps the origin.
image ==
    LET origin == <<"origin", "user", "app">>
    IN <<Require, RemoteAdd("server"), Install("runtime", {}), ForbidAny(<<>>), RejectAs("image", "ref")>> \o base
       \o <<When(Platform("R"), Set(App("A") @@ (origin :> "image")))>> \o state("A") \o <<Fact(origin, "image"), Note(origin)>>
       \o <<When(App("A"), Opt(App("B"), <<>>))>> \o state("B") \o <<Same(origin)>>

\* The server denies every payload, so what arrives came from the sideload source.
sideload(n) ==
    LET updating == n = "distribution-options-sideload-update"
        preinstall == n = "distribution-options-sideload-preinstall"
        before == IF updating THEN state("A") ELSE base
        command(opts) == IF preinstall THEN Command("preinstall", "none", opts)
                         ELSE IF updating THEN Update("app", opts) ELSE Install("app", opts)
    IN <<Require, Require>> \o (IF preinstall THEN <<Require, Env(<<"preinstall", "app">> :> "install")>> ELSE <<>>)
       \o <<RemoteAdd("server"), Install(IF updating THEN "app" ELSE "runtime", {})>> \o (IF updating THEN <<Publish("B")>> ELSE <<>>)
       \o before \o <<Env(<<"blocked", "app">> :> "yes"), Mark, Refused(command({}))>> \o before \o <<Fact(Payload, "denied")>>
       \o <<Mark, command({"sideload"})>> \o state(IF updating THEN "B" ELSE "A") \o <<Fact(Payload, "none")>>

-----------------------------------------------------------------------------
\* bundle_trust_scenarios.py

\* A key given at installation refuses the unsigned bundle; a key embedded in a bundle
\* keeps verification on for its origin.
install_key ==
    <<Require, Forbid("signature", App("A"))>> \o base \o <<Set(App("A"))>> \o state("A")
    \o <<Unseen({"lies"}, Uninstall("app", {})), Set(App("B"))>> \o state("B")

embedded_key ==
    LET verified(v) == <<"gpg", "user", "other">> :> v
        bundle(v) == <<"bundle", "keys">> :> v
        turn(embedded) ==
            LET keys == IF embedded THEN "yes" ELSE "no"
                update == When(App("B") @@ (Url("other") :> "A") @@ verified(keys), IF embedded THEN Forbid("signature", App("A")) ELSE Set(App("A")))
            IN <<IF embedded THEN Opt(bundle(keys), bundle("no")) ELSE Set(bundle(keys)),
                 When(bundle(keys), Set(App("B") @@ verified(keys) @@ (Url("other") :> "bundle")))>> \o state("B")
               \o <<Fact(Url("other"), "bundle"), When(Url("other") :> "bundle", Set(Url("other") :> "A")), update>>
               \o state(IF embedded THEN "B" ELSE "A")
               \o <<Either(App("none"), App("none") @@ (Url("other") :> "none"))>>
               \o IfFact(Url("other"), "A", <<Unseen({"lies"}, Set(Url("other") :> "none"))>>) \o base
    IN ForAll(<<FALSE, TRUE>>, turn)

bundle_trust_run(n) ==
    <<Require, RemoteAdd("server"), Install("runtime", {})>> \o (IF n = "bundle-trust-install-key" THEN install_key ELSE embedded_key)

-----------------------------------------------------------------------------
\* related_option_scenarios.py

Put(refs, v) == Each({<<"at", "user", r>> : r \in refs}, v)
refs(S) == Exactly(<<"app", "runtime", "locale">>, LAMBDA r : <<"at", "user", r>>, S, "A")
all == {"app", "runtime", "locale"}
install_all == <<When(Url("fixture") :> "A", Set(Put(all, "A")))>> \o refs(all)
install_alone == <<When(Url("fixture") :> "A", Opt(Put(all \ {"locale"}, "A"), Put(all, "A")))>> \o refs(all \ {"locale"})
uninstall_all == <<Set(Put(all \ {"runtime"}, "none"))>> \o refs({"runtime"})

related_run(n) == <<Require, RemoteAdd("A"), Unseen({"lies"}, Set(<<"languages", "user">> :> "de"))>> \o
    CASE n = "related-options-install" -> install_alone \o uninstall_all \o install_all
      [] n = "related-options-update" ->
            install_alone \o <<Opt(<<>>, Put({"locale"}, "A"))>> \o refs(all \ {"locale"}) \o <<Set(Put({"locale"}, "A"))>> \o refs(all)
      [] n = "related-options-uninstall" ->
            install_all \o <<Opt(Put({"app"}, "none"), Put(all \ {"runtime"}, "none"))>> \o refs({"runtime", "locale"})
            \o install_all \o uninstall_all

-----------------------------------------------------------------------------
\* confirmation_option_scenarios.py

\* Without a terminal only the option approves the transaction.
confirmation_run(n) ==
    LET here == Url("fixture") :> "server"
        old == App("A") @@ Platform("R")
        effect == CASE n = "confirmation-options-install" -> old
                    [] n = "confirmation-options-update" -> App("B")
                    [] n = "confirmation-options-uninstall" -> App("none")
        given == CASE n = "confirmation-options-install" -> here
                   [] n = "confirmation-options-update" -> here @@ old @@ (<<"env", "version">> :> "B")
                   [] n = "confirmation-options-uninstall" -> old
        before == IF n = "confirmation-options-install" THEN Nothing ELSE state("A")
        after == CASE n = "confirmation-options-install" -> state("A")
                   [] n = "confirmation-options-update" -> state("B")
                   [] n = "confirmation-options-uninstall" -> base
        turn == <<Publish("A")>> \o (IF n = "confirmation-options-install" THEN <<>> ELSE <<Install("app", {})>>)
                \o (IF n = "confirmation-options-update" THEN <<Publish("B")>> ELSE <<>>)
                \o before \o <<ForbidAny(effect)>> \o before \o <<When(given, Opt(effect, <<>>))>> \o after
                \o <<Uninstall("all", {})>> \o Nothing
    IN <<RemoteAdd("server")>> \o turn \o turn

-----------------------------------------------------------------------------
\* oci_update_scenarios.py

\* An update is one of the origin the application came from.
oci_update ==
    <<Require, RemoteAdd("server"), Offers("user", Refs, {"app", "runtime"}), Install("app", {}), Tips("user", "app", "A"),
      Shows("user", "app", "A"), Updates({}), From("other", RemoteAdd("server")), Publish("B"), UpdatesFrom("other", {}),
      Updates({"app"}), Update("app", {}), Shows("user", "app", "B"), Updates({})>>

-----------------------------------------------------------------------------
\* oci_signature_scenarios.py

\* The signature of an image is looked up below the configured prefix.
signature_path(prefix, v) == <<"signature", prefix, v>>
lookaside(prefix) == <<"lookaside", "user">> :> prefix
requests(prefix, v) == <<"requests", prefix, v>>

oci_reject(v, old) ==
    LET asked == requests("selected", v)
    IN <<When(lookaside("selected"), FailingFor("signature", Set(asked :> "yes")))>>
       \o (IF old = "none" THEN base ELSE state(old)) \o <<Fact(asked, "yes")>>
oci_install(prefix, v) ==
    <<When(lookaside(prefix) @@ (signature_path(prefix, v) :> "trusted"), Set(App(v) @@ (requests(prefix, v) :> "yes")))>>
    \o state(v) \o <<Tips("user", "app", v)>>

oci_signature_run(n) ==
    LET sign(prefix, v, kind) == <<Blamed, Env(signature_path(prefix, v) :> kind)>>
        chosen == CASE n = "oci-signatures-untrusted" -> sign("selected", "A", "untrusted")
                    [] n = "oci-signatures-tampered" -> <<Env(signature_path("selected", "A") :> "tampered")>>
                    [] n = "oci-signatures-stale-update" -> <<Env(signature_path("selected", "A") :> "trusted")>>
                    [] OTHER -> <<>>
        asked(prefix, v) == Fact(requests(prefix, "A"), v)
        forget == Env(requests("selected", "A") :> "none")
    IN <<Require>> \o Finally(Blamed.stops,
       <<From("other", RemoteAdd("server")), From("other", Install("runtime", {}))>> \o base
       \o sign("trusted", "A", "trusted") \o chosen
       \o <<When(Url("fixture") :> "none", Set((Url("fixture") :> "server") @@ lookaside("selected")))>> \o
       (CASE n = "oci-signatures-stale-update" ->
               oci_install("selected", "A") \o <<Publish("B"), Env(signature_path("selected", "B") :> "stale")>> \o oci_reject("B", "A")
               \o sign("selected", "B", "trusted") \o oci_install("selected", "B")
          [] n = "oci-signatures-modify-url" ->
               oci_reject("A", "none") \o <<forget, Opt(lookaside("trusted"), <<>>)>> \o oci_install("trusted", "A")
               \o <<asked("trusted", "yes"), asked("selected", "none")>>
          [] OTHER ->
               oci_reject("A", "none") \o <<forget, Env(signature_path("selected", "A") :> "trusted")>>
               \o oci_install("selected", "A") \o <<asked("selected", "yes")>>))

-----------------------------------------------------------------------------
\* running_removal_scenarios.py

\* The files a running sandbox uses stay, unless their removal is forced.
running_removal_run(n) ==
    LET files(v) == <<"sandbox", "files">> :> v
        updating == n = "running-removal-update"
        remove(forced) ==
            IF updating THEN <<Publish("B"), Update("app", {})>> \o state("B")
            ELSE <<IF forced THEN Opt(App("none") @@ files("none"), App("none")) ELSE Set(App("none"))>> \o base
        turn(forced) == <<Publish("A"), Install("app", {})>> \o state("A") \o <<When(App("A"), Set(files("yes"))), Fact(<<"sandbox", "files">>, "yes")>>
            \o remove(forced) \o <<Fact(<<"sandbox", "files">>, IF forced THEN "none" ELSE "yes"), Env(files("none")), Uninstall("all", {})>> \o Nothing
    IN <<RemoteAdd("server")>> \o turn(FALSE) \o (IF updating THEN <<>> ELSE turn(TRUE))

-----------------------------------------------------------------------------
\* coverage_next_scenarios.py

\* A search answers from the catalogue of the last refresh.
appstream(n) ==
    LET catalogue == <<"appstream", "user">>
        refresh(v) == <<When(Url("fixture") :> "server", Set(catalogue :> v)), Fact(catalogue, v)>>
    IN <<RemoteAdd("server")>> \o refresh("A")
       \o (IF n = "coverage-search" THEN <<>> ELSE <<Publish("B"), Fact(catalogue, "A")>> \o refresh("B")) \o Nothing

bundle ==
    LET query(v) == <<"at", "user", "query">> :> v
    IN <<RemoteAdd("server"), Install("runtime", {}), Lists("user", Apps, {}), ForbidAny(query("A"))>> \o base
       \o <<When(Platform("R"), Opt(query("A"), <<>>)), Shows("user", "query", "A"), Shows("user", "runtime", "R"), Lists("user", Apps, {"query"})>>

\* Two applications of different runtimes, told apart by the runtime they use.
runtime_filter ==
    LET uses(r) == <<"uses", "user", r>>
        deploy(r, on) == <<When(Url("fixture") :> "A", Set((<<"at", "user", r>> :> "A") @@ (uses(r) :> on))), Shows("user", r, "A")>>
    IN <<Require, RemoteAdd("A")>> \o deploy("native", "one") \o deploy("query", "two")
       \o <<Lists("user", Apps, {"native", "query"}), Fact(uses("native"), "one"), Fact(uses("query"), "two")>>

\* Without the explicit languages those of the environment and the extra ones count.
config_unset ==
    LET key(k) == <<k, "user">>
        marker(l) == <<"locale", "user", l>>
        marks(S) == [k \in {marker(l) : l \in {"de", "fr", "ja", "es"}} |-> IF k[3] \in S THEN "yes" ELSE "none"]
        locales(given, S) ==
            <<When((Url("fixture") :> "A") @@ given, Set((<<"at", "user", "native">> :> "A") @@ marks(S))), Shows("user", "native", "A")>>
            \o Exactly(<<"de", "fr", "ja", "es">>, marker, S, "yes") \o <<Set(Put({"native"}, "none") @@ marks({}))>> \o Nothing
    IN <<Require, RemoteAdd("A"), Set(key("extra-languages") :> "de"), Set(key("languages") :> "ja"), Fact(key("languages"), "ja")>>
       \o locales(key("languages") :> "ja", {"ja"}) \o <<Set(key("languages") :> "none"), Fact(key("extra-languages"), "de")>>
       \o locales((key("languages") :> "none") @@ (key("extra-languages") :> "de"), {"de", "fr"})

coverage_run(n) == <<Require>> \o
    CASE n = "coverage-progress-context" ->
            <<RemoteAdd("server"), When(Url("fixture") :> "server", Set(Payload :> "fetched")), Fact(Payload, "fetched")>>
      [] n \in {"coverage-search", "coverage-appstream-update"} -> appstream(n)
      [] n = "coverage-bundle" -> bundle
      [] n = "coverage-runtime-filter" -> runtime_filter
      [] n = "coverage-config-unset" -> config_unset

-----------------------------------------------------------------------------
UsbNames == {"usb-options-selectors", "usb-options-partial", "usb-options-kinds", "usb-options-diagnostics"}
SideloadNames == {"distribution-options-sideload-install", "distribution-options-sideload-update", "distribution-options-sideload-preinstall"}
BundleTrustNames == {"bundle-trust-install-key", "bundle-trust-embedded-key"}
RelatedNames == {"related-options-install", "related-options-update", "related-options-uninstall"}
ConfirmationNames == {"confirmation-options-install", "confirmation-options-update", "confirmation-options-uninstall"}
SignatureNames == {"oci-signatures-missing", "oci-signatures-untrusted", "oci-signatures-tampered", "oci-signatures-modify-url", "oci-signatures-stale-update"}
RemovalNames == {"running-removal-update", "running-removal-uninstall"}
CoverageNames == {"coverage-progress-context", "coverage-search", "coverage-appstream-update", "coverage-bundle", "coverage-runtime-filter", "coverage-config-unset"}
Names == UsbNames \union SideloadNames \union BundleTrustNames \union RelatedNames \union ConfirmationNames \union SignatureNames
    \union RemovalNames \union CoverageNames \union {"distribution-options-image", "oci-updates"}

run(n) ==
    CASE n \in UsbNames -> usb_run(n)
      [] n \in SideloadNames -> sideload(n)
      [] n \in BundleTrustNames -> bundle_trust_run(n)
      [] n \in RelatedNames -> related_run(n)
      [] n \in ConfirmationNames -> confirmation_run(n)
      [] n \in SignatureNames -> oci_signature_run(n)
      [] n \in RemovalNames -> running_removal_run(n)
      [] n \in CoverageNames -> coverage_run(n)
      [] n = "distribution-options-image" -> image
      [] n = "oci-updates" -> oci_update
=============================================================================
