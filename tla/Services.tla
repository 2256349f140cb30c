------------------------------ MODULE Services ------------------------------
(***************************************************************************)
(* The scenarios that need a service of the session: the permission store, *)
(* the document portal and an authenticator (permission, document and      *)
(* auth_scenarios.py).  The services are the harness's: what they keep is  *)
(* a fact of the world, and their failure is not the target's.             *)
(***************************************************************************)
EXTENDS Target

Nothing == <<Lists("user", Refs, {})>>
Url == <<"remote", "user", "fixture">>
App(v) == <<"at", "user", "app">> :> v

-----------------------------------------------------------------------------
\* permission_scenarios.py

ENTRIES == <<<<"devices", "camera">>, <<"devices", "microphone">>, <<"location", "camera">>>>
Camera == ENTRIES[1]
perm(e, a) == <<"perm", e[1], e[2], a>>
data(e) == <<"perm data", e[1], e[2]>>
perms(a, v) == Each({perm(ENTRIES[i], a) : i \in DOMAIN ENTRIES}, v)

\* What the store answers for an entry, if it does: the permissions of both applications
\* and the data.
_lookup(e, mine, others, kept) == <<Blamed, Fact(perm(e, "app"), mine), Fact(perm(e, "other"), others), Fact(data(e), kept)>>
_lookups(list, mine, others) == ForAll(list, LAMBDA e : _lookup(e, mine, others, "fixture"))

\* The store did not start: blocked.
_service == <<Prepare>>
_seed == <<Blamed, Env(perms("app", "rw") @@ perms("other", "deny") @@ Each({data(ENTRIES[i]) : i \in DOMAIN ENTRIES}, "fixture"))>>
         \o _lookups(ENTRIES, "rw", "deny")

\* Removing an application keeps its data and permissions unless they are to be deleted.
_delete_data ==
    LET directory == <<"directory", "fixture">>
        control == <<"directory", "other">>
        granted(v) == perms("fixture", v)
        grants(v) == ForAll(ENTRIES, LAMBDA e : _lookup(e, "rw", "deny", "fixture") \o <<Fact(perm(e, "fixture"), v)>>)
    IN <<RemoteAdd("server"), Install("app", {}), Env((directory :> "marked") @@ (control :> "marked")), Blamed, Env(granted("yes")),
         Unseen({"lies"}, Uninstall("app", {})), Fact(directory, "marked"), Fact(control, "marked")>> \o grants("yes")
       \o <<Install("app", {}), When(App("A"), Opt(App("none") @@ (directory :> "none") @@ granted("none"), App("none"))),
            Fact(directory, "none"), Fact(control, "marked")>> \o grants("none") \o <<Absent("user", "app")>>

\* A cancelled deletion and one of an invalid name delete nothing.
_library_delete_data ==
    LET directory == <<"directory", "app">>
        outside == <<"directory", "outside">>
    IN <<Env(directory :> "marked"), ForbidAny(directory :> "none"), Fact(directory, "marked"),
         Set((directory :> "none") @@ perms("app", "none")), Fact(directory, "none")>> \o _lookups(ENTRIES, "none", "deny")
       \o <<Env(outside :> "marked"), ForbidAny(outside :> "none"), Fact(outside, "marked")>>

permissions_data ==
    LET set(v) == perm(Camera, "app") :> v
        payload == data(Camera) :> "payload"
    IN <<Opt(set("ask") @@ payload, set("ask"))>> \o _lookup(Camera, "ask", "deny", "payload")
       \o <<Set(set("yes"))>> \o _lookup(Camera, "yes", "deny", "payload")
       \o <<ForbidAny(set("no"))>> \o _lookup(Camera, "yes", "deny", "payload")

permissions_persist ==
    LET new == <<"new-table", "new-object">>
    IN <<Set(perm(Camera, "app") :> "ask,record")>> \o _lookup(Camera, "ask,record", "deny", "fixture")
       \o <<Set((perm(new, "app") :> "yes") @@ (data(new) :> "zero"))>> \o _lookup(new, "yes", "none", "zero")

\* The name of the application restricts the removal to it.
permissions_remove(n) ==
    LET object == Each({perm(Camera, "app"), perm(Camera, "other"), data(Camera)}, "none")
    IN (IF n = "permissions-remove-app"
        THEN <<Opt(perm(Camera, "app") :> "none", object)>> \o _lookup(Camera, "none", "deny", "fixture")
        ELSE <<Set(object)>> \o _lookup(Camera, "none", "none", "none"))
       \o _lookups(Tail(ENTRIES), "rw", "deny")

permissions_reset(n) ==
    <<Set(perms("app", "none"))>> \o _lookups(ENTRIES, "none", "deny")
    \o IF n = "permissions-reset-all" THEN <<Opt(perms("other", "none"), <<>>)>> \o _lookups(ENTRIES, "none", "none") ELSE <<>>

PermissionNames == {"permissions-delete-data", "library-delete-data", "permissions-persist", "permissions-data", "permissions-selection",
    "permissions-show", "permissions-remove-app", "permissions-remove-object", "permissions-reset-app", "permissions-reset-all"}

permission_run(n) == _service \o _seed \o
    CASE n = "permissions-delete-data" -> _delete_data
      [] n = "library-delete-data" -> _library_delete_data
      [] n = "permissions-persist" -> permissions_persist
      [] n = "permissions-data" -> permissions_data
      [] n \in {"permissions-selection", "permissions-show"} -> _lookups(ENTRIES, "rw", "deny")
      [] n \in {"permissions-remove-app", "permissions-remove-object"} -> permissions_remove(n)
      [] n \in {"permissions-reset-app", "permissions-reset-all"} -> permissions_reset(n)

-----------------------------------------------------------------------------
\* document_scenarios.py

Grants == <<"read", "write", "delete", "grant">>
doc(id, a, g) == <<"doc", id, a, g>>
grant(id, a, S) == [k \in {doc(id, a, Grants[i]) : i \in DOMAIN Grants} |-> IF k[4] \in S THEN "yes" ELSE "none"]
_permissions(id, a, S) == <<Blamed>> \o Exactly(Grants, LAMBDA g : doc(id, a, g), S, "yes")
content(file) == <<"content", file>>

\* The portal blocks the case where it cannot start.  Whatever the steps did, its mount
\* is left in the end, and one that stays is reported as a mismatch in their place.
_portal(steps) == <<Require>> \o Finally(Blamed.stops, <<Blamed>> \o steps)
_export(id, a, S) == Set(grant(id, a, S))

documents_write ==
    <<Opt(grant("file", "app", {"read", "write"}), <<>>)>> \o _permissions("file", "app", {"read", "write"})
    \o <<When(doc("file", "app", "write") :> "yes", Set(content("file") :> "written")), Fact(content("file"), "written"),
         Opt(grant("file", "app", {"read"}), <<>>)>> \o _permissions("file", "app", {"read"})
    \o <<ForbidAny(content("file") :> "spoiled"), Fact(content("file"), "written")>> \o _permissions("file", "app", {"read"})

documents_unique ==
    <<_export("file", "app", {"read"})>> \o _permissions("file", "app", {"read"})
    \o <<Opt(grant("unique", "other", {"read"}), grant("file", "other", {"read"}))>>
    \o _permissions("unique", "other", {"read"}) \o _permissions("file", "app", {"read"}) \o _permissions("file", "other", {})
    \o <<Unseen({"lies"}, _export("unique", "other", {}))>> \o _permissions("file", "app", {"read"})

documents_info ==
    ForAll(<<{"read", "write"}, {"read"}>>,
           LAMBDA S : <<Opt(grant("file", "app", S), <<>>)>> \o _permissions("file", "app", S))

\* The document of one file goes and the other's stays.
documents_unexport(n) ==
    <<_export("control", "other", {"read"}), Env(content("file") :> IF n = "documents-by-id" THEN "none" ELSE "original"),
      _export("file", "app", {})>> \o _permissions("file", "app", {})
    \o <<Fact(content("file"), IF n = "documents-by-id" THEN "none" ELSE "original")>> \o _permissions("control", "other", {"read"})

documents_permissions ==
    LET after(g) == IF g = "read" THEN {} ELSE {"read"}
        turn(g) == <<Opt(grant("file", "app", {"read", g}), grant("file", "app", {"read"}))>> \o _permissions("file", "app", {"read", g})
            \o <<Opt(grant("file", "app", after(g)), IF g = "read" THEN grant("file", "app", {"read"}) ELSE <<>>)>>
            \o _permissions("file", "app", after(g))
        both(S) == grant("file", "app", S) @@ grant("file", "other", S)
    IN ForAll(Grants, turn) \o <<Opt(both({"read", "write"}), both({"read"}))>>
       \o _permissions("file", "app", {"read", "write"}) \o _permissions("file", "other", {"read", "write"})

documents_noexist ==
    <<ForbidAny(grant("missing", "app", {"read"})), Opt(grant("missing", "app", {"read"}), <<>>),
      Fact(content("missing"), "none"), Env(content("missing") :> "later")>> \o _permissions("missing", "app", {"read"})

\* A transient grant ends with the portal, a persistent one does not.
documents_transient ==
    LET control == grant("control", "app", {"read"})
    IN <<Opt(control @@ (<<"transient", "control">> :> "yes"), control)>>
       \o _permissions("file", "app", {"read"}) \o _permissions("control", "app", {"read"})
documents_restarted == _portal(<<Restart>> \o _permissions("control", "app", {}) \o _permissions("file", "app", {"read"}))

DocumentNames == {"documents-read", "documents-write", "documents-revoke", "documents-unique", "documents-info", "documents-enumerate",
    "documents-filter", "documents-by-id", "documents-permissions", "documents-noexist", "documents-transient"}

document_steps(n) ==
    CASE n = "documents-read" -> <<ForbidAny(content("file") :> "spoiled"), Fact(content("file"), "original")>>
      [] n = "documents-write" -> documents_write
      [] n = "documents-unique" -> documents_unique
      [] n = "documents-info" -> documents_info
      [] n \in {"documents-enumerate", "documents-filter"} ->
            <<_export("control", "other", {"read"})>> \o _permissions("file", "app", {"read"}) \o _permissions("control", "other", {"read"})
      [] n \in {"documents-revoke", "documents-by-id"} -> documents_unexport(n)
      [] n = "documents-permissions" -> documents_permissions
      [] n = "documents-noexist" -> documents_noexist
      [] n = "documents-transient" -> documents_transient

document_run(n) ==
    LET sandbox == n \in {"documents-read", "documents-write", "documents-revoke"}
        exported == _export("file", "app", {"read"})
    IN <<Env((content("file") :> "original") @@ (content("control") :> "original"))>>
       \o (IF sandbox THEN <<Setup(RemoteAdd("server")), Setup(Install("app", {})), Fact(doc("file", "app", "read"), "none")>> ELSE <<>>)
       \o _service
       \o _portal(<<IF sandbox THEN When(App("A"), exported) ELSE exported>> \o _permissions("file", "app", {"read"}) \o document_steps(n))
       \o (IF n = "documents-transient" THEN documents_restarted ELSE <<>>)

-----------------------------------------------------------------------------
\* auth_scenarios.py

\* The server hands a protected payload only to a request with the token; what is in the
\* local repository is not asked for again.
Authenticator(v) == <<"authenticator", "user">> :> v
Transfer == <<"protected", "user">>
Objects(v) == <<"objects", "user">> :> v
Request == <<"request", "user">>
protected_server(f) == When(Authenticator("selected") @@ Objects("none") @@ App("none"), f)
downloaded == App("A") @@ Objects("yes") @@ (Transfer :> "authorized")
configured == <<Prepare, Setup(RemoteAdd("A")), When(Url :> "A", Set(Authenticator("selected")))>>
forgotten == Env(Each({Transfer, Request}, "none"))
authenticator_started == Blamed

\* The service is told whether it may ask: only --noninteractive forbids it, and with
\* --assumeyes the credentials are still asked for.
_cli_interaction ==
    LET turn(flag, last_turn) ==
            LET sent(v) == downloaded @@ (Request :> v)
                unseen == IF last_turn THEN {"lies"} ELSE {}
            IN <<authenticator_started, forgotten, protected_server(Opt(sent(flag), sent("interaction"))), Blamed, Fact(Request, flag),
                 Fact(Transfer, "authorized"), Shows("user", "app", "A"), Unseen(unseen, Set(App("none"))), Unseen(unseen, Set(Objects("none")))>>
    IN configured \o turn("no-interaction", FALSE) \o turn("interaction", FALSE) \o turn("credentials", TRUE)

\* A declined authenticator prevents the transfer; an accepted one is installed and used.
auth_install(n) ==
    <<Require, Setup(RemoteAdd("A")), Fact(Url, "A"), Set(Authenticator("candidate")), forgotten,
      When(Authenticator("candidate"), Forbid("declined", downloaded)), Fact(Transfer, "none")>>
    \o IF n = "auth-install-required" THEN <<>>
       ELSE Nothing \o <<When(Authenticator("candidate"), Set(downloaded @@ (<<"at", "user", "native">> :> "A") @@ (<<"at", "user", "runtime">> :> "R"))),
                         Fact(Transfer, "authorized"), Lists("user", Refs, {"app", "native", "runtime"}), Shows("user", "app", "A"),
                         Shows("user", "native", "A"), Shows("user", "runtime", "R")>>

Modes(n) ==
    CASE n = "auth-web" -> <<"web-wrong", "web">>
      [] n = "auth-basic-abort" -> <<"basic-decline", "basic-abort">>
      [] n = "auth-web-abort" -> <<"web-decline", "web-abort">>
      [] n = "auth-pre-auth" -> <<"pre-abort", "basic">>
      [] n = "auth-parent-window" -> <<"basic", "basic">>
      [] n = "auth-basic" -> <<"basic">>
      [] n = "auth-basic-wrong" -> <<"basic-wrong">>

\* The request names the parent window; only an accepted one lets a payload through, and
\* a refusal before authentication sends none.
auth_mode(modes, i) ==
    LET parent == IF i = 1 THEN "x11" ELSE "wayland"
        asked(v) == Request :> v
        accepted == modes[i] \in {"basic", "web"}
    IN <<authenticator_started, forgotten>> \o
       (IF accepted
        THEN <<protected_server(Opt(downloaded @@ asked(parent), downloaded @@ asked("no parent"))), Blamed, Fact(Request, parent),
               Fact(Transfer, "authorized"), Shows("user", "app", "A")>>
             \o (IF i < Len(modes) THEN <<Set(App("none")), Set(Objects("none"))>> ELSE <<>>)
        ELSE IF modes[i] = "pre-abort"
        THEN <<protected_server(Forbid("aborted", asked(parent))), Blamed, Fact(Request, "none"), Fact(Transfer, "none")>> \o Nothing
        ELSE <<FailingFor("refused", protected_server(Opt(asked(parent), asked("no parent")))), Blamed, Fact(Request, parent),
               Fact(Transfer, "none")>> \o Nothing)

AuthNames == {"auth-web", "auth-basic-abort", "auth-web-abort", "auth-pre-auth", "auth-parent-window", "auth-basic", "auth-basic-wrong",
    "auth-cli-interaction", "auth-install-required", "auth-install-success"}

auth_run(n) ==
    CASE n = "auth-cli-interaction" -> _cli_interaction
      [] n \in {"auth-install-required", "auth-install-success"} -> auth_install(n)
      [] OTHER -> LET modes == Modes(n) IN configured \o ForAll([i \in DOMAIN modes |-> i], LAMBDA i : auth_mode(modes, i))

Names == PermissionNames \union DocumentNames \union AuthNames

run(n) ==
    CASE n \in PermissionNames -> permission_run(n)
      [] n \in DocumentNames -> document_run(n)
      [] n \in AuthNames -> auth_run(n)
=============================================================================
