---------------------------- MODULE Maintenance ----------------------------
(***************************************************************************)
(* maintenance_scenarios.py, except its journal (module History): the      *)
(* preinstall configuration and repairs, in the private namespace.         *)
(***************************************************************************)
EXTENDS Selectors

\* The configuration file that asks for the application and its runtime.
definition(install) ==
    Env((<<"preinstall", "app">> :> IF install THEN "install" ELSE "remove")
        @@ (<<"preinstall", "runtime">> :> "install"))

preinstall(s, opts) == ok(s, Command("preinstall", "none", opts))
vendor_copy(s) == installed(s, "A") \o <<Shows(s, "runtime", "R")>>
Elsewhere == <<Lists("alt", Refs, {}), Lists("user", Refs, {})>>

\* The repair of a caller that is not root changes nothing at the same store.  A script
\* makes both repairs, the second one in a namespace of its own.
repair_root ==
    LET identity == <<"identity", "system">>
        seen == <<Shows("system", "app", "A"), Shows("system", "runtime", "R")>>
        repair(opts) == ok("system", Command("repair", "none", opts))
        again == Scripted(<<Same(identity), Try(repair({"unprivileged"})), Same(identity)>>)
    IN Guarded(<<remote("system", "A"), ok("system", Install("app", {}))>> \o installed("system", "A"))
       \o Scripted(seen \o <<repair({})>> \o seen) \o <<Note(identity), Require>> \o again
       \o Guarded(vendor_copy("system"))

preinstalled == <<preinstall("system", {})>> \o vendor_copy("system") \o Elsewhere

preinstall_sync ==
    <<definition(FALSE), preinstall("system", {}), Lists("system", Refs, {"runtime"}), Absent("system", "app"),
      definition(TRUE), preinstall("system", {}), Lists("system", Refs, {"app", "runtime"})>>
    \o installed("system", "A")

\* The same configuration acts in a fresh installation: the opt-out is the user's.
preinstall_optout ==
    <<ok("system", Uninstall("app", {})), Lists("system", Refs, {"runtime"}), preinstall("alt", {})>>
    \o installed("alt", "A") \o <<preinstall("system", {}), Lists("system", Refs, {"runtime"})>>
    \o installed("alt", "A") \o <<Lists("user", Refs, {}), preinstall("user", {})>> \o installed("user", "A")
    \o <<Lists("system", Refs, {"runtime"})>>

preinstall_download ==
    <<preinstall("system", {"no-deploy"}), Lists("system", Refs, {}), Unseen({"lies"}, tip("system", "unavailable")),
      ok("system", Install("app", {"no-pull"}))>> \o vendor_copy("system") \o Elsewhere

library_preinstall ==
    LET sync(install) == <<definition(install), preinstall("system", {})>>
    IN sync(TRUE) \o vendor_copy("system") \o Elsewhere
       \o sync(FALSE) \o <<Lists("system", Refs, {"runtime"}), Shows("system", "runtime", "R")>> \o Elsewhere

MaintenanceNames == {"maintenance-repair-root", "maintenance-preinstall-download",
    "maintenance-library-preinstall", "maintenance-preinstall-sync", "maintenance-preinstall-optout"}

preinstall_run(n) ==
    <<definition(TRUE), remote("system", "A")>>
    \o (IF n = "maintenance-preinstall-optout" THEN <<remote("alt", "A"), remote("user", "A")>>
        ELSE <<Unseen({"lies"}, remote("alt", "A")), Unseen({"lies"}, remote("user", "A"))>>) \o
    CASE n = "maintenance-preinstall-download" -> preinstall_download
      [] n = "maintenance-library-preinstall" -> library_preinstall
      [] n = "maintenance-preinstall-sync" -> preinstalled \o preinstall_sync
      [] n = "maintenance-preinstall-optout" -> preinstalled \o preinstall_optout

maintenance_run(n) == Namespace(IF n = "maintenance-repair-root" THEN repair_root ELSE Guarded(preinstall_run(n)))
=============================================================================
