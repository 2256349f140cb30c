----------------------------- MODULE Selectors -----------------------------
(***************************************************************************)
(* system_selector_scenarios.py: the default, the named and the user's     *)
(* installation, each with its own state, driven in a private namespace.   *)
(***************************************************************************)
EXTENDS Target

SELECTORS == <<"system", "alt", "user">>
ForEach(op(_)) == op("system") \o op("alt") \o op("user")
Others(s, op(_)) == ForEach(LAMBDA o : IF o = s THEN <<>> ELSE op(o))

\* A command that must succeed.
ok(s, c) == In(s, c)
remote(s, v) == ok(s, RemoteAdd(v))
tip(s, v) == ok(s, RemoteEdit(v))

\* The application's payload is run where the target says it is deployed, within a time
\* limit of its own; what prevents that is laid to the target.
installed(s, v) == <<Shows(s, "app", v), Blamed>>
assign(s, what, v) == ok(s, Set(<<what, s>> :> v))

\* What a command did in the other installations too is not looked at, or overwritten
\* before it is.
Spilling(c) == Unseen({"everywhere"}, c)
Astray(c) == Unseen({"elsewhere", "everywhere"}, c)

selectors_config ==
    LET value == [system |-> "de;fr", alt |-> "ja;en", user |-> "es;it"]
        set(s) == <<IF s = "user" THEN assign(s, "config", value[s])
                    ELSE Spilling(assign(s, "config", value[s]))>>
        shown(f, g(_)) == [i \in 1..3 |-> Fact(<<"config", SELECTORS[i]>>, g(SELECTORS[i]))]
        unset(i) == <<assign(SELECTORS[i], "config", "none")>> \o
                    [j \in 1..3 |-> Fact(<<"config", SELECTORS[j]>>, IF j <= i THEN "none"
                        ELSE IF j = 1 THEN "pt" ELSE value[SELECTORS[j]])]
    IN ForEach(set) \o shown(value, LAMBDA s : value[s])
       \o <<assign("system", "config", "pt")>>
       \o shown(value, LAMBDA s : IF s = "system" THEN "pt" ELSE value[s])
       \o unset(1) \o unset(2) \o unset(3)

selectors_remotes ==
    LET own(s) == <<ok(s, From("other", RemoteAdd(IF s = "alt" THEN "B" ELSE "A"))), Configured(s, {"other"})>>
        again(s) == IF s = "user" THEN Unseen({"lies"}, remote(s, "A"))
                    ELSE remote(s, "A")
        turn(s) ==
            <<tip(s, "B")>>
            \o ForEach(LAMBDA o : <<Fact(<<"remote", o, "fixture">>, IF o = s THEN "B" ELSE "A")>>)
            \o <<ok(s, RemoteDelete({})), Configured(s, {"other"})>>
            \o Others(s, LAMBDA o : <<Configured(o, {"other", "fixture"})>>)
            \o <<again(s)>>
    IN ForEach(own) \o <<Configured("user", {"other"})>> \o ForEach(LAMBDA s : <<remote(s, "A")>>)
       \o ForEach(turn)

selectors_remote_queries ==
    LET v(s) == IF s = "alt" THEN "B" ELSE "A"
        filter(s, r, h) == ok(s, Set(<<"hidden", s, "fixture", r>> :> h))
    IN ForEach(LAMBDA s : <<remote(s, v(s))>>)
       \o ForEach(LAMBDA s : <<Tips(s, "app", v(s)), Lists(s, Refs, {})>>)
       \o <<tip("user", "B"), Tips("user", "app", "B"), Tips("system", "app", "A"),
            filter("alt", "app", "yes"), filter("user", "runtime", "yes"),
            Offers("system", Refs, {"app", "runtime"}), Offers("alt", Refs, {"runtime"}),
            Offers("user", Refs, {"app"}), Spilling(filter("alt", "app", "no")),
            Offers("alt", Refs, {"app", "runtime"}), Offers("user", Refs, {"app"})>>

\* What one installation stores is set, then cleared, scope by scope; the others are
\* looked at after every change.
scoped(what, scopes) ==
    LET n == Len(scopes)
        cat(op(_)) == op(1) \o op(2) \o (IF n = 3 THEN op(3) ELSE <<>>)
        change(i, v) == IF n = 3 THEN assign(scopes[i], what, v)
                        ELSE Spilling(assign(scopes[i], what, v))
        set(i) == <<change(i, scopes[i])>> \o
            [j \in 1..n |-> Fact(<<what, scopes[j]>>, IF j <= i THEN scopes[j] ELSE "none")]
        clear(i) == <<change(i, "none")>> \o
            [j \in 1..n |-> Fact(<<what, scopes[j]>>, IF j <= i THEN "none" ELSE scopes[j])]
    IN cat(set) \o cat(clear)

\* Three independent copies; the named one has B.
three_copies ==
    LET v(s) == IF s = "alt" THEN "B" ELSE "A"
    IN <<remote("system", "A"), ok("system", Install("app", {}))>> \o installed("system", "A")
       \o <<Lists("alt", Refs, {}), Lists("user", Refs, {}), remote("alt", "B"), remote("user", "A"),
            ok("alt", Install("app", {}))>> \o installed("alt", "B") \o installed("system", "A")
       \o <<Lists("user", Refs, {}), ok("user", Install("app", {}))>>
       \o ForEach(LAMBDA s : <<ok(s, Install("runtime", {}))>> \o installed(s, v(s)))

copies(sys, alt, user) == installed("system", sys) \o installed("alt", alt) \o installed("user", user)

selectors_lifecycle ==
    LET copy == [system |-> "B", alt |-> "A", user |-> "B"]
        turn(s) ==
            <<ok(s, Uninstall("app", {})), Lists(s, Apps, {}), Absent(s, "app"), Shows(s, "runtime", "R")>>
            \o Others(s, LAMBDA o : installed(o, copy[o]))
            \o <<ok(s, Install("app", {})), Astray(ok(s, With(copy[s], Update("app", {}))))>> \o installed(s, copy[s])
    IN <<Spilling(tip("system", "B")), ok("system", Update("app", {}))>> \o copies("B", "B", "A")
       \o <<ok("alt", With("A", Update("app", {})))>> \o copies("B", "A", "A")
       \o <<tip("user", "B"), ok("user", Update("app", {}))>> \o copies("B", "A", "B")
       \o ForEach(turn)

selectors_install_options ==
    LET updated == installed("system", "B") \o installed("user", "A")
    IN <<Unseen({"lies"}, ok("system", Uninstall("app", {}))), ok("system", Install("app", {}))>>
       \o copies("A", "B", "A")
       \o <<Spilling(tip("system", "B")), ok("system", Install("app", {"or-update"}))>> \o updated
       \o <<Unseen({"lies", "elsewhere", "everywhere"}, ok("system", With("A", Update("app", {})))),
            ok("system", Install("app", {"reinstall"}))>> \o updated

selectors_disabled ==
    LET disabled(v) == ok("system", Set(<<"disabled", "system", "fixture">> :> v))
        update(s) == ok(s, Update("all", {}))
    IN <<Spilling(tip("system", "B")), tip("user", "B"), Spilling(disabled("yes")),
         Fact(<<"disabled", "system", "fixture">>, "yes"), Fact(<<"disabled", "user", "fixture">>, "none"),
         Astray(update("system"))>> \o installed("system", "A")
       \o <<update("user")>> \o installed("user", "B")
       \o <<Spilling(disabled("none")), update("system")>> \o installed("system", "B")

selectors_queries ==
    ForEach(LAMBDA s : <<Lists(s, Apps, {"app"}), Lists(s, Runtimes, {"runtime"}),
                         Lists(s, Refs \ ForeignArch, {"app", "runtime"}), Lists(s, {}, {})>>)
    \o <<ok("system", Uninstall("all", {})), Lists("system", Refs, {})>> \o installed("user", "A") \o installed("alt", "B")
    \o <<ok("alt", Uninstall("app", {})), Lists("alt", Refs, {"runtime"}), Lists("user", Refs, {"app", "runtime"}),
         Lists("system", Refs, {})>>

\* Scenarios on the three copies.
on_copies(n) == three_copies \o
    CASE n = "system-selectors-lifecycle" -> selectors_lifecycle
      [] n = "system-selectors-install-options" -> selectors_install_options
      [] n = "system-selectors-ambiguous" -> <<ok("system", Reject("ambiguous"))>> \o copies("A", "B", "A")
      [] n = "system-selectors-remote-force" ->
            ForEach(LAMBDA s :
                <<ok(s, RefusedFor("used", RemoteDelete({}))), Spilling(ok(s, RemoteDelete({"force"}))),
                  Configured(s, {})>> \o installed(s, IF s = "alt" THEN "B" ELSE "A"))
      [] n = "system-selectors-disabled" -> selectors_disabled
      [] n = "system-selectors-queries" -> selectors_queries
      [] n = "system-selectors-run" ->
            <<Shows("alt", "app", "B"), Spilling(tip("system", "B")), ok("system", Update("app", {}))>>
            \o installed("system", "B") \o installed("user", "A") \o <<Shows("system", "app", "B"), Shows("user", "app", "A")>>

SelectorNames == {"system-selectors-config", "system-selectors-remotes", "system-selectors-remote-queries",
    "system-selectors-overrides", "system-selectors-override-named", "system-selectors-patterns",
    "system-selectors-lifecycle", "system-selectors-install-options", "system-selectors-ambiguous",
    "system-selectors-remote-force", "system-selectors-disabled", "system-selectors-queries",
    "system-selectors-run"}

selectors_run(n) == Namespace(Guarded(
    CASE n = "system-selectors-config" -> selectors_config
      [] n = "system-selectors-remotes" -> selectors_remotes
      [] n = "system-selectors-remote-queries" -> selectors_remote_queries
      [] n = "system-selectors-overrides" -> scoped("override", <<"system", "user">>)
      [] n = "system-selectors-override-named" -> scoped("override", SELECTORS)
      [] n = "system-selectors-patterns" -> scoped("masks", SELECTORS) \o scoped("pins", SELECTORS)
      [] OTHER -> on_copies(n)))
=============================================================================
