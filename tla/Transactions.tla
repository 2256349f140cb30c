---------------------------- MODULE Transactions ----------------------------
(***************************************************************************)
(* transaction_scenarios.py: transactions of the library client, judged by *)
(* their status, by the operations they resolve, begin and complete, and   *)
(* by the state they leave.  A payload denied by the fixture's server is   *)
(* <<"blocked", ref>>; <<"env", "payload">> is what the server recorded    *)
(* since the scenario last looked.                                         *)
(***************************************************************************)
EXTENDS Target

tx(c) == [c EXCEPT !.opts = @ \union {"library"}]
Payload == <<"env", "payload">>
Mark == Env(Payload :> "none")
Block(r, v) == Env(<<"blocked", r>> :> v)
Empty == Lists("user", Refs, {})

state(v) == <<Shows("user", "app", v), Shows("user", "runtime", "R")>>

\* A healthy install: the dependency first, every resolved operation executed.
installed ==
    <<Plans(<<"runtime", "app">>), Began(<<"runtime", "app">>), Finished(<<"runtime", "app">>)>>
    \o state("A")

\* The dependency's remote is chosen by the callback, in descending priority.
choose_remote ==
    <<Setup(Set(<<"nodeps", "user", "fixture">> :> "yes")),
      Setup(Unseen({"lies"}, From("other", RemoteAdd("server")))),
      Setup(From("third", RemoteAdd("server"))),
      RefusedFor("runtime", tx(Install("app", {"decline"}))), Began(<<>>), Empty,
      tx(Install("app", {})), Fact(<<"origin", "user", "runtime">>, "third")>> \o state("A")

\* Declining the suggested remote may fail or install without it.
flatpakref ==
    LET from(opts) == tx(From("other", Command("install-from", "app", opts)))
        named(v) == Fact(<<"remote", "user", "other">>, v)
    IN <<Try(from({"decline"})), named("none")>>
       \o IfOk(state("A") \o <<tx(Uninstall("app", {}))>>)
       \o <<from({}), named("server")>> \o state("A")

\* A refused readiness or pre-authentication precedes all execution.
refusal(n) ==
    LET opts == IF n = "tx-disable-dependencies" THEN {"no-deps", "abort"} ELSE {"abort"}
    IN <<RefusedFor("aborted", tx(Install("app", opts))), Began(<<>>), Finished(<<>>),
         Plans(IF n = "tx-disable-dependencies" THEN <<"app">> ELSE <<"runtime", "app">>), Empty,
         tx(Install("app", {}))>> \o installed

operations(n) ==
    <<tx(Install("app", {}))>> \o installed \o
    CASE n = "tx-operation-list" -> <<tx(Update("app", {})), Plans(<<>>), Began(<<>>)>> \o state("A")
      [] n = "tx-operation-sizes" -> <<Unseen({"lies"}, tx(Uninstall("app", {}))), Plans(<<"app">>)>>
      [] OTHER -> <<>>

local(n) == <<Setup(tx(Install("app", {})))>> \o
    CASE n = "tx-no-deploy-uninstall" -> <<tx(Uninstall("app", {"no-deploy"}))>> \o state("A")
      [] n = "tx-explicit-commit" ->
            <<Publish("B"), tx(Update("app", {}))>> \o state("B")
            \o <<tx(With("A", Update("app", {})))>> \o state("A")
      [] OTHER ->
            <<Publish("B"), Mark, tx(Update("app", {"no-deploy"})), Fact(Payload, "fetched")>>
            \o state("A") \o
            (IF n = "tx-no-pull"
             THEN <<Mark, tx(Update("app", {"no-pull"})), Fact(Payload, "none")>> \o state("B")
             ELSE <<tx(Set(<<>>))>>)

error_sequence ==
    <<Setup(tx(Install("app", {}))), Publish("B"), Block("app", "yes"), Mark,
      Refused(tx(Update("app", {}))), Began(<<"app">>), Finished(<<>>), Fact(Payload, "denied")>>
    \o state("A")
    \o <<Block("app", "none"), tx(Update("app", {})), Began(<<"app">>), Finished(<<"app">>)>>
    \o state("B")

auto_pin ==
    LET pin == <<"pin", "user", "runtime">>
    IN <<tx(Install("runtime", {})), Fact(pin, "yes"), tx(Uninstall("runtime", {})),
         Set(pin :> "none"), Unseen({"lies"}, tx(Install("runtime", {"no-pin"}))), Fact(pin, "none")>>

\* The progress cadence is measured in three fresh homes, each left afterwards.
fresh_transaction_state(home) ==
    <<Env(<<"env", "home">> :> home), Publish("A"), Setup(RemoteAdd("server")),
      Setup(tx(Install("first", {}))), Shows("user", "first", "A"), Publish("B"),
      tx(Update("first", {})), Shows("user", "first", "B"), Env(<<"env", "home">> :> "none")>>

\* The target chooses the order of the plan; the operation that is to fail, the last or
\* the first of it, is denied its payload.
judged(n, order) ==
    LET both(opts) == tx(Command("update-install", "first", opts))
        Left(r) == IF r = "first" THEN Shows("user", r, "A") ELSE Absent("user", r)
    IN IF n = "tx-completed-survive"
       THEN <<Block(order[2], "yes"), Mark, Refused(both({})), Began(order), Finished(<<order[1]>>),
              Shows("user", order[1], "B"), Left(order[2])>>
       ELSE <<Block(order[1], "yes"), Mark, Unseen({"lies"}, Refused(both({}))), Began(<<order[1]>>), Finished(<<>>),
              Left("first"), Left("second"), Try(both({"continue"})), Began(order), Finished(<<order[2]>>),
              Left(order[1]), Shows("user", order[2], "B")>>

independent(n) ==
    LET forward == <<"first", "second">>
        backward == <<"second", "first">>
        planned == tx(Command("update-install", "first", {"abort"}))
    IN <<Free(<<"env", "order">>, {"first", "second"}), RefusedFor("aborted", planned)>>
       \o IfPlan(forward, judged(n, forward)) \o IfPlan(backward, judged(n, backward))
       \o <<Fact(Payload, "denied")>>

eol(n) == <<Publish(IF n = "tx-eol" THEN "EOL" ELSE "REBASE"), tx(Update("first", {}))>> \o
    (IF n = "tx-eol"
     THEN <<Shows("user", "first", "EOL"), Publish("REBASE"), tx(Update("first", {})),
            Shows("user", "first", "REBASE")>>
     ELSE <<Began(<<"first">>), Shows("user", "first", "REBASE"), Absent("user", "second"),
            tx(With("A", Update("first", {}))), tx(Update("first", {"rebase"})),
            Began(<<"second", "first">>), Shows("user", "second", "REBASE"), Absent("user", "first")>>)

rebase(n) ==
    LET replace == tx(Command("rebase", "first", {}))
    IN IF n = "tx-rebase-failure"
       THEN <<Block("second", "yes"), Refused(replace), Began(<<"second">>),
              Shows("user", "first", "A"), Absent("user", "second")>>
       ELSE <<replace, Began(<<"second", "first">>), Shows("user", "second", "B"), Absent("user", "first"),
              tx(Uninstall("second", {})), replace, Began(<<"second">>), Shows("user", "second", "B")>>

SupplementalNames == {"tx-metadata", "tx-independent-errors", "tx-completed-survive", "tx-progress",
    "tx-rate", "tx-frequency", "tx-eol", "tx-eol-rebase", "tx-rebase-success", "tx-rebase-failure"}

supplemental(n) ==
    <<Setup(RemoteEdit("server")), Setup(tx(Install("first", {}))), Shows("user", "first", "A"), Publish("B")>> \o
    (CASE n = "tx-metadata" ->
            <<RefusedFor("aborted", tx(Update("first", {"abort"}))), Plans(<<"first">>), Shows("user", "first", "A")>>
       [] n = "tx-frequency" ->
            fresh_transaction_state("f0") \o fresh_transaction_state("f1") \o fresh_transaction_state("f2")
       [] n \in {"tx-progress", "tx-rate"} -> <<tx(Update("first", {})), Shows("user", "first", "B")>>
       [] n \in {"tx-independent-errors", "tx-completed-survive"} -> independent(n)
       [] n \in {"tx-eol", "tx-eol-rebase"} -> eol(n)
       [] OTHER -> rebase(n))
    \o <<Shows("user", "runtime", "R")>>

TransactionNames == SupplementalNames \union {"tx-lookup", "tx-cancel-download", "tx-choose-remote",
    "tx-flatpakref", "tx-options", "tx-ready", "tx-pre-auth", "tx-disable-dependencies",
    "tx-operation-list", "tx-operation-sizes", "tx-ownership", "tx-download-only", "tx-no-pull",
    "tx-explicit-commit", "tx-no-deploy-uninstall", "tx-error-sequence", "tx-auto-pin"}

transaction_run(n) ==
    <<IF n \in {"tx-options", "tx-flatpakref"} THEN Setup(Unseen({"lies"}, RemoteAdd("server")))
      ELSE Setup(RemoteAdd("server"))>> \o
    CASE n = "tx-lookup" ->
            <<Setup(tx(Install("app", {}))), Setup(From("other", RemoteAdd("server"))),
              Fact(<<"remote", "user", "other">>, "server")>> \o state("A")
      [] n = "tx-cancel-download" ->
            <<Setup(tx(Install("app", {}))), Setup(RemoteEdit("B")),
              RefusedFor("cancelled", tx(Update("app", {"cancel"}))), Finished(<<>>)>> \o state("A")
      [] n = "tx-choose-remote" -> choose_remote
      [] n = "tx-flatpakref" -> flatpakref
      [] n \in SupplementalNames -> supplemental(n)
      [] n = "tx-options" -> <<tx(Set(<<>>)), Plans(<<>>), Began(<<>>), Empty>>
      [] n \in {"tx-ready", "tx-pre-auth", "tx-disable-dependencies"} -> refusal(n)
      [] n \in {"tx-operation-list", "tx-operation-sizes", "tx-ownership"} -> operations(n)
      [] n = "tx-error-sequence" -> error_sequence
      [] n = "tx-auto-pin" -> auto_pin
      [] OTHER -> local(n)
=============================================================================
