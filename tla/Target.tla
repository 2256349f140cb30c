------------------------------- MODULE Target -------------------------------
(***************************************************************************)
(* What the scenario files of the suite require of a Flatpak target, as a  *)
(* function of the installation state, and the vocabulary of the scenario  *)
(* programs: commands, queries and assignments of the harness.             *)
(*                                                                         *)
(* The target is external.  Its state is a map from facts (tuples of       *)
(* strings) to values; a fact that was never set is "none":                *)
(*   <<"at", scope, ref>>       the deployed version of a ref              *)
(*   <<"cache", scope, ref>>    the version pulled into the local repository *)
(*   <<"remote", scope, name>>  where a remote points: "server" or a version *)
(*   <<"env", what>>            what the harness controls                  *)
(* and, per scope, the restrictions hidden, gpg, nodeps, disabled, mask,   *)
(* pin and optout.                                                         *)
(***************************************************************************)
EXTENDS Naturals, Sequences, FiniteSets, TLC
LOCAL INSTANCE SequencesExt

Apps == {"app", "query", "native", "foreign", "first", "second"}
Runtimes == {"runtime", "ext", "ext-next"}
Refs == Apps \union Runtimes
ForeignArch == {"foreign"}
Remotes == {"fixture", "other", "third"}
Scopes == {"user", "system", "alt"}

\* The runtime an application needs.
Needs(r) == IF r \in Apps THEN {"runtime"} ELSE {}

At(w, k) == IF k \in DOMAIN w THEN w[k] ELSE "none"
Lacks(w, k) == At(w, k) = "none"

\* The facts of a set of keys, all with one value.
Each(keys, v) == [k \in keys |-> v]

\* The user's installation depends on the home directory the harness exports.
Home(w, s) == IF s = "user" /\ ~Lacks(w, <<"env", "home">>) THEN At(w, <<"env", "home">>) ELSE s

Installed(w, s) == {r \in Refs : ~Lacks(w, <<"at", Home(w, s), r>>)}

\* The version a remote offers of a ref; the runtime has one version.
Tip(w, s, remote, r) ==
    LET url == At(w, <<"remote", Home(w, s), remote>>)
    IN IF r = "runtime" THEN "R" ELSE IF url = "server" THEN At(w, <<"env", "version">>) ELSE url

-----------------------------------------------------------------------------
\* Steps of a scenario program.

\* A command of the target; `need' is the outcome the scenario requires and `raises'
\* the exception otherwise.
Command(op, ref, opts) ==
    [kind |-> "do", op |-> op, scope |-> "user", remote |-> "fixture", ref |-> ref,
     opts |-> opts, arg |-> "none", plain |-> <<>>, given |-> <<>>, need |-> "ok", why |-> "any",
     raises |-> "failed", unseen |-> {}, exposed |-> {}, cut |-> {"setup-error"}]

In(s, c) == [c EXCEPT !.scope = s]
From(remote, c) == [c EXCEPT !.remote = remote]
With(arg, c) == [c EXCEPT !.arg = arg]
Setup(c) == [c EXCEPT !.raises = "setup-error"]
Refused(c) == [c EXCEPT !.need = "refused"]
RefusedFor(why, c) == [c EXCEPT !.need = "refused", !.why = why]
Try(c) == [c EXCEPT !.need = "any"]

\* A command some of whose faults no check of its scenario can notice.
Unseen(hows, c) == [c EXCEPT !.unseen = hows]

Install(r, opts) == Command("install", r, opts)
Update(r, opts) == Command("update", r, opts)
Uninstall(r, opts) == Command("uninstall", r, opts)
RemoteAdd(url) == With(url, Command("remote-add", "none", {}))
RemoteEdit(url) == With(url, Command("remote-edit", "none", {}))
RemoteDelete(opts) == Command("remote-delete", "none", opts)

\* A command whose contract is to give the facts of f their values; one that gives
\* those of g instead when its options are not given; one that does so only where the
\* facts of h hold.
Opt(f, g) == [Command("set", "none", {}) EXCEPT !.arg = f, !.plain = g]
Set(f) == Opt(f, f)
\* A command whose contract is to fail after it gave the facts of f their values.
Failing(f) == [Set(f) EXCEPT !.op = "partial", !.need = "refused"]
FailingFor(why, c) == [c EXCEPT !.op = "partial", !.ref = why, !.need = "refused", !.why = why]
\* A command that may succeed, with the facts of f, or fail, with those of g; one that
\* succeeds with either.
AttemptOr(f, g) == [Opt(f, g) EXCEPT !.op = "attempt", !.need = "any"]
Attempt(f) == AttemptOr(f, <<>>)
Either(f, g) == [Opt(f, g) EXCEPT !.op = "either"]
When(h, c) == [c EXCEPT !.given = h]

\* Pulling a ref without deploying it, and removing the objects nothing refers to.
Pull(r) == Command("pull", r, {})
Prune == Command("prune", "none", {})

\* A command that must be refused for the reason given, if its remote is there.
Reject(why) == RefusedFor(why, Command("reject", why, {}))
\* One that would give the facts of f their values if nothing restrained it.
Forbid(why, f) == [Reject(why) EXCEPT !.plain = f]
ForbidAny(f) == [Forbid("none", f) EXCEPT !.why = "any"]
\* One that is refused for another reason when its options are not given.
RejectAs(why, otherwise) == [Reject(why) EXCEPT !.opts = {why}, !.arg = otherwise]

\* A service is stopped and started again: what is transient is gone.
Restart == [Command("restart", "none", {}) EXCEPT !.raises = "unmet-prerequisite"]

\* The harness itself changes what it controls (server, files, environment).
Env(f) == [kind |-> "env", arg |-> {f}]
\* A choice the contract leaves to the target, which makes it once.
Free(k, values) == [kind |-> "env", arg |-> {k :> v : v \in values}]
\* The case stops, blocked, where its fixtures or tools were not prepared.
Require == [kind |-> "require", stops |-> {"unmet-prerequisite"}, unseen |-> {}]
\* The inputs are made by a tool of the harness: it may be missing, or fail.
Prepare == [Require EXCEPT !.stops = @ \union {"setup-error"}]
\* A tool or a service of the harness whose failure the scenario reports as a mismatch.
Blamed == [Prepare EXCEPT !.stops = @ \union {"failed"}]
Publish(v) == Env(<<"env", "version">> :> v)

\* A query, what it is compared with and the exception otherwise.
Query(what, scope, arg, want) ==
    [kind |-> "see", what |-> what, scope |-> scope, arg |-> arg, want |-> want,
     raises |-> "failed", exposed |-> {}, cut |-> {"setup-error"}]
Shows(s, r, v) == Query("at", s, r, v)
Absent(s, r) == Shows(s, r, "none")
Lists(s, among, refs) == Query("refs", s, among, refs)
Tips(s, r, v) == Query("tip", s, r, v)
Offers(s, among, refs) == Query("offers", s, among, refs)
Configured(s, remotes) == Query("remotes", s, "none", remotes)
UpdatesFrom(remote, refs) == Query("updates", "user", remote, refs)
Updates(refs) == UpdatesFrom("fixture", refs)
Fact(k, v) == Query("fact", "user", k, v)
Plans(order) == Query("plan", "user", "none", order)
Began(order) == Query("new", "user", "none", order)
Finished(order) == Query("done", "user", "none", order)

\* A query whose answer is kept, and one compared with the kept answer.
Note(k) == [kind |-> "note", arg |-> k]
Same(k) == [kind |-> "same", arg |-> k, raises |-> "failed"]

\* A failure of the last command or a wrong answer is only counted; the count is
\* judged later.
Count(r, v) == [kind |-> "count", what |-> "at", scope |-> "user", arg |-> r, want |-> v]
Observed(q) == [kind |-> "count", what |-> q.what, scope |-> q.scope, arg |-> q.arg, want |-> q.want]
NoFailures == [kind |-> "nofailures", raises |-> "failed"]

\* The steps are taken only if the last command succeeded, only if it did not, or only
\* where a fact, or the plan of the last command, has a value.
If(status, steps) == <<[kind |-> "if", when |-> status, of |-> <<>>, arg |-> Len(steps)]>> \o steps
IfFact(k, v, steps) == <<[kind |-> "if", when |-> v, of |-> k, arg |-> Len(steps)]>> \o steps
IfPlan(order, steps) == IfFact(<<"plan">>, order, steps)
IfOk(steps) == If("ok", steps)
IfRefused(steps) == If("refused", steps)

\* A try block: its clean-up is reached however the steps end, and where it fails its
\* own exception replaces theirs.
Finally(stops, steps) == steps \o <<[kind |-> "finally", arg |-> Len(steps), stops |-> stops]>>

\* Steps in the private namespace.  What the namespace cannot do for a command blocks the
\* case; a namespace that is not set up for it is not told from the command's failure.
InNamespace(exposed, cut, steps) ==
    [i \in DOMAIN steps |-> IF steps[i].kind \in {"do", "see"}
                            THEN [steps[i] EXCEPT !.exposed = exposed, !.cut = cut] ELSE steps[i]]
Guarded(steps) == InNamespace({"environment", "bootstrap"}, {"setup-error"}, steps)
\* Steps of a script that is run in the namespace: it has time limits of its own, and only
\* its exit status is judged.
Scripted(steps) == InNamespace({"bootstrap"}, {"setup-error", "failed"}, steps)
\* The namespace is probed first, and its state removed in the end.
Namespace(steps) == Finally({"setup-error"}, <<Prepare>> \o steps)

\* The programs of every element of a list, one after the other.
ForAll(list, program(_)) == FlattenSeq([i \in DOMAIN list |-> program(list[i])])

\* A fact of each element of a list: v where it is in S, absent elsewhere.
Exactly(list, key(_), S, v) ==
    [i \in DOMAIN list |-> Fact(key(list[i]), IF list[i] \in S THEN v ELSE "none")]

-----------------------------------------------------------------------------
\* The contract: the outcomes allowed of command c in state w.

\* An outcome: exit status, the reason of a refusal, the new state, and the operations
\* the transaction resolved, began and completed, in their order.
Outcome(status, why, w, plan, new, done) ==
    [status |-> status, why |-> why, world |-> w, plan |-> plan, new |-> new, done |-> done]
Done(w, f, ops) == {Outcome("ok", "none", f @@ w, ops, ops, ops)}
Refusal(w, why, plan, new) == {Outcome("refused", why, w, plan, new, <<>>)}

\* The server recorded a request for a payload it denies.
Denied == <<"env", "payload">> :> "denied"

Hidden(w, s, remote, r) == At(w, <<"hidden", s, remote, r>>) = "yes"

\* A remote a dependency may come from.
Provider(w, s, r) ==
    {m \in Remotes : /\ ~Lacks(w, <<"remote", s, m>>) /\ Lacks(w, <<"nodeps", s, m>>)
                     /\ ~Hidden(w, s, m, r)}

\* --app and --runtime exclude the other kind, --arch the other architecture.
Excluded(c, r) ==
    \/ "app" \in c.opts /\ r \notin Apps
    \/ "runtime" \in c.opts /\ r \notin Runtimes
    \/ "foreign" \in c.opts /\ r \notin ForeignArch

\* An ambiguous name is resolved by the options, else to the native architecture.
Named(c, candidates) ==
    IF c.ref # "named" THEN {c.ref}
    ELSE IF "foreign" \in c.opts THEN candidates \intersect ForeignArch
    ELSE candidates \ ForeignArch

Sequence(deps, refs) ==
    LET seq(S) == CHOOSE f \in [1..Cardinality(S) -> S] : {f[i] : i \in DOMAIN f} = S
    IN seq(deps) \o seq(refs)

\* The provider with the highest priority.
Preferred(P) == IF "third" \in P THEN "third" ELSE IF "other" \in P THEN "other" ELSE "fixture"

Installs(w, c) ==
    LET s == Home(w, c.scope)
        r == IF c.ref = "named" THEN CHOOSE x \in Named(c, {"native", "foreign"}) : TRUE ELSE c.ref
        deps == IF "no-deps" \in c.opts THEN {} ELSE Needs(r) \ Installed(w, c.scope)
        all == {r} \union deps
        plan == Sequence(deps, {r})
        commit(t) == IF "no-pull" \in c.opts THEN At(w, <<"cache", s, t>>)
                     ELSE Tip(w, c.scope, c.remote, t)
        deployed == IF "no-deploy" \in c.opts THEN <<>>
                    ELSE [k \in {<<"at", s, t>> : t \in all} |-> commit(k[3])]
        origins == [k \in {<<"origin", s, t>> : t \in all} |->
                       IF k[3] = r THEN c.remote ELSE Preferred(Provider(w, s, k[3]))]
        pulled == [k \in {<<"cache", s, t>> : t \in all} |-> commit(k[3])]
        pinned == IF r \in Runtimes /\ "no-pin" \notin c.opts THEN <<"pin", s, r>> :> "yes" ELSE <<>>
    IN IF Lacks(w, <<"remote", s, c.remote>>) THEN Refusal(w, "remote", <<>>, <<>>)
       ELSE IF Hidden(w, s, c.remote, r) \/ Excluded(c, r) THEN Refusal(w, r, <<>>, <<>>)
       ELSE IF At(w, <<"gpg", s, c.remote>>) = "yes" THEN Refusal(w, "signature", <<>>, <<>>)
       ELSE IF \E t \in deps : \/ Provider(w, s, t) = {}
                               \/ "decline" \in c.opts /\ c.remote \notin Provider(w, s, t)
       THEN Refusal(w, "runtime", <<>>, <<>>)
       ELSE IF "no-pull" \in c.opts /\ \E t \in all : commit(t) = "none"
       THEN Refusal(w, "local", <<>>, <<>>)
       ELSE IF r \in Installed(w, c.scope) /\ {"reinstall", "or-update"} \intersect c.opts = {}
       THEN IF "library" \in c.opts THEN Refusal(w, "installed", <<>>, <<>>) ELSE Done(w, <<>>, <<>>)
       ELSE IF "abort" \in c.opts THEN Refusal(w, "aborted", plan, <<>>)
       ELSE IF {"no-pull", "sideload"} \intersect c.opts = {} /\ At(w, <<"blocked", r>>) = "yes"
       THEN Refusal(Denied @@ w, "payload", plan, <<r>>)
       ELSE Done(w, deployed @@ pulled @@ pinned @@ origins, plan)

\* Without a ref, every eligible installed ref is updated.
Updating(w, c) ==
    LET s == Home(w, c.scope)
        named == IF c.ref = "all" THEN Installed(w, c.scope)
                 ELSE Named(c, {"native", "foreign"})
        commit(t) == IF c.arg # "none" THEN c.arg
                     ELSE IF "no-pull" \in c.opts THEN At(w, <<"cache", s, t>>)
                     ELSE Tip(w, c.scope, c.remote, t)
        eligible == {t \in named : ~Excluded(c, t) /\ Lacks(w, <<"mask", s, t>>)
                                   /\ Lacks(w, <<"disabled", s, c.remote>>)}
        changed == {t \in eligible : commit(t) # At(w, <<"at", s, t>>)}
        deps == IF "no-deps" \in c.opts THEN {}
                ELSE (UNION {Needs(t) : t \in changed}) \ Installed(w, c.scope)
        all == changed \union deps
        deployed == IF "no-deploy" \in c.opts THEN <<>>
                    ELSE [k \in {<<"at", s, t>> : t \in all} |-> commit(k[3])]
        pulled == [k \in {<<"cache", s, t>> : t \in all} |-> commit(k[3])]
        local == {"no-pull", "sideload"} \intersect c.opts # {}
        traffic == IF local \/ all = {} THEN <<>>
                   ELSE <<"env", "payload">> :> "fetched"
        plan == Sequence(deps, changed)
    IN IF c.ref \in Refs /\ c.ref \notin Installed(w, c.scope) THEN Refusal(w, "absent", <<>>, <<>>)
       ELSE IF "abort" \in c.opts THEN Refusal(w, "aborted", plan, <<>>)
       ELSE IF "cancel" \in c.opts /\ changed # {} THEN Refusal(w, "cancelled", plan, plan)
       ELSE IF ~local /\ \E t \in changed : At(w, <<"blocked", t>>) = "yes"
       THEN Refusal(Denied @@ w, "payload", plan, plan)
       ELSE IF "rebase" \in c.opts /\ plan = <<"first">>
       THEN Done(w, (<<"at", s, "second">> :> commit("second")) @@ (<<"at", s, "first">> :> "none"),
                 <<"second", "first">>)
       ELSE Done(w, deployed @@ pulled @@ traffic, plan)

\* Refs no installed application needs, and not pinned.
Unused(w, s) ==
    {r \in Installed(w, s) \intersect Runtimes :
        /\ Lacks(w, <<"pin", Home(w, s), r>>)
        /\ \A a \in Installed(w, s) : r \notin Needs(a)}

Uninstalls(w, c) ==
    LET s == Home(w, c.scope)
        gone == CASE c.ref = "all" -> Installed(w, c.scope)
                  [] c.ref = "unused" -> Unused(w, c.scope)
                  [] OTHER -> Named(c, {"native", "foreign"}) \intersect Installed(w, c.scope)
        kept == IF {"keep-ref", "no-deploy"} \intersect c.opts # {} THEN {} ELSE gone
        undeployed == IF "no-deploy" \in c.opts THEN {} ELSE gone
    IN IF (c.ref \notin {"all", "unused"} /\ gone = {}) \/ \E t \in gone : Excluded(c, t)
       THEN Refusal(w, "absent", <<>>, <<>>)
       ELSE Done(w, Each({<<"at", s, t>> : t \in undeployed}
                         \union {<<"cache", s, t>> : t \in kept}, "none")
                    @@ Each({<<"optout", s, t>> : t \in undeployed}, "yes"),
                 Sequence({}, gone))

\* preinstall brings the installation to what the configuration asks for, except what
\* the user removed; the references a definition removes can come back.
Preinstalls(w, c) ==
    LET s == c.scope
        asked(v) == {r \in {"app", "runtime"} : At(w, <<"preinstall", r>>) = v}
        new == {r \in asked("install") : Lacks(w, <<"at", s, r>>) /\ Lacks(w, <<"optout", s, r>>)}
        old == {r \in asked("remove") : ~Lacks(w, <<"at", s, r>>)}
        commit(t) == Tip(w, s, c.remote, t)
        deployed == IF "no-deploy" \in c.opts THEN <<>>
                    ELSE [k \in {<<"at", s, t>> : t \in new} |-> commit(k[3])]
    IN IF "sideload" \notin c.opts /\ \E t \in new : At(w, <<"blocked", t>>) = "yes"
       THEN Refusal(Denied @@ w, "payload", Sequence(old, new), <<>>)
       ELSE Done(w, deployed @@ [k \in {<<"cache", s, t>> : t \in new} |-> commit(k[3])]
                    @@ Each({<<"at", s, t>> : t \in old}, "none"),
                 Sequence(old, new))

\* A transaction that updates `first' and installs `second'; it stops at the first
\* operation that fails, or continues if the callback says so.
UpdateInstalls(w, c) ==
    LET s == Home(w, c.scope)
        order == IF At(w, <<"env", "order">>) = "second" THEN <<"second", "first">> ELSE <<"first", "second">>
        bad == {i \in 1..2 : At(w, <<"blocked", order[i]>>) = "yes"}
        stop == IF "continue" \in c.opts \/ bad = {} THEN 2 ELSE CHOOSE i \in bad : TRUE
        good == {i \in 1..stop : i \notin bad}
        after == [k \in {<<"at", s, order[i]>> : i \in good} |-> Tip(w, c.scope, c.remote, k[3])]
                 @@ (IF bad = {} THEN <<>> ELSE Denied) @@ w
        result(status) == Outcome(status, "payload", after, order, SubSeq(order, 1, stop),
                                  SelectSeq(order, LAMBDA r : \E i \in good : order[i] = r))
    IN IF "abort" \in c.opts THEN Refusal(w, "aborted", order, <<>>)
       ELSE IF bad = {} THEN {result("ok")}
       ELSE IF "continue" \in c.opts THEN {result("ok"), result("refused")}
       ELSE {result("refused")}

\* `first' is replaced by `second': the replacement is installed before the old one goes.
Rebases(w, c) ==
    LET s == Home(w, c.scope)
        new == IF "second" \in Installed(w, c.scope) THEN <<>> ELSE <<"second">>
        old == IF "first" \in Installed(w, c.scope) THEN <<"first">> ELSE <<>>
    IN IF At(w, <<"blocked", "second">>) = "yes" THEN Refusal(w, "payload", new \o old, new)
       ELSE Done(w, (<<"at", s, "second">> :> Tip(w, c.scope, c.remote, "second"))
                    @@ (<<"at", s, "first">> :> "none"), new \o old)

\* What the local repository holds is not fetched again.
Pulls(w, c) ==
    LET objects == <<"objects", c.scope, c.ref>>
        pulled == <<"cache", c.scope, c.ref>> :> Tip(w, c.scope, c.remote, c.ref)
    IN IF ~Lacks(w, objects) THEN Done(w, pulled, <<>>)
       ELSE IF At(w, <<"blocked", c.ref>>) = "yes"
       THEN Refusal(Denied @@ w, "payload", <<>>, <<>>)
       ELSE Done(w, pulled @@ (objects :> "yes") @@ (<<"env", "payload">> :> "fetched"), <<>>)

Given(w, c) == \A k \in DOMAIN c.given : At(w, k) = c.given[k]

\* The remote comes with the ref; it stays only if the installation succeeds.
InstallsFrom(w, c) ==
    LET remote == <<"remote", Home(w, c.scope), c.remote>>
        all == Installs((remote :> "server") @@ w, [c EXCEPT !.opts = @ \ {"decline"}])
        kept == {IF o.status = "ok" THEN o ELSE [o EXCEPT !.world = w] : o \in all}
    IN IF "decline" \in c.opts
       THEN Refusal(w, "declined", <<>>, <<>>)
            \union {[o EXCEPT !.world = (remote :> At(w, remote)) @@ @] : o \in kept}
       ELSE kept

RemoteAdds(w, c) ==
    LET remote == <<"remote", Home(w, c.scope), c.remote>>
    IN IF Lacks(w, remote) THEN Done(w, remote :> c.arg, <<>>)
       ELSE IF "if-not-exists" \in c.opts THEN Done(w, <<>>, <<>>)
       ELSE Refusal(w, "exists", <<>>, <<>>)

RemoteEdits(w, c) ==
    LET remote == <<"remote", Home(w, c.scope), c.remote>>
    IN IF Lacks(w, remote) THEN Refusal(w, "remote", <<>>, <<>>)
       ELSE Done(w, remote :> c.arg, <<>>)

RemoteDeletes(w, c) ==
    IF "force" \notin c.opts /\ Installed(w, c.scope) # {} THEN Refusal(w, "used", <<>>, <<>>)
    ELSE Done(w, <<"remote", Home(w, c.scope), c.remote>> :> "none", <<>>)

Rebuilds(w, c) ==
    LET k == <<"identity", c.scope>>
        identity == k :> (IF Lacks(w, k) THEN "rebuilt" ELSE "rebuilt again")
    IN Done(w, <<>>, <<>>) \union IF "unprivileged" \in c.opts THEN Refusal(w, "root", <<>>, <<>>)
                                  ELSE Done(w, identity, <<>>)

Restarts(w) ==
    Done(w, Each({k \in DOMAIN w : k[1] = "doc" /\ At(w, <<"transient", k[2]>>) = "yes"}, "none"), <<>>)

Prunes(w, c) ==
    LET unused == {x \in Refs : Lacks(w, <<"cache", c.scope, x>>)}
    IN Done(w, Each({<<"objects", c.scope, r>> : r \in unused}, "none"), <<>>)

Rejects(w, c) ==
    LET why == IF Lacks(w, <<"remote", Home(w, c.scope), c.remote>>) THEN "remote"
               ELSE IF ~Given(w, c) THEN "unmet"
               ELSE IF c.arg # "none" /\ c.ref \notin c.opts THEN c.arg ELSE c.ref
    IN Refusal(w, why, <<>>, <<>>)

\* A command whose contract is what it changes, where its conditions hold.
Changes(w, c) ==
    LET given == c.arg @@ w
        other == c.plain @@ w
        reason == IF c.ref = "none" THEN "failed" ELSE c.ref
    IN IF ~Given(w, c) THEN Refusal(w, IF c.op = "partial" THEN "failed" ELSE "unmet", <<>>, <<>>)
       ELSE CASE c.op = "set" -> Done(w, c.arg, <<>>)
              [] c.op = "partial" -> Refusal(given, reason, <<>>, <<>>)
              [] c.op = "attempt" -> Done(w, c.arg, <<>>) \union Refusal(other, "failed", <<>>, <<>>)
              [] c.op = "either" -> Done(w, c.arg, <<>>) \union Done(w, c.plain, <<>>)

Contract(w, c) ==
    CASE c.op = "install" -> Installs(w, c)
      [] c.op = "install-from" -> InstallsFrom(w, c)
      [] c.op = "update" -> Updating(w, c)
      [] c.op = "update-install" -> UpdateInstalls(w, c)
      [] c.op = "rebase" -> Rebases(w, c)
      [] c.op = "uninstall" -> Uninstalls(w, c)
      [] c.op = "preinstall" -> Preinstalls(w, c)
      [] c.op = "remote-add" -> RemoteAdds(w, c)
      [] c.op = "remote-edit" -> RemoteEdits(w, c)
      [] c.op = "remote-delete" -> RemoteDeletes(w, c)
      [] c.op = "repair" -> Rebuilds(w, c)
      [] c.op = "restart" -> Restarts(w)
      [] c.op = "pull" -> Pulls(w, c)
      [] c.op = "prune" -> Prunes(w, c)
      [] c.op = "reject" -> Rejects(w, c)
      [] c.op \in {"set", "partial", "attempt", "either"} -> Changes(w, c)

-----------------------------------------------------------------------------
\* What a query shows.

Offered(w, s) ==
    {r \in {"app", "runtime"} :
        ~Lacks(w, <<"remote", s, "fixture">>) /\ ~Hidden(w, s, "fixture", r)}

Observe(w, q) ==
    CASE q.what = "at" -> At(w, <<"at", Home(w, q.scope), q.arg>>)
      [] q.what = "refs" -> Installed(w, q.scope) \intersect q.arg
      [] q.what = "offers" -> Offered(w, q.scope) \intersect q.arg
      [] q.what = "remotes" -> {m \in Remotes : ~Lacks(w, <<"remote", q.scope, m>>)}
      [] q.what = "tip" -> Tip(w, q.scope, "fixture", q.arg)
      [] q.what = "updates" ->
            IF Lacks(w, <<"remote", q.scope, q.arg>>) THEN {"no remote"}
            ELSE {r \in Installed(w, q.scope) :
                     /\ At(w, <<"origin", Home(w, q.scope), r>>) = q.arg
                     /\ Tip(w, q.scope, q.arg, r) # At(w, <<"at", Home(w, q.scope), r>>)}
      [] q.what = "fact" -> At(w, q.arg)
=============================================================================
