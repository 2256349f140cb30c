------------------------------ MODULE MCRunner ------------------------------
\* A small suite: a CLI behavior and a security sensitive library behavior.
EXTENDS Runner

McCases == {"install-cli", "auth-lib"}
McDriverOf == [c \in Cases |-> IF c = "auth-lib" THEN "library" ELSE "cli"]
McScenarioOf == [c \in Cases |-> IF c = "auth-lib" THEN "auth" ELSE "install"]
McSensitive == {"auth-lib"}
McRequirements == {"cli.install", "lib.auth"}
McSurfaces == {"opt", "fun"}
McSurfaceKind == [s \in McSurfaces |-> IF s = "opt" THEN "cli-option" ELSE "library-function"]
McReqSurfaces == [q \in McRequirements |-> IF q = "cli.install" THEN {} ELSE {"fun"}]
McMapping == [c \in Cases |-> IF c = "auth-lib" THEN {"lib.auth"} ELSE {"cli.install"}]
McSurfaceAssertions == [c \in Cases |-> {}]
McEquivalentOptions == [c \in Cases |-> IF c = "install-cli" THEN {"opt"} ELSE {}]
McOptionOf == [s \in McSurfaces |-> <<"install", "--user">>]
McDashes == {"--user", "--user=yes", "--"}
McValueForms == {<<"--user=yes", "--user">>}

\* What a case records: the adapter call, then calls at one interface; a call
\* whose program was missing has no result.
Setup == [interface |-> "setup", answered |-> TRUE, argv |-> <<"adapter">>,
          cli_argv |-> << >>, calls |-> {}, signals |-> {}]
Cli == [Setup EXCEPT !.interface = "cli", !.argv = <<"flatpak", "install", "--user">>]
Lib == [Setup EXCEPT !.interface = "library", !.argv = <<"client">>, !.calls = {"fun"}]
Torn == [Cli EXCEPT !.answered = FALSE, !.argv = <<"flatpak", "install", "--user=yes">>]
McHandlerEvidence == {{Setup, Cli, Lib}, {Setup, Torn}}
=============================================================================
