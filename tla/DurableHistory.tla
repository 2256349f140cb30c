--------------------------- MODULE DurableHistory ---------------------------
(***************************************************************************)
(* What the coverage history promises its readers: snapshots are accepted  *)
(* in batches, at once; what is kept of every key is the best of all that  *)
(* were ever accepted; and the dashboard shows the kept history of some    *)
(* moment, whole.                                                          *)
(***************************************************************************)
CONSTANTS
    Keys,           \* what one entry is kept for
    NoEntry,        \* nothing was kept
    Key(_),         \* the key of a snapshot
    AtMost(_, _)    \* the first snapshot does not beat the second

VARIABLES
    log,            \* snapshots accepted
    durable,        \* the history kept
    dashboard       \* the history shown

vars == <<log, durable, dashboard>>

\* h keeps, for every key, the best of the snapshots S.
Holds(h, S) ==
    /\ \A k \in Keys : h[k] # NoEntry => h[k] \in S /\ Key(h[k]) = k
    /\ \A s \in S : h[Key(s)] # NoEntry /\ AtMost(s, h[Key(s)])

Init == log = {} /\ durable = [k \in Keys |-> NoEntry] /\ dashboard = durable

Accept == log \subseteq log' /\ Holds(durable', log') /\ UNCHANGED dashboard
Show == dashboard' = durable /\ UNCHANGED <<log, durable>>

Spec == Init /\ [][Accept \/ Show]_vars
=============================================================================
