----------------------------- MODULE MCLifecycle -----------------------------
(* Instances of Lifecycle: every scenario with both drivers. *)
EXTENDS Lifecycle

AllNames == {"ready-abort", "missing-install", "absent-ref", "noop-update",
             "repeated-install", "lifecycle", "failed-update", "retry-update"}

\* The ways a target may break the contract.
Seen == {"none", "fails", "partial update", "silent failure", "eager install",
         "over-removal", "kept", "ready ignored", "wrong error", "stray ref", "no fetch"}
=============================================================================
