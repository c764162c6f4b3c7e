----------------------------- MODULE MCLifecycle -----------------------------
(***************************************************************************)
(* Lifecycle for TLC.                                                      *)
(***************************************************************************)
EXTENDS Lifecycle, TLC

MCSymmetry == Permutations(Requests)

NoOverlap == ~overlapped

NothingLost == ~overlapped /\ ~groupLost

\* A second start is made by the server, when the first has returned, and
\* beside starts and stops only.
SecondStartLater ==
    starts > 1 =>
        /\ sync = {}
        /\ Ended(Launcher(1)) \/ pc[Launcher(1)] = "resend"
        /\ \A r \in Requests : \A i \in DOMAIN todo[r] : todo[r][i] \in {"start", "stop"}
==============================================================================
