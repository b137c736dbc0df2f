--------------------------- MODULE BreakerContract ---------------------------
(***************************************************************************)
(* What a circuit breaker promises to the code that consults it, without   *)
(* counters or clocks: three regimes and the changes between them that     *)
(* may ever be observed.                                                   *)
(*                                                                         *)
(*   closed    calls go through and failures are counted                   *)
(*   open      fail fast: a new call is refused without touching the       *)
(*             downstream service                                          *)
(*   probing   the recovery window has elapsed and no success has been     *)
(*             seen yet: calls go through again                            *)
(***************************************************************************)

VARIABLE regime

Regimes == {"closed", "open", "probing"}

Init == regime = "closed"

\* The failure that reaches the threshold always starts a whole window.
Trip == regime = "closed" /\ regime' = "open"

\* The only way into probing is that an open window ran out.
WindowElapses == regime = "open" /\ regime' = "probing"

\* A failed probe starts a whole new window.
ProbeFails == regime = "probing" /\ regime' = "open"

\* A success closes the circuit, also a late one that arrives while open.
Close == regime \in {"open", "probing"} /\ regime' = "closed"

Next == Trip \/ WindowElapses \/ ProbeFails \/ Close

Spec == Init /\ [][Next]_regime
=============================================================================
