---------------------------- MODULE ConfigService ----------------------------
(* What a service that reads its configuration only when it starts promises   *)
(* to those who write the configuration: it serves some configuration that    *)
(* was current when it started, or nothing while it is stopped, and after     *)
(* the last change it comes to serve the current one. Dnsmasq implements it.  *)
CONSTANTS Contents,   \* what the configuration may be
          None        \* served while the service is stopped; no member of Contents

VARIABLES wanted,     \* the configuration as it is written now
          served      \* the configuration the running service has read

cvars == <<wanted, served>>

Init == /\ wanted \in Contents
        /\ served \in {wanted, None}

\* Somebody writes the configuration; the service does not notice.
Change == /\ wanted' \in Contents \ {wanted}
          /\ UNCHANGED served

\* The service starts and reads the configuration.
Load == /\ served # wanted
        /\ served' = wanted
        /\ UNCHANGED wanted

\* The service stops, or fails to start.
Halt == /\ served # None
        /\ served' = None
        /\ UNCHANGED wanted

Next == Change \/ Load \/ Halt

Spec == Init /\ [][Next]_cvars /\ WF_cvars(Load)
=============================================================================
