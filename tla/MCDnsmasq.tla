------------------------------ MODULE MCDnsmasq ------------------------------
(* Dnsmasq on small instances: FireMain that starts, with one edit of a file,  *)
(* a failure and a crash to come, and FireMain that has been up for a while,   *)
(* with one edit more and a crash but no failure.                              *)
EXTENDS Dnsmasq, TLC

Starting == start = "resolv" /\ changes = MaxChanges - 1 /\ failures = 0
Running == start = "idle" /\ changes = 0 /\ failures = MaxFailures

MCInit == Init /\ crashes = 0 /\ (Starting \/ Running)
MCSpec == MCInit /\ [][Next]_vars /\ Fairness
=============================================================================
