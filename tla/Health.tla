--------------------------------- MODULE Health ---------------------------------
(***************************************************************************)
(* The health indicator (src/src/health/jetstream.health-indicator.ts):    *)
(* check() probes every connection at once, a probe is the round trip of a *)
(* ping against a timer, and the verdict weighs the critical connections   *)
(* only.                                                                   *)
(***************************************************************************)
EXTENDS FiniteSets

VARIABLES
  probes,   \* the probe of each connection: none, waiting, ok or bad
  verdict   \* the last report: none, up, degraded or down

healthVars == <<probes, verdict>>

HealthTypeOK(names) ==
  /\ probes \in [names -> {"none", "waiting", "ok", "bad"}]
  /\ verdict \in {"none", "up", "degraded", "down"}

HealthInit(names) ==
  /\ probes = [n \in names |-> "none"]
  /\ verdict = "none"

Checking == \E n \in DOMAIN probes : probes[n] # "none"

\* check(): a connection that is not there or closed is bad at once.
CheckStarts(scopes, usable) ==
  /\ ~Checking
  /\ verdict' = "none"
  /\ probes' = [n \in DOMAIN probes |-> IF n \notin scopes THEN "none"
                                        ELSE IF n \in usable THEN "waiting" ELSE "bad"]

\* Mutant: the ping has no timer.
ProbeEndsOnAnswer(n, up) ==
  /\ probes[n] = "waiting"
  /\ up
  /\ probes' = [probes EXCEPT ![n] = "ok"]
  /\ UNCHANGED verdict

\* probe(): the ping is answered by a server that is up, or the timer or an error ends
\* it, which a slow server meets too.
ProbeEnds(n, up) ==
  /\ probes[n] = "waiting"
  /\ \/ up /\ probes' = [probes EXCEPT ![n] = "ok"]
     \/ probes' = [probes EXCEPT ![n] = "bad"]
  /\ UNCHANGED verdict

\* The report: down when a critical connection is, degraded when another one is.  An
\* only connection counts whether critical or not.
Verdict(critical) ==
  LET probed == {n \in DOMAIN probes : probes[n] # "none"}
      bad    == {n \in DOMAIN probes : probes[n] = "bad"}
  IN IF bad \cap critical # {} \/ (Cardinality(probed) = 1 /\ bad # {}) THEN "down"
     ELSE IF bad # {} THEN "degraded" ELSE "up"

\* check() returns, and isHealthy() throws when it is down.
CheckEnds(critical) ==
  /\ Checking
  /\ \A n \in DOMAIN probes : probes[n] # "waiting"
  /\ verdict' = Verdict(critical)
  /\ probes' = [n \in DOMAIN probes |-> "none"]
================================================================================
