---------------------------- MODULE MountLifetime ----------------------------
(***************************************************************************)
(* What sharing a mount promises its tenants, whatever files and locks it  *)
(* is done with: a mount is up before a tenant boards it and falls only    *)
(* once the last tenant has left, unless it is broken from outside.        *)
(***************************************************************************)
CONSTANTS Place, Tenant

VARIABLES up, broken, tenants

lifetimeVars == <<up, broken, tenants>>

Init ==
  /\ up = {} /\ broken = {}
  /\ tenants = [m \in Place |-> {}]

Raise(m) ==
  /\ m \notin up
  /\ up' = up \cup {m}
  /\ UNCHANGED <<broken, tenants>>

\* Whoever raised a mount boards it whatever has become of it since.
Board(m, t) ==
  /\ m \in up \cup broken
  /\ tenants' = [tenants EXCEPT ![m] = @ \cup {t}]
  /\ UNCHANGED <<up, broken>>

Depart(m, t) ==
  /\ t \in tenants[m]
  /\ tenants' = [tenants EXCEPT ![m] = @ \ {t}]
  /\ UNCHANGED <<up, broken>>

Fall(m) ==
  /\ m \in up /\ tenants[m] = {}
  /\ up' = up \ {m}
  /\ UNCHANGED <<broken, tenants>>

\* The promise is off for these mounts: the server was killed, the mount forced
\* off the path, or no launch can find the server.  They fall now or later.
Break(ms) ==
  /\ broken' = broken \cup ms
  /\ up' \in {up, up \ ms}
  /\ UNCHANGED tenants

Next ==
  \/ \E ms \in SUBSET Place : Break(ms)
  \/ \E m \in Place :
       \/ Raise(m) \/ Fall(m)
       \/ \E t \in Tenant : Board(m, t) \/ Depart(m, t)

Spec == Init /\ [][Next]_lifetimeVars
=============================================================================
