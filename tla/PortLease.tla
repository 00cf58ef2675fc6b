----------------------------- MODULE PortLease -----------------------------
(***************************************************************************)
(* What the registry promises about host ports, whatever the handlers do:  *)
(* a live server holds one port of the range, alone, from the moment its   *)
(* record appears until it is deleted; the port of a server never changes, *)
(* and a server that is gone never holds a port again.                     *)
(***************************************************************************)
CONSTANTS Servers, LeasablePorts

VARIABLES lease, \* the port each live server holds
          spent  \* the servers that hold or have held one

Init == lease = << >> /\ spent = {}

Claim(s, p) ==
  /\ s \notin spent /\ \A t \in DOMAIN lease : lease[t] # p
  /\ lease' = [t \in DOMAIN lease \cup {s} |-> IF t = s THEN p ELSE lease[t]]
  /\ spent' = spent \cup {s}

Release(s) ==
  /\ s \in DOMAIN lease
  /\ lease' = [t \in DOMAIN lease \ {s} |-> lease[t]]
  /\ UNCHANGED spent

Next ==
  \/ \E s \in Servers, p \in LeasablePorts : Claim(s, p)
  \/ \E s \in DOMAIN lease : Release(s)

Spec == Init /\ [][Next]_<<lease, spent>>
=============================================================================
