---------------------------- MODULE LeaseAuthority ----------------------------
(***************************************************************************)
(* What the control lease promises, whatever protocol keeps it: at most    *)
(* one source holds the vehicle, and a lease that is still running is      *)
(* never taken over by another source.  ControlLease implements it.        *)
(***************************************************************************)
CONSTANTS Source,     \* the clients that may ask for control
          NoSource    \* stands for "no lease owner"

VARIABLES holder,     \* the source control was last granted to
          live        \* TRUE while the deadline of that grant has not passed

vars == <<holder, live>>

TypeOK == holder \in Source \cup {NoSource} /\ live \in BOOLEAN

Init == holder = NoSource /\ live = FALSE

(* A source takes a free or an expired lease, or prolongs its own.  A      *)
(* holder whose lease has expired may revive it as long as nobody else     *)
(* has taken it.                                                           *)
Hold(s) ==
    /\ live => holder = s
    /\ holder' = s
    /\ live' = TRUE

(* The holder gives the lease up, or the vehicle's process restarts. *)
Drop == holder' = NoSource /\ live' = FALSE

Expire == live /\ live' = FALSE /\ UNCHANGED holder

Next == (\E s \in Source : Hold(s)) \/ Drop \/ Expire

Spec == Init /\ [][Next]_vars

(* A lease that runs is run by somebody. *)
LiveHasHolder == live => holder \in Source

(* While the lease runs it never changes hands: a takeover needs an expiry *)
(* or a release in between.                                                *)
ExclusiveHandover == [][live /\ live' => holder' = holder]_vars
=============================================================================
