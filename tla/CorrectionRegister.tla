-------------------------- MODULE CorrectionRegister --------------------------
(***************************************************************************)
(* What the vehicle's correction interface promises, whatever messages,    *)
(* retries and restarts lie between the service and extnav: an application *)
(* that was asked for once, however often it is retried, takes effect at   *)
(* most once, and only it or an identity fallback changes the correction.  *)
(* CorrectionService implements it.                                        *)
(***************************************************************************)
CONSTANTS Application,  \* the applications that may be asked for
          None          \* no application's correction is in force

VARIABLES active,  \* the application whose correction is in force, None when none of theirs is
          spent    \* the applications that have taken effect

vars == <<active, spent>>

TypeOK == active \in Application \cup {None} /\ spent \subseteq Application

Init == active = None /\ spent = {}

(* An application takes effect: it has never done so before. *)
TakeEffect(a) ==
    /\ a \notin spent
    /\ active' = a
    /\ spent' = spent \cup {a}

(* The bridge falls back to identity, or another tool writes. *)
Drop == active' = None /\ UNCHANGED spent

Next == (\E a \in Application : TakeEffect(a)) \/ Drop

Spec == Init /\ [][Next]_vars

(* What is in force has taken effect. *)
ActiveIsSpent == active # None => active \in spent

(* Nothing that was replaced or dropped comes back into force by itself. *)
NoRevival == [][active' # active => active' = None \/ active' \notin spent]_vars
=============================================================================
