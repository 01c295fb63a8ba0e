------------------------- MODULE MCCorrectionService --------------------------
(* Constants of the run of CorrectionService. *)
EXTENDS CorrectionService

CONSTANTS panel, calibration, t1, t2
Clients == {panel, calibration}
Calibrations == {calibration}
Tags == {t1, t2}

\* A calibration, then a panel, while Odin is lost and found again and the bridge is
\* restarted; both of them; a panel while another client writes; a panel with two
\* candidates and two tags, or a restart of the service; a panel whose first candidate
\* the bridge refuses as it is.
Mix(s, v, j, r, o, b, c, t) ==
    [sessions |-> s, revisions |-> v, jobs |-> j, restarts |-> r, others |-> o,
     reboots |-> b, clients |-> c, tags |-> t, fit |-> 1..MaxJobs]
Mixes == {[Mix(1, 2, 2, 0, FALSE, FALSE, {panel}, {t1}) EXCEPT !.fit = {2}],
          Mix(2, 2, 1, 0, FALSE, FALSE, {calibration}, {t1}),
          Mix(2, 2, 1, 0, FALSE, TRUE, {panel}, {t1}),
          Mix(1, 2, 1, 0, FALSE, FALSE, Clients, {t1}),
          Mix(1, 3, 1, 0, TRUE, FALSE, {panel}, {t1}),
          Mix(1, 1, 2, 0, FALSE, FALSE, {panel}, Tags),
          Mix(1, 2, 2, 1, FALSE, FALSE, {panel}, {t1})}
=============================================================================
