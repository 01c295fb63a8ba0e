--------------------------- MODULE MCOnboardControl ---------------------------
(* Instances of OnboardControl for TLC.  Every mission combines the        *)
(* commands and the faults that one hazard takes.                          *)
EXTENDS OnboardControl

CONSTANTS step, smooth, avoiding, before, after

Identities == 1..8
Configurations == {step, smooth, avoiding}
SmoothOnes == {smooth}
AvoidingOnes == {avoiding}

Sessions == {before, after}

Odin(frame, session) == [frame |-> frame, session |-> session]
Simulated == {}
Connecting == {Odin("odom", before)}
OnMap == {Odin("map", before)}
Reconnecting == {Odin("odom", before), Odin("odom", after)}

Flown(odin, configs, commands, faults, pending) ==
    [odin |-> odin, configs |-> configs, commands |-> commands, faults |-> faults,
     pending |-> pending]

SafetyMissions ==
    {Flown(Simulated, {smooth}, {"takeoff", "waypoints", "land", "hover"}, {"lease"}, 2),
     Flown(Simulated, {step, smooth}, {"takeoff", "waypoints", "cancel"}, {"reject"}, 1),
     Flown(Simulated, {step}, {"takeoff", "motion", "cancel"},
           {"pose", "stream", "thrust", "output", "link", "pilot"}, 1),
     Flown(Simulated, {step}, {"waypoints", "land"}, {"reject", "service"}, 2),
     Flown(Simulated, {avoiding}, {"waypoints", "land"}, {"avoidance", "reject"}, 1),
     Flown(OnMap, {step}, {"waypoints", "land"}, {"nav", "tf", "lease"}, 1),
     Flown(Reconnecting, {step}, {"waypoints", "switch"}, {"lease", "stream"}, 1)}

LivenessMissions ==
    {Flown(Simulated, {step}, {"takeoff", "motion"}, {"lease"}, 1),
     Flown(Simulated, {avoiding}, {"waypoints"}, {"avoidance", "reject", "lost"}, 1),
     Flown(OnMap, {step}, {"waypoints"}, {"nav"}, 1),
     Flown(Connecting, {step}, {"waypoints"}, {}, 1)}

\* The missions of the findings.
OutageMissions == {Flown(Simulated, {step}, {"waypoints", "land"}, {"lease"}, 1)}
QuietMissions == {Flown(Simulated, {step}, {"waypoints", "land"}, {}, 1)}
LostReplyMissions == {Flown(OnMap, {step}, {"waypoints"}, {"lease", "lost", "nav"}, 1)}
=============================================================================
