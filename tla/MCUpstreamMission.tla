--------------------------- MODULE MCUpstreamMission ---------------------------
(* Constants of the runs of UpstreamMission. *)
EXTENDS UpstreamMission

Here == [url |-> "u", no |-> "n1"]
Renamed == [url |-> "u", no |-> "n2"]
Addresses == {Here, Renamed}

\* What may come together in one behaviour; the rest of its bounds are quiet ones.
Quiet == [mode |-> "simulation", script |-> <<"02", "03">>, points |-> 1, plain |-> {},
          mishaps |-> 0, faults |-> {}, upsets |-> 0, home |-> TRUE, telemetry |-> FALSE,
          files |-> {}]
Real == [Quiet EXCEPT !.mode = "hardware"]
Mishaps(m, kinds) == [m EXCEPT !.mishaps = 1, !.faults = kinds]

Mixes ==
    {\* a link that breaks, or an address that changes
     [Quiet EXCEPT !.upsets = 1, !.telemetry = TRUE],
     [Quiet EXCEPT !.script = <<"01">>, !.upsets = 2],
     \* simulated missions: two of them, and one where something goes wrong
     [Quiet EXCEPT !.script = <<"02", "03", "03">>, !.points = 2, !.plain = {2}],
     Mishaps(Quiet, {"refuse", "lose", "fail", "disarm"}),
     Mishaps(Quiet, {"abnormal"}),
     Mishaps([Quiet EXCEPT !.script = <<"01", "07">>], {"operator"}),
     \* real ones: commands above countdowns, then photos and videos
     Mishaps([Real EXCEPT !.script = <<"02", "03", "07">>], {"cancel"}),
     [Real EXCEPT !.script = <<"01", "06", "07">>, !.home = FALSE],
     [Real EXCEPT !.points = 2, !.files = {"photo"}],
     [Real EXCEPT !.files = {"photo", "video"}],
     [Real EXCEPT !.plain = {1}, !.files = {"video", "late"}],
     [Real EXCEPT !.script = <<"02", "03", "03">>, !.plain = {1}, !.files = {"late"}]}

\* A real flight, one LAND.
LandMixes == {[Real EXCEPT !.script = <<"02", "03", "06">>]}
=============================================================================
