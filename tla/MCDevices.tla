----------------------------- MODULE MCDevices -----------------------------
(***************************************************************************)
(* Devices for TLC: two consents, two requests and two provers, two        *)
(* sessions of a reader and as many stops at once.                         *)
(***************************************************************************)
EXTENDS Devices

CONSTANTS k1, k2, r1, r2, p1, p2, s1, s2

\* A behaviour of a reader either has both sessions and nobody to report to,
\* or one session with all that else an adapter does: callbacks that come and
\* go, writing, and card emulation.
VARIABLE focus

MCInit == Init /\ focus \in {"sessions", "callbacks"} /\ (focus = "sessions" \/ device \in {"native", "web"})

MCNext ==
    /\ Next
    /\ focus = "sessions" => /\ UNCHANGED listening /\ writing' = "idle" /\ written' = None
                             /\ ~state'.isHCEActive /\ ~state'.permissionGranted
    /\ focus = "callbacks" => start'[s2].at = "new"
    /\ UNCHANGED focus

MCSpec == MCInit /\ [][MCNext]_<<vars, focus>> /\ Fairness
=============================================================================
