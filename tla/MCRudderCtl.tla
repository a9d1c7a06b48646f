----------------------------- MODULE MCRudderCtl -----------------------------
(* RudderCtl twice: subject "safe" has all the faults and angles beyond the       *)
(* extreme positions, "live" nothing but a register that expires.                 *)
EXTENDS RudderCtl

VARIABLE subject

FewAngles == {0, 1}
WideAngles == {1, 3}

Live == INSTANCE RudderCtl WITH
    Angles <- FewAngles, MaxPos <- 1, MaxLines <- 3, MaxTargets <- 2,
    MaxLoss <- 0, MaxErr <- 0, MaxFault <- 0, MaxStale <- 1

MCInit == (subject = "safe" /\ Init) \/ (subject = "live" /\ Live!Init)
Moves == subject = "safe" /\ Next
LiveMoves == subject = "live" /\ Live!Next
MCSpec ==
    /\ MCInit /\ [][(Moves \/ LiveMoves) /\ UNCHANGED subject]_<<subject, vars>>
    /\ WF_inbox(subject = "live" /\ Live!Consumed)
    /\ WF_req(subject = "live" /\ Live!Answered)
    /\ WF_drive(subject = "live" /\ Live!Work)
    /\ SF_req(subject = "live" /\ Live!ProbeStatus)

\* rudderctl_main.c:5-6: the rudder is kept homed and close to the reference: if the
\* reference stays at an angle, the rudder comes to it, also from a cold start and
\* through an expired register, but not through faults (RudderCtl's Follows).
FollowsWithoutFaults ==
    \A a \in FewAngles :
        (<>[](subject = "live" /\ target = a)) => <>[](drive.homed /\ drive.pos = Live!AngleToQc(a))
=============================================================================
