------------------------------- MODULE MCDrain -------------------------------
(* Backlogs of two issues, the second behind the first one, flagged, in    *)
(* review or a container.                                                  *)
EXTENDS Drain

MCIssues == {1, 2}
MCNone == {}
MCCosts == {0, 1}

Plain == [open |-> TRUE, labels |-> {}, pr |-> "none"]
Flagged == [Plain EXCEPT !.labels = {"awaiting-answer"}]
InReview == [Plain EXCEPT !.pr = "open"]
With(second) == [i \in Issues |-> IF i = 2 THEN second ELSE Plain]
Apart == [i \in Issues |-> {}]
Chain == [i \in Issues |-> IF i = 2 THEN {1} ELSE {}]

Default == [strictOrder |-> FALSE, once |-> FALSE, maxSession |-> 0, lag |-> FALSE,
            rows |-> With(Plain), blockedBy |-> Apart, containers |-> {},
            relabels |-> {"needs-human", "awaiting-answer"},
            touches |-> 2, shifts |-> 0]

(* Questions and a restart; a lagging listing under a session budget; one  *)
(* issue per shift over a dependency.                                      *)
MCSafety ==
    {[Default EXCEPT !.rows = With(second), !.shifts = 1] :
        second \in {Plain, InReview}}
    \cup {[Default EXCEPT !.rows = With(Flagged), !.touches = 3]}
    \cup {[Default EXCEPT !.maxSession = 2, !.lag = TRUE, !.touches = 1,
                           !.relabels = {"needs-human"}]}
    \cup {[Default EXCEPT !.once = TRUE, !.blockedBy = Chain]}

(* The default order, and -strict-order over every mix of labels.          *)
MCLive ==
    {[Default EXCEPT !.rows = With(second)] : second \in {Plain, Flagged, InReview}}
    \cup {[Default EXCEPT !.strictOrder = TRUE, !.rows = With([Plain EXCEPT !.labels = l]),
                          !.blockedBy = Chain, !.containers = c, !.touches = 1] :
             l \in SUBSET Labels, c \in {{}, {2}}}

MCParks == {[Default EXCEPT !.touches = 1]}
=============================================================================
