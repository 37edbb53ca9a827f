---------------------------- MODULE MCRollingUpdate ----------------------------
(***************************************************************************)
(* Command lines and node sets for the runs of RollingUpdate.              *)
(***************************************************************************)
EXTENDS RollingUpdate

\* The control plane by itself, and the workers with and without
\* --continue-on-error.
CPOrWorkers ==
  {[Defaults EXCEPT !.node = CP], [Defaults EXCEPT !.workersOnly = TRUE],
   [Defaults EXCEPT !.workersOnly = TRUE, !.continueOnError = TRUE]}

\* One of each flag, the rejected combinations included.
EveryFlag ==
  {Defaults, [Defaults EXCEPT !.continueOnError = TRUE],
   [Defaults EXCEPT !.workersOnly = TRUE], [Defaults EXCEPT !.skipDrain = TRUE],
   [Defaults EXCEPT !.skipGates = TRUE], [Defaults EXCEPT !.node = 1],
   [Defaults EXCEPT !.node = CP], [Defaults EXCEPT !.startFrom = NumWorkers],
   [Defaults EXCEPT !.startFrom = CP],
   [Defaults EXCEPT !.workersOnly = TRUE, !.node = 1],
   [Defaults EXCEPT !.startFrom = 1, !.node = 1]}

OnlyDefaults == {Defaults}

AllNodes == 0..NumWorkers
NoNodes == {}
AllButTheLast == 0..(NumWorkers - 1)
================================================================================
