---------------------------- MODULE MCConsoleViews ----------------------------
(* Small instances of ConsoleViews for TLC: two robots, two sites. *)
EXTENDS ConsoleViews, TLC

CONSTANTS r1, r2

At(x, y) == [x |-> x, y |-> y]

RobotRow(site, vendor, freshness, position) ==
    [site |-> site, vendor |-> vendor, freshness |-> freshness, position |-> position]

\* An empty manifest with a directory, two robots apart on one site, and one on
\* each of two sites, the second of which the other fleets do not list.
MCFleets ==
    {[robots |-> << >>, sites |-> <<"north">>],
     [robots |-> (r1 :> RobotRow("north", "A", "live", At(0, 0))
                    @@ r2 :> RobotRow("north", "B", "unknown", Null)),
      sites |-> <<"north">>],
     [robots |-> (r1 :> RobotRow("south", "A", "stale", At(-60, 40))
                    @@ r2 :> RobotRow("north", "A", "live", At(0, 0))),
      sites |-> <<"north", "south">>]}

\* Far to the east, and to the north.
MCReports == {[freshness |-> "live", position |-> At(400, 20)],
              [freshness |-> "stale", position |-> At(-40, 260)]}

MCSearches == {{r1, r2}, {r2}}
==============================================================================
