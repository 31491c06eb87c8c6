-------------------------- MODULE MCQueryPlacement --------------------------
(***************************************************************************)
(* An instance of QueryPlacement for TLC: five nodes whose reports are     *)
(* enough for a line, a star, a triangle, a ring and links that only one   *)
(* of two nodes reports, and queries of one to six operators.             *)
(***************************************************************************)
EXTENDS QueryPlacement

CONSTANTS a, b, c, d, e

MCListed == <<a, b, c, d, e>>

Delay(n, l) == [node |-> n, latency |-> l]
State(n, links, battery) == [name |-> n, links |-> links, battery |-> battery]

MCReports ==
  a :> { State(a, <<Delay(b, 1)>>, 2),
         State(a, <<Delay(b, 1), Delay(c, 2), Delay(d, 1)>>, 2) }
  @@ b :> { State(b, <<Delay(a, 1), Delay(c, 1)>>, 1),
            State(b, <<Delay(a, 1), Delay(c, 3), Delay(d, 1)>>, 3) }
  @@ c :> { State(c, <<Delay(a, 2), Delay(b, 1), Delay(d, 1)>>, 2),
            State(c, <<Delay(b, 1), Delay(d, 2), Delay(e, 1)>>, 1) }
  @@ d :> { State(d, <<Delay(c, 1), Delay(a, 1)>>, 3),
            State(d, <<Delay(c, 2), Delay(a, 1), Delay(b, 1), Delay(e, 1)>>, 1) }
  @@ e :> { State(e, <<Delay(c, 1), Delay(d, 2)>>, 0) }

Query(type, nested) == [type |-> type, nested |-> nested, short |-> {}]

MCQueries ==
  { [Query(<<"WINDOW">>, << <<>> >>) EXCEPT !.short = {1}],
    Query(<<"FILTER", "AGGREGATOR">>, << <<2>>, <<>> >>),
    Query(<<"FILTER", "WINDOW">>, << <<2>>, <<>> >>),
    Query(<<"JOIN", "WINDOW", "WINDOW">>, << <<2, 3>>, <<>>, <<>> >>),
    Query(<<"JOIN", "FILTER", "WINDOW", "WINDOW">>, << <<2, 4>>, <<3>>, <<>>, <<>> >>),
    Query(<<"PREDICT1", "JOIN", "WINDOW", "WINDOW">>, << <<2>>, <<3, 4>>, <<>>, <<>> >>),
    Query(<<"JOIN", "FILTER", "WINDOW", "FILTER", "WINDOW">>,
          << <<2, 4>>, <<3>>, <<>>, <<5>>, <<>> >>),
    Query(<<"FILTER", "JOIN", "PREDICT2", "WINDOW", "PREDICT2", "WINDOW">>,
          << <<2>>, <<3, 5>>, <<4>>, <<>>, <<6>>, <<>> >>),
    Query(<<"HEATMAP">>, << <<>> >>) }
=============================================================================
