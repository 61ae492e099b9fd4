---------------------------- MODULE MCServerLoop ----------------------------
(* Instances of ServerLoop: two connections a and b, and their requests.   *)
EXTENDS ServerLoop

CONSTANTS a, b, p1, p2

Get   == [head |-> 1, body |-> 0, cgi |-> FALSE, bad |-> FALSE]
Slow  == [head |-> 2, body |-> 0, cgi |-> FALSE, bad |-> FALSE]
Post  == [head |-> 1, body |-> 1, cgi |-> FALSE, bad |-> FALSE]
Long  == [head |-> 1, body |-> 2, cgi |-> FALSE, bad |-> FALSE]
Wrong == [head |-> 1, body |-> 0, cgi |-> FALSE, bad |-> TRUE]
Cgi   == [head |-> 1, body |-> 0, cgi |-> TRUE,  bad |-> FALSE]
Feed  == [head |-> 1, body |-> 2, cgi |-> TRUE,  bad |-> FALSE]

StaticPlan     == (a :> <<Post, Get, Get>>) @@ (b :> <<Slow, Wrong>>)
CgiPlan        == (a :> <<Feed>>) @@ (b :> <<Get>>)
CgiThenGetPlan == (a :> <<Cgi, Get>>) @@ (b :> <<Get>>)
OneFeedPlan    == a :> <<Feed>>
PipelinedPlan  == a :> <<Get, Get>>
TwoBodiesPlan  == (a :> <<Feed>>) @@ (b :> <<Long>>)
=============================================================================
