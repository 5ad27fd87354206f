------------------------------ MODULE MCPlayRange -----------------------------
(* Model-checking instance of PlayRange: tracks that agree and that do not.  *)
EXTENDS PlayRange

MCSubsessions ==
  {[scales |-> {1}, duration |-> 0, absolute |-> FALSE],
   [scales |-> {-1, 1, 2}, duration |-> 3, absolute |-> FALSE],
   [scales |-> {-1, 1, 4}, duration |-> 3, absolute |-> FALSE],
   [scales |-> {1}, duration |-> 0, absolute |-> TRUE]}

MCScales == {-1, 4}

Npt(start, end) == [kind |-> "npt", start |-> start, end |-> end]
Nothing == <<"none", 0>>
Now == <<"now", 0>>

MCRanges ==
  {Npt(Nothing, <<"secs", 2>>), Npt(Nothing, <<"hms", 3601>>), Npt(<<"secs", 1>>, Nothing),
   Npt(<<"secs", 1>>, <<"secs", 2>>), Npt(<<"secs", 9>>, <<"secs", 1>>),
   Npt(<<"secs", 1>>, <<"hms", 2>>), Npt(<<"hms", 0>>, <<"hms", 1>>), Npt(<<"hms", 2>>, <<"secs", 3>>),
   Npt(Now, Nothing), Npt(Now, <<"secs", 2>>), Npt(Now, <<"hms", 3600>>),
   [kind |-> "clock"], [kind |-> "smtpe"], [kind |-> "other"]}
===============================================================================
