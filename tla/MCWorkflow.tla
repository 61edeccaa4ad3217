----------------------------- MODULE MCWorkflow -----------------------------
(***************************************************************************)
(* Values for checking Workflow: plans over three tasks of each shape the  *)
(* scheduling loop treats differently, in both failure modes, some of them *)
(* refused by Validate.                                                    *)
(***************************************************************************)
EXTENDS Workflow

Needs(a, b, c) == <<a, b, c>>

Free     == Needs({}, {}, {})
Chain    == Needs({}, {1}, {2})
Backward == Needs({2}, {3}, {})     \* each task waits for a later one
Fork     == Needs({}, {1}, {1})
Join     == Needs({2, 3}, {}, {})
Cycle    == Needs({2}, {1}, {})
Dangling == Needs({Unknown}, {}, {})

Alone  == [t \in Tasks |-> NoSession]
Shared == [t \in Tasks |-> IF t = 2 THEN NoSession ELSE "s"]

MCPlans ==
  [deps : {Free, Chain, Backward, Fork, Join, Cycle}, session : {Alone},
    builds : {{}, {2}}, max : {2}, mode : {"", FailFast}]
  \cup
  [deps : {Free, Chain, Backward, Fork, Dangling}, session : {Shared},
    builds : {{1}}, max : {0, 3}, mode : {Continue}]
  \cup
  [deps : {Free}, session : {Alone}, builds : {{}}, max : {-1, 3},
    mode : {FailFast, "other"}]

LivePlans ==
  [deps : {Fork, Backward}, session : {Alone}, builds : {{3}}, max : {2},
    mode : {Continue, FailFast}]
=============================================================================
