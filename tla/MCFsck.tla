--------------------------------- MODULE MCFsck ---------------------------------
(***************************************************************************)
(* Instances of FsckOperation: a split whose source has artifacts or none, *)
(* an update with a delete, and an add next to a delete whose target does  *)
(* not exist.                                                              *)
(***************************************************************************)
EXTENDS FsckOperation

AnIssue(actions, split, artifacts, missing, derived) ==
    [actions |-> actions, split |-> split, artifacts |-> artifacts,
     missing |-> missing, derived |-> derived]

MCIssue ==
    {AnIssue(<<"add", "delete">>, TRUE, FALSE, {}, {}),
     AnIssue(<<"add", "delete">>, TRUE, TRUE, {}, {}),
     AnIssue(<<"update", "delete">>, FALSE, FALSE, {}, {1}),
     AnIssue(<<"delete", "add">>, FALSE, FALSE, {1}, {})}
===============================================================================
