------------------------------ MODULE PrWatchMC ------------------------------
(***************************************************************************)
(* Small instances of PrWatch.                                             *)
(***************************************************************************)
EXTENDS PrWatch, TLC

CONSTANTS p1, p2

PullEach == (1 :> p1) @@ (2 :> p2)
OnePull == [w \in Watches |-> p1]

FewEvents ==
    \/ faults' = 0
    \/ /\ acts' < MaxActs
       /\ \A w \in Watches \ {1} : rows'[w].status = "absent"
       /\ \A p \in Pulls \ {p1} : p \in open' /\ pushes'[p] = <<"edit">>
LiveSpec == Init /\ [][Next /\ FewEvents]_vars /\ WF_vars(TickStep) /\ WF_vars(OverdueStep)
=============================================================================
