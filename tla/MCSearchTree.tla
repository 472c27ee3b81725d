----------------------------- MODULE MCSearchTree -----------------------------
EXTENDS SearchTree

MCSearch(w, h, inter, interDepths, intraDepths) ==
  [width |-> w, height |-> h, inter |-> inter, interDepths |-> interDepths, intraDepths |-> intraDepths,
   smp |-> FALSE, amp |-> FALSE, zeroCost |-> TRUE, alwaysSplit |-> FALSE]
MCSearches ==
  {MCSearch(4, 4, FALSE, <<0, 1>>, <<1, 1>>), [MCSearch(2, 4, TRUE, <<0, 1>>, <<2, 2>>) EXCEPT !.smp = TRUE],
   MCSearch(4, 4, TRUE, <<1, 1>>, <<0, 0>>), [MCSearch(4, 4, TRUE, <<0, 0>>, <<1, 1>>) EXCEPT !.amp = TRUE],
   [MCSearch(2, 2, TRUE, <<1, 1>>, <<1, 2>>) EXCEPT !.smp = TRUE, !.amp = TRUE, !.alwaysSplit = TRUE],
   [MCSearch(4, 2, TRUE, <<0, 0>>, <<0, 0>>) EXCEPT !.zeroCost = FALSE]}
=============================================================================
