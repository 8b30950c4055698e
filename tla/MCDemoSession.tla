--------------------------- MODULE MCDemoSession ---------------------------
(* Instances of DemoSession for TLC: two runs, one after the other.           *)
EXTENDS DemoSession

TwoRuns == 1..2
SecondRun == {2}
OneWindow == 1..1
RunsAndPublic == {1, 2, Public}
RunnersAndPanel == {1, 2, Panel}

=============================================================================
