-------------------------- MODULE MCStrategyEvent --------------------------
(* The threads whose code calls the strategy_event functions, at their       *)
(* priorities, and two of the event bits.  The call of strategy is in         *)
(* ChgPlan_RecProcess (strategy.c), which its loop does not reach at this      *)
(* commit; with it the lock has three contenders instead of two.              *)
EXTENDS StrategyEvent

MCThreads == {"strategy", "hplc", "energycon"}

MCPrio == [t \in MCThreads |-> CASE t = "strategy"  -> 8
                                 [] t = "hplc"      -> 15
                                 [] t = "energycon" -> 18]

MCEvents == {"StartChg", "StopChg"}

MCCallsOf == [t \in MCThreads |->
                IF t = "hplc" THEN [fn : {"send"}, event : MCEvents] \union [fn : {"peek"}]
                              ELSE [fn : {"get"}]]
=============================================================================
