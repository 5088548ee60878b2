---------------------------- MODULE MCDiagnosis ----------------------------
(***************************************************************************)
(* Two nodes that measure latency and loss and one that measures latency   *)
(* and load, five edges that a discovery may or may not find, and three     *)
(* levels of the load.                                                     *)
(***************************************************************************)
EXTENDS Diagnosis, TLC

MCColumns == <<"a_latency", "a_loss", "b_latency", "c_latency", "c_load">>
MCNodeOf == [c \in {"a_latency", "a_loss"} |-> "a"] @@ ("b_latency" :> "b")
            @@ [c \in {"c_latency", "c_load"} |-> "c"]
MCDegradable == {"a_latency", "a_loss", "b_latency", "c_latency"}
MCLatencyOf == ("a" :> "a_latency") @@ ("b" :> "b_latency") @@ ("c" :> "c_latency")
MCEdge == {<<"a_latency", "b_latency">>, <<"b_latency", "a_latency">>, <<"a_loss", "b_latency">>,
           <<"c_load", "a_latency">>, <<"c_load", "b_latency">>}
MCSeverity == (0 :> 0) @@ (3 :> 6) @@ (15 :> 12) @@ (999 :> 30)
MCLater == {-1, 0, 3, 4, 11, 199, 200, 699, 700}
=============================================================================
