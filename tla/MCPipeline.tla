----------------------------- MODULE MCPipeline -----------------------------
(* Topologies for model checking Pipeline.                                 *)
EXTENDS Pipeline

(* in => out *)
PairList     == <<"in", "out">>
PairRoutes   == << <<"in", "out">> >>

(* in => proc => out *)
ChainList    == <<"in", "proc", "out">>
ChainRoutes  == << <<"in", "proc", "out">> >>

(* in => out, out2 *)
FanoutList   == <<"in", "out", "out2">>
FanoutRoutes == << <<"in", "out", "out2">> >>

(* in, in2 => out *)
MergeList   == <<"in", "in2", "out">>
MergeRoutes == << <<"in", "in2", "out">> >>

TypeOf(list) == [m \in Range(list) |->
                   CASE m \in {"in", "in2"}     -> "INPUT"
                     [] m \in {"proc", "proc2"} -> "PROCESSOR"
                     [] OTHER                   -> "OUTPUT"]
PairType   == TypeOf(PairList)
ChainType  == TypeOf(ChainList)
FanoutType == TypeOf(FanoutList)
MergeType  == TypeOf(MergeList)

PairFlow   == [m \in Range(PairList) |-> TRUE]
ChainFlow  == [m \in Range(ChainList) |-> TRUE]
FanoutFlow == [m \in Range(FanoutList) |-> TRUE]
MergeMixed == [m \in Range(MergeList) |-> m = "in"]

(* What NothingLost is stated for holds of these topologies.               *)
ASSUME OneWay == SinglePath
=============================================================================
