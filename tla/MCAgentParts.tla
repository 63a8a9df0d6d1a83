---------------------------- MODULE MCAgentParts ----------------------------
(* The parts of the agent that share no state with each other: each behaviour *)
(* is one of the part that is awake.                                          *)
EXTENDS PprofTasks, DynamicConfig, MeterRegistry, KafkaReporter, TLC

CONSTANTS cpu1, cpu2, block1, block2, mutex1, heap1, none1, w1, m1, m2, k1, k2

\* Of the tasks with one time a behaviour has one.
MCTask   == {cpu1, cpu2, block1, block2, mutex1, heap1, none1}
MCEvent  == cpu1 :> "cpu" @@ cpu2 :> "cpu" @@ block1 :> "block" @@ block2 :> "block"
            @@ mutex1 :> "mutex" @@ heap1 :> "direct" @@ none1 :> "invalid"
MCCreate == cpu1 :> 1 @@ block1 :> 1 @@ cpu2 :> 2 @@ block2 :> 2
            @@ mutex1 :> 3 @@ heap1 :> 3 @@ none1 :> 3
MCDur    == [t \in MCTask |-> 1]
MCPeriod == [t \in MCTask |-> IF t = block2 THEN 2 ELSE 1]

\* m1 is counted, m2 comes between its registration and the list.
MCInc    == m1 :> 2 @@ m2 :> 0

VARIABLE awake

partsVars == <<awake, pprofVars, configVars, meterVars, kafkaVars>>

PartsInit ==
  /\ PprofInit /\ ConfigInit /\ MeterInit /\ KafkaInit
  /\ awake \in {"pprof", "config", "meter", "kafka"}
  /\ awake # "config" => config = [w \in Watcher |-> Absent]
  /\ awake # "kafka" => broker = "up"

Step(part, next) == awake = part /\ next /\ UNCHANGED awake

PartsNext ==
  \/ Step("pprof", PprofNext)  /\ UNCHANGED <<configVars, meterVars, kafkaVars>>
  \/ Step("config", ConfigNext) /\ UNCHANGED <<pprofVars, meterVars, kafkaVars>>
  \/ Step("meter", MeterNext)  /\ UNCHANGED <<pprofVars, configVars, kafkaVars>>
  \/ Step("kafka", KafkaNext)  /\ UNCHANGED <<pprofVars, configVars, meterVars>>

PartsFairness ==
  \/ awake = "pprof"  /\ PprofFairness
  \/ awake = "config" /\ ConfigFairness
  \/ awake = "meter"  /\ MeterFairness
  \/ awake = "kafka"  /\ KafkaFairness

PartsSpec == PartsInit /\ [][PartsNext]_partsVars /\ PartsFairness
=============================================================================
