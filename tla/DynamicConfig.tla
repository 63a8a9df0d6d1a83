----------------------------- MODULE DynamicConfig -----------------------------
(***************************************************************************)
(* Dynamic configuration (reporter/cds_manager.go, config_discovery.go)    *)
(* and the samplers it steers (sampler.go).  One goroutine asks the        *)
(* backend for the configuration, naming the UUID of the one it has; an    *)
(* answer with another UUID is given to the watchers one after the other.  *)
(* Every watcher is a DynamicSampler, the only one there is.               *)
(*                                                                         *)
(* Rates are in thousandths: what "%f" prints of such a rate is exact.  A  *)
(* UUID is the hash of a configuration and stands for its content.         *)
(***************************************************************************)
EXTENDS Integers, FiniteSets

CONSTANTS Watcher,
          Rate,         \* rates the backend may set
          DefaultRate,  \* the sampling rate the agent was built with
          RoundedDown,  \* rates, 0.29 for one, whose product with 100 is a float
                        \* just below the whole number
          Absent,       \* value of a key that is missing or empty
          Bad,          \* a value ParseFloat does not take
          NoConfig      \* before the first configuration: the empty UUID

Config == [Watcher -> Rate \cup {Absent, Bad}]

ASSUME ConfigAssumption ==
  /\ Rate \subseteq Int /\ DefaultRate \in Int
  /\ RoundedDown \subseteq {10 * i : i \in 1..99}
  /\ Absent \notin Int /\ Bad \notin Int /\ Absent # Bad
  /\ NoConfig \notin Config

VARIABLES
  status,     \* what GetConnectionStatus says
  config,   \* the configuration the backend has
  uuid,     \* UUID: that of the last configuration handled
  fetch,    \* the goroutine: "none", "sleep", "waiting", "handling", "ended"
  answer,   \* the command it handles
  left,     \* watchers HandleCommand has still to go to
  sampler   \* of each watcher: currentRate and sampler

configVars == <<status, config, uuid, fetch, answer, left, sampler>>
-----------------------------------------------------------------------------
(* Samplers *)

\* int(samplingRate * 100)
Threshold(r) == IF r \in RoundedDown THEN (r \div 10) - 1 ELSE r \div 10

\* ConstSampler and RandomSampler as thresholds: always is above every random
\* number, never above none.
SamplerOf(r) ==
  [rate |-> r, threshold |-> IF r <= 0 THEN 0 ELSE IF r >= 1000 THEN 100 ELSE Threshold(r)]

\* n is what Intn(100) gave
IsSampled(s, n) == s.threshold > n

\* per cent of the operations a sampler takes
Share(s) == Cardinality({n \in 0..99 : IsSampled(s, n)})

ConfigInit ==
  /\ status = "connected"
  /\ config \in Config
  /\ uuid = NoConfig
  /\ fetch = "none"
  /\ answer = NoConfig
  /\ left = {}
  /\ sampler = [w \in Watcher |-> SamplerOf(DefaultRate)]
-----------------------------------------------------------------------------
(* The fetch loop *)

\* InitCDS, when the reporter boots
StartFetching ==
  /\ fetch = "none"
  /\ fetch' = "sleep"
  /\ UNCHANGED <<status, config, uuid, answer, left, sampler>>

Fetch ==
  /\ fetch = "sleep" /\ status = "connected"
  /\ fetch' = "waiting"
  /\ UNCHANGED <<status, config, uuid, answer, left, sampler>>

FetchEnds ==
  /\ fetch = "sleep" /\ status = "shutdown"
  /\ fetch' = "ended"
  /\ UNCHANGED <<status, config, uuid, answer, left, sampler>>

\* Mutant of FetchFails: a failed call ends the loop.
FetchFailsForGood ==
  /\ fetch = "waiting"
  /\ fetch' = "ended"
  /\ UNCHANGED <<status, config, uuid, answer, left, sampler>>

\* an error or the deadline
FetchFails ==
  /\ fetch = "waiting"
  /\ fetch' = "sleep"
  /\ UNCHANGED <<status, config, uuid, answer, left, sampler>>

\* The answer names the configuration of that moment, which may change before
\* it is handled.  A backend may leave the command out of an answer to the
\* same UUID, or send it: HandleCommand returns at once.
FetchAnswered ==
  /\ fetch = "waiting"
  /\ IF config = uuid
     THEN /\ fetch' = "sleep"
          /\ UNCHANGED <<answer, left>>
     ELSE /\ fetch' = "handling"
          /\ answer' = config
          /\ left' = Watcher
  /\ UNCHANGED <<status, config, uuid, sampler>>
-----------------------------------------------------------------------------
(* HandleCommand *)

\* Mutant of Notify: a deleted key leaves the sampler as it is.
NotifyKeeps(w, v) ==
  IF v \in {Bad, Absent} THEN sampler[w] ELSE SamplerOf(v)

\* DynamicSampler.Notify: the default on DELETED, nothing on a parse error
Notify(w, v) ==
  IF v = Bad THEN sampler[w]
  ELSE SamplerOf(IF v = Absent THEN DefaultRate ELSE v)

\* The watchers are in a map: in any order.
NotifyWatcher(w) ==
  /\ fetch = "handling" /\ w \in left
  /\ left' = left \ {w}
  /\ sampler' = IF answer[w] = sampler[w].rate THEN sampler
                ELSE [sampler EXCEPT ![w] = Notify(w, answer[w])]
  /\ UNCHANGED <<status, config, uuid, fetch, answer>>

\* Also when a watcher did not take its value.
UpdateUuid ==
  /\ fetch = "handling" /\ left = {}
  /\ uuid' = answer
  /\ fetch' = "sleep"
  /\ UNCHANGED <<status, config, answer, left, sampler>>
-----------------------------------------------------------------------------
ConfigChanges ==
  /\ config' \in Config \ {config}
  /\ UNCHANGED <<status, uuid, fetch, answer, left, sampler>>

ConfigLinkChanges ==
  /\ status # "shutdown"
  /\ status' \in {"connected", "disconnect", "shutdown"} \ {status}
  /\ UNCHANGED <<config, uuid, fetch, answer, left, sampler>>

FetchStep  == Fetch \/ FetchEnds \/ FetchFails \/ FetchAnswered
HandleStep == UpdateUuid \/ \E w \in Watcher : NotifyWatcher(w)
ConfigNext == StartFetching \/ FetchStep \/ HandleStep \/ ConfigChanges \/ ConfigLinkChanges

ConfigSpec == ConfigInit /\ [][ConfigNext]_configVars

\* The goroutine runs; a call that is made again and again is answered some time.
ConfigFairness ==
  /\ WF_configVars(FetchStep) /\ WF_configVars(HandleStep)
  /\ SF_configVars(FetchAnswered)

FairConfigSpec == ConfigSpec /\ ConfigFairness
-----------------------------------------------------------------------------
ConfigTypeOK ==
  /\ status \in {"connected", "disconnect", "shutdown"}
  /\ config \in Config
  /\ uuid \in Config \cup {NoConfig} /\ answer \in Config \cup {NoConfig}
  /\ fetch \in {"none", "sleep", "waiting", "handling", "ended"}
  /\ left \subseteq Watcher
  /\ sampler \in [Watcher -> [rate : Int, threshold : Int]]

\* The rate a value asks for, and whether a sampler takes a share of the
\* operations that is right for it: never more, at most one in a hundred less.
Asked(v) == IF v = Absent THEN DefaultRate ELSE v
Takes(s, r) ==
  CASE r <= 0    -> Share(s) = 0
    [] r >= 1000 -> Share(s) = 100
    [] OTHER     -> r - 10 * Share(s) \in 0..10

\* The UUID the agent answers with is that of a configuration in force: unless
\* a value was refused, every sampler takes the share it asks for, whatever
\* changes of the configuration fell into the fetch or between two watchers.
\* (A refused value is acknowledged too, and not sent again:
\* config_discovery.go:74, sampler.go:128-131.)
AckedIsApplied ==
  uuid # NoConfig /\ fetch # "handling" =>
    \A w \in Watcher : uuid[w] # Bad => Takes(sampler[w], Asked(uuid[w]))

InForce == \A w \in Watcher : config[w] # Bad => sampler[w].rate = Asked(config[w])

\* A configuration that stays is in force in the end, however many fetches
\* failed before and whatever it was changed from (cds_manager.go:74-104).
ConfigConverges ==
  <>(fetch # "none") /\ <>[](status = "connected") /\ <>[][UNCHANGED config]_config
    => <>[]InForce
=============================================================================
