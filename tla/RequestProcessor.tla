-------------------------- MODULE RequestProcessor --------------------------
(***************************************************************************)
(* The handler behind the request queue (pkg/server/engine.go): one call   *)
(* of processRequestWithRetries, each attempt of which loads the engine    *)
(* and the provider, resolves the compute instances, lets the provider     *)
(* generate the topology and the engine write the output.                  *)
(***************************************************************************)
EXTENDS HttpReq, Sequences

CONSTANTS
    StageCodes,     \* error codes the stages fail with
    InitialBackoff  \* backOff of the server, 2 s

VARIABLES
    nodes,          \* the payload lists compute instances
    lists,          \* the provider implements GetComputeInstances
    stage,          \* the call the current attempt makes next
    attempt,
    source,         \* where the instances the engine resolves come from
    instances,      \* attempt that resolved the current instances, 0 for none
    graph,          \* [by, from]: the attempts that generated the graph and
                    \* resolved the instances it was generated from
    code,           \* outcome of the last attempt, 0 before the first
    sleeping,       \* time left of time.Sleep
    slept,          \* history: total time slept
    writes          \* history: the graphs GenerateOutput was called with

handlerVars == <<nodes, lists, stage, attempt, source, instances, graph, code, sleeping, slept,
                 writes>>

OK == 200

ASSUME CodesAssumption == OK \notin StageCodes
ASSUME BackoffAssumption == InitialBackoff \in Nat

(* Calls of processTopologyRequest that only hand over to the next one.    *)
After == [registerEngine |-> "registerProvider",
          registerProvider |-> "newEngine",
          newEngine |-> "newProvider",
          newProvider |-> "instances"]

-----------------------------------------------------------------------------
(* Mutant: a failed attempt is never retried.                              *)
NeverRetries(c) == TRUE

(* The exit condition of processRequestWithRetries.                        *)
Final(c) == ~ShouldRetry(c) \/ attempt = MaxRetries

(* An attempt ends with code c: return, or sleep and start over.           *)
Judge(c) ==
    /\ code' = c
    /\ IF Final(c)
       THEN stage' = "returned" /\ UNCHANGED sleeping
       ELSE /\ stage' = "sleep"
            /\ sleeping' = GetNextBackoff(NoHeader, InitialBackoff, attempt - 1)

(* Any call of the attempt may return an error.                            *)
Fail ==
    /\ stage \in DOMAIN After \cup {"instances", "resolve", "generate", "output"}
    /\ stage = "instances" => ~nodes /\ lists
    /\ \E c \in StageCodes : Judge(c)
    /\ UNCHANGED <<nodes, lists, attempt, source, instances, graph, slept, writes>>

(* registry lookups and loaders.                                           *)
Load ==
    /\ stage \in DOMAIN After
    /\ stage' = After[stage]
    /\ UNCHANGED <<nodes, lists, attempt, source, instances, graph, code, sleeping,
                   slept, writes>>

(* Mutant: an empty list from the provider ends the attempt in success.    *)
EmptyListSucceeds ==
    /\ stage = "instances"
    /\ \/ nodes /\ source' = "payload" /\ stage' = "resolve"
          /\ UNCHANGED <<code, sleeping>>
       \/ ~nodes /\ lists /\ source' = "empty" /\ Judge(OK)
    /\ UNCHANGED <<nodes, lists, attempt, instances, graph, slept, writes>>

(* resolveComputeInstances: the payload's instances, else the provider's,  *)
(* else none; an empty list from the provider is not resolved further.     *)
ResolveComputeInstances ==
    /\ stage = "instances"
    /\ \/ nodes /\ source' = "payload" /\ stage' = "resolve"
       \/ ~nodes /\ lists /\ source' = "provider" /\ stage' = "resolve"
       \/ ~nodes /\ lists /\ source' = "empty" /\ stage' = "generate"
       \/ ~nodes /\ ~lists /\ source' = "none" /\ stage' = "resolve"
    /\ instances' = IF stage' = "generate" THEN attempt ELSE instances
    /\ UNCHANGED <<nodes, lists, attempt, graph, code, sleeping, slept, writes>>

(* eng.ResolveComputeInstances.                                            *)
EngineResolves ==
    /\ stage = "resolve"
    /\ stage' = "generate"
    /\ instances' = attempt
    /\ UNCHANGED <<nodes, lists, attempt, source, graph, code, sleeping,
                   slept, writes>>

(* prv.GenerateTopologyConfig, then eng.GenerateOutput begins.             *)
GenerateTopologyConfig ==
    /\ stage = "generate"
    /\ graph' = [by |-> attempt, from |-> instances]
    /\ stage' = "output"
    /\ writes' = Append(writes, graph')
    /\ UNCHANGED <<nodes, lists, attempt, source, instances, code, sleeping,
                   slept>>

GenerateOutput ==
    /\ stage = "output"
    /\ Judge(OK)
    /\ UNCHANGED <<nodes, lists, attempt, source, instances, graph, slept,
                   writes>>

(* Mutant: the sleep never comes to its end.                               *)
SleepShort ==
    /\ stage = "sleep"
    /\ sleeping > 1
    /\ sleeping' = sleeping - 1
    /\ slept' = slept + 1
    /\ UNCHANGED <<nodes, lists, stage, attempt, source, instances, graph, code, writes>>

(* time.Sleep(wait), which nothing interrupts.                             *)
Sleep ==
    /\ stage = "sleep"
    /\ sleeping > 0
    /\ sleeping' = sleeping - 1
    /\ slept' = slept + 1
    /\ UNCHANGED <<nodes, lists, stage, attempt, source, instances, graph, code, writes>>

(* Mutant: the next attempt starts from the instances already resolved.    *)
ResumeAtGenerate == "generate"

(* The first call of an attempt.                                           *)
FirstStage == "registerEngine"

NextAttempt ==
    /\ stage \in {"start", "sleep"}
    /\ sleeping = 0
    /\ attempt' = attempt + 1
    /\ stage' = FirstStage
    /\ UNCHANGED <<nodes, lists, source, instances, graph, code, sleeping, slept, writes>>

InitHandler ==
    /\ nodes \in BOOLEAN /\ lists \in BOOLEAN
    /\ stage = "start" /\ attempt = 0 /\ source = "unset" /\ instances = 0
    /\ graph = [by |-> 0, from |-> 0]
    /\ code = 0 /\ sleeping = 0 /\ slept = 0 /\ writes = <<>>

NextStep ==
    \/ Fail \/ Load \/ ResolveComputeInstances \/ EngineResolves
    \/ GenerateTopologyConfig \/ GenerateOutput \/ Sleep \/ NextAttempt

HandlerSpec == InitHandler /\ [][NextStep]_handlerVars

(* The handler's goroutine runs, every call it makes returns, time passes. *)
FairHandlerSpec == HandlerSpec /\ WF_handlerVars(NextStep)

-----------------------------------------------------------------------------
(* docs/architecture.md: "waiting 2s, 4s, 8s, and 16s between attempts.    *)
(* Other status codes fail immediately."  A call that made k attempts has  *)
(* slept exactly the first k - 1 of these waits, and it makes another      *)
(* attempt after every retryable failure but the last.                     *)
BackoffSchedule ==
    stage = "returned" =>
        /\ slept = InitialBackoff * (2^(attempt - 1) - 1)
        /\ ShouldRetry(code) => attempt = MaxRetries

(* Every output the engine writes, in whichever attempt, comes from a      *)
(* graph and from instances found in that same attempt: a retry discovers  *)
(* the cluster anew instead of writing what an earlier attempt had seen.   *)
OutputIsFresh ==
    /\ \A k \in DOMAIN writes : writes[k].by = writes[k].from
    /\ \A k \in 1..Len(writes) - 1 : writes[k].by < writes[k + 1].by

(* A call that reports success has written the output in its last attempt  *)
(* and nothing after it, although earlier attempts may have failed half    *)
(* way through their output.                                               *)
SuccessWasWritten ==
    stage = "returned" /\ code = OK =>
        writes # <<>> /\ writes[Len(writes)].by = attempt

(* Every call returns: the retries of a handler are bounded, whatever its  *)
(* attempts fail with.                                                     *)
HandlerReturns == <>(stage = "returned")
=============================================================================
