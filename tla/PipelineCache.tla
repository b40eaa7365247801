---------------------------- MODULE PipelineCache ----------------------------
(* What a draw relies on when it asks for a pipeline, whatever thread builds *)
(* it: a pipeline is built once, its outcome is final, and the answer is the *)
(* pipeline itself, the ubershader that draws the same, or nothing when the  *)
(* ubershader cannot be built.                                               *)
CONSTANTS
    Keys,   \* pipelines: draw type, shader features, interlock mode, flags
    Uber,   \* key -> key of the ubershader that can draw in its place
    None    \* no pipeline

VARIABLES
    status,  \* key -> "unknown", "begun", "ready" or "errored"
    answer   \* [asked, given]: the last answer

cacheVars == <<status, answer>>

Init ==
    /\ status = [k \in Keys |-> "unknown"]
    /\ answer = [asked |-> None, given |-> None]

Begin(k) ==
    /\ status[k] = "unknown"
    /\ status' = [status EXCEPT ![k] = "begun"]
    /\ UNCHANGED answer

Finish(k, outcome) ==
    /\ status[k] = "begun"
    /\ status' = [status EXCEPT ![k] = outcome]
    /\ UNCHANGED answer

\* The pipeline itself as soon as it is ready, the ubershader while it is
\* not or when it failed, and nothing when that failed too.
Answer(k) ==
    /\ answer' = [asked |-> k,
                  given |-> IF status[k] = "ready" THEN k
                            ELSE IF status[Uber[k]] = "ready" THEN Uber[k]
                            ELSE None]
    /\ status[k] # "unknown"
    /\ status[k] # "ready" => status[Uber[k]] \in {"ready", "errored"}
    /\ UNCHANGED status

\* The shaders have to be built again, in another way.
Clear ==
    /\ status' = [k \in Keys |-> "unknown"]
    /\ UNCHANGED answer

Next ==
    \/ \E k \in Keys : \/ Begin(k)
                       \/ \E outcome \in {"ready", "errored"} :
                              Finish(k, outcome)
                       \/ Answer(k)
    \/ Clear

Spec == Init /\ [][Next]_cacheVars
=============================================================================
