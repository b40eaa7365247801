---------------------------- MODULE CommandService ----------------------------
(* What the command queue promises to the threads that record on it, with no *)
(* locks, batches or streams: every command is executed once and in the order *)
(* of recording, of the draw callbacks recorded for a key the latest executed *)
(* one is run, and after a disconnect neither happens any more.               *)
EXTENDS Sequences

CONSTANTS
    Requests,   \* records with fields op, key and sent
    Keys,       \* draw keys
    Unset       \* no callback has run for a key

VARIABLES
    pending,    \* recorded and not executed, oldest first
    latest,     \* draw key -> callback executed last and not yet run
    shown,      \* draw key -> callback run last
    stopped     \* disconnect was executed

serviceVars == <<pending, latest, shown, stopped>>

ServiceInit ==
    /\ pending = <<>>
    /\ latest = [k \in {} |-> Unset]
    /\ shown = [k \in Keys |-> Unset]
    /\ stopped = FALSE

Submit(r) ==
    /\ pending' = Append(pending, r)
    /\ UNCHANGED <<latest, shown, stopped>>

\* Executing a draw command replaces the callback of its key.
Serve ==
    /\ ~stopped
    /\ pending # <<>>
    /\ pending' = Tail(pending)
    /\ LET r == Head(pending)
       IN  /\ latest' = IF r.op = "draw"
                        THEN [k \in DOMAIN latest \cup {r.key} |->
                                IF k = r.key THEN r.sent ELSE latest[k]]
                        ELSE latest
           /\ stopped' = (r.op = "disconnect")
    /\ UNCHANGED shown

Show(k) ==
    /\ ~stopped
    /\ k \in DOMAIN latest
    /\ shown' = [shown EXCEPT ![k] = latest[k]]
    /\ latest' = [j \in DOMAIN latest \ {k} |-> latest[j]]
    /\ UNCHANGED <<pending, stopped>>

ServiceNext ==
    \/ \E r \in Requests : Submit(r)
    \/ Serve
    \/ \E k \in Keys : Show(k)

\* Nothing happens but recording, executing in order and running.
ServiceSafety == ServiceInit /\ [][ServiceNext]_serviceVars

\* Whatever was recorded is executed, and a recorded draw is run.
ServiceSpec ==
    /\ ServiceSafety
    /\ WF_serviceVars(Serve)
    /\ \A k \in Keys : WF_serviceVars(Show(k))
=============================================================================
