---------------------------- MODULE RequestChannel ----------------------------
(***************************************************************************)
(* What a client may expect of svcSendSyncRequest: its request is taken at *)
(* most once, answered only after it was taken, and the answer is its own; *)
(* a guest server takes one request of a session at a time.  Only the end  *)
(* of a session loses the requests on it, and a lost request stays lost.   *)
(***************************************************************************)
CONSTANTS Threads, Guests   \* Guests: the sessions that guest threads serve

VARIABLES
    phase,      \* of each thread: idle, asked, taken or lost
    to,         \* the session of the thread's request
    open        \* the sessions that still have both ends

vars == <<phase, to, open>>

OneTaken ==
    \A t, u \in Threads :
        phase[t] = "taken" /\ phase[u] = "taken" /\ to[t] = to[u] /\ to[t] \in Guests
            => t = u

Init == phase = [t \in Threads |-> "idle"] /\ open = {}

Keep(t) == phase'[t] = phase[t] /\ (phase[t] # "idle" => to'[t] = to[t])

Ask(t) ==
    /\ phase[t] = "idle" /\ phase'[t] \in {"asked", "taken"}
    /\ to'[t] \in open

Take(t) ==
    /\ phase[t] = "asked" /\ phase'[t] = "taken"
    /\ to'[t] = to[t] /\ to[t] \in open

Answer(t) == phase[t] = "taken" /\ phase'[t] = "idle"

Lose(t) ==
    /\ phase[t] \in {"asked", "taken"} /\ phase'[t] = "lost"
    /\ to'[t] = to[t] /\ to[t] \in open \ open'

(* One SVC may answer a request and take another, or end sessions.         *)
Next ==
    /\ \A t \in Threads : Keep(t) \/ Ask(t) \/ Take(t) \/ Answer(t) \/ Lose(t)
    /\ OneTaken'

Spec == Init /\ [][Next]_vars
=============================================================================
