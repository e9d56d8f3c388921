-------------------------------- MODULE Access ---------------------------------
(***************************************************************************)
(* What stands before the routes of the server: who the caller is          *)
(* (Sessions) and how often it may come (SlidingWindow).  They share no    *)
(* variable: the limiter knows keys, not sessions.  A behaviour is about   *)
(* one of them and the other stays as it starts.                           *)
(***************************************************************************)
EXTENDS Sessions, SlidingWindow

VARIABLE guard   \* the one the behaviour is about

accessVars == <<guard, vars, windowVars>>

AccessInit == guard \in {"session", "limit"} /\ Init /\ WindowInit

AccessNext ==
    \/ guard = "session" /\ Next /\ UNCHANGED <<guard, windowVars>>
    \/ guard = "limit" /\ WindowNext /\ UNCHANGED <<guard, vars>>

AccessSpec == AccessInit /\ [][AccessNext]_accessVars

================================================================================
