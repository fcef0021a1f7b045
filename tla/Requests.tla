------------------------------ MODULE Requests ------------------------------
(***************************************************************************)
(* The requests a service of the API is working on.  NestJS runs every     *)
(* handler until its next await, so between two database calls any other   *)
(* handler may run: a handler is a slot that stands at the call it makes   *)
(* next and holds what it has read so far.                                 *)
(*                                                                         *)
(* alone is chosen once: TRUE means that requests happen to come one after *)
(* the other.  What holds only then is lost to overlapping requests; what  *)
(* holds in both cases is protected by the database.                       *)
(***************************************************************************)
CONSTANTS Handlers, None

VARIABLES at,      \* at[h] - the call the handler makes next, or "free"
          held,    \* held[h] - its locals, or None
          alone    \* the requests never overlap

requestVars == <<at, held, alone>>

RequestsInit == /\ at = [h \in Handlers |-> "free"]
                /\ held = [h \in Handlers |-> None]
                /\ alone \in BOOLEAN

MayStart(h) == /\ at[h] = "free"
               /\ alone => \A g \in Handlers : at[g] = "free"

\* The handler goes on to another call with these locals.
Goto(h, call, locals) == /\ at' = [at EXCEPT ![h] = call]
                         /\ held' = [held EXCEPT ![h] = locals]
                         /\ UNCHANGED alone

\* It answers, or throws: nothing of it is left.
Answer(h) == Goto(h, "free", None)
=============================================================================
