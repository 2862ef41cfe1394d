----------------------------- MODULE RoleQueue ------------------------------
(***************************************************************************)
(* What the role launcher promises its callers: every role runs at most    *)
(* one request and keeps at most one more waiting; a request starts at     *)
(* once only when nothing runs and nothing waits; a waiting request is     *)
(* never replaced or forgotten, it only ever leaves by being started.      *)
(***************************************************************************)
CONSTANTS Role,       \* the roles
          Slot(_),    \* Slot(r): the requests of role r
          None        \* no request

VARIABLES running, waiting

qvars == <<running, waiting>>

QueueInit ==
    /\ running = [r \in Role |-> None]
    /\ waiting = [r \in Role |-> None]

StartNow(r, q) ==
    /\ \A x \in Role : running[x] = None /\ waiting[x] = None
    /\ running' = [running EXCEPT ![r] = q]
    /\ UNCHANGED waiting

Enqueue(r, q) ==
    /\ \E x \in Role : running[x] # None
    /\ waiting[r] = None
    /\ waiting' = [waiting EXCEPT ![r] = q]
    /\ UNCHANGED running

StartNext(r) ==
    /\ waiting[r] # None
    /\ running' = [running EXCEPT ![r] = waiting[r]]
    /\ waiting' = [waiting EXCEPT ![r] = None]

Finish(r) ==
    /\ running[r] # None /\ waiting[r] = None
    /\ running' = [running EXCEPT ![r] = None]
    /\ UNCHANGED waiting

QueueNext ==
    \E r \in Role :
        \/ \E q \in Slot(r) : StartNow(r, q) \/ Enqueue(r, q)
        \/ StartNext(r)
        \/ Finish(r)

QueueSpec == QueueInit /\ [][QueueNext]_qvars
=============================================================================
