------------------------------ MODULE OnceCell ------------------------------
(***************************************************************************)
(* What PageTableLatch::load promises its callers, without the protocol    *)
(* that keeps the promise: one attempt to fill the cell is ever made, the  *)
(* thread that makes it installs one whole value, and every other call     *)
(* that returns Ok returns that value.  An attempt that fails leaves the   *)
(* cell unset.                                                             *)
(***************************************************************************)
CONSTANTS
  Threads,  \* the threads that share the cell
  Loaded,   \* the values an attempt can install
  Unset     \* the content of a cell that holds no value, not in Loaded

VARIABLES
  cell,     \* the installed value, or Unset
  tried,    \* has the one attempt begun?
  status,   \* where each thread is in its call
  got       \* the value the thread's last call returned, or Unset

ocVars == <<cell, tried, status, got>>

Finished == {"ready", "ok", "err"}

OCInit ==
  /\ cell = Unset
  /\ tried = FALSE
  /\ status = [t \in Threads |-> "ready"]
  /\ got = [t \in Threads |-> Unset]

Move(t, to, value) ==
  /\ status' = [status EXCEPT ![t] = to]
  /\ got' = [got EXCEPT ![t] = value]

Call(t) ==
  /\ status[t] \in Finished
  /\ Move(t, "pending", Unset)
  /\ UNCHANGED <<cell, tried>>

\* The thread goes on to something else than a load.
Forget(t) ==
  /\ status[t] \in Finished
  /\ Move(t, "ready", Unset)
  /\ UNCHANGED <<cell, tried>>

Attempt(t) ==
  /\ status[t] = "pending"
  /\ ~tried
  /\ tried' = TRUE
  /\ Move(t, "loading", Unset)
  /\ UNCHANGED cell

Install(t, v) ==
  /\ status[t] = "loading"
  /\ cell = Unset
  /\ cell' = v
  /\ Move(t, "ok", v)
  /\ UNCHANGED tried

Hit(t) ==
  /\ status[t] = "pending"
  /\ cell # Unset
  /\ Move(t, "ok", cell)
  /\ UNCHANGED <<cell, tried>>

Fail(t) ==
  /\ status[t] = "loading"
  /\ Move(t, "err", Unset)
  /\ UNCHANGED <<cell, tried>>

Die(t) ==
  /\ status[t] \in {"pending", "loading"}
  /\ Move(t, "panicked", Unset)
  /\ UNCHANGED <<cell, tried>>

OCNext ==
  \E t \in Threads :
    \/ Call(t) \/ Forget(t) \/ Attempt(t) \/ Hit(t) \/ Fail(t) \/ Die(t)
    \/ \E v \in Loaded : Install(t, v)

OCSpec == OCInit /\ [][OCNext]_ocVars
=============================================================================
