--------------------------- MODULE FrameRegister ---------------------------
(***************************************************************************)
(* What a page frame promises the closures it runs: a page that is         *)
(* rewritten as a whole, one rewrite after the other, and read as a whole. *)
(* After a rewrite that did not come to its end the page is lost, and no   *)
(* closure is run on it any more.                                          *)
(***************************************************************************)
EXTENDS Naturals

CONSTANTS Threads,    \* the threads that share the frame
          Nothing     \* the result of a call that read nothing

VARIABLES version,    \* how often the page was rewritten
          lost,       \* has a rewrite been cut short?
          status,     \* where each thread is
          got         \* the version a thread has read

frVars == <<version, lost, status, got>>

FRInit ==
  /\ version = 0 /\ lost = FALSE
  /\ status = [t \in Threads |-> "idle"]
  /\ got = [t \in Threads |-> Nothing]

Become(t, s, v) ==
  /\ status' = [status EXCEPT ![t] = s]
  /\ got' = [got EXCEPT ![t] = v]

Call(t) ==
  /\ status[t] = "idle"
  /\ Become(t, "calling", Nothing)
  /\ UNCHANGED <<version, lost>>

\* One instant within the call at which the whole page is read.
ReadAll(t) ==
  /\ status[t] = "calling" /\ ~lost
  /\ Become(t, "read", version)
  /\ UNCHANGED <<version, lost>>

RewriteAll(t) ==
  /\ status[t] = "calling" /\ ~lost
  /\ version' = version + 1
  /\ Become(t, "idle", Nothing)
  /\ UNCHANGED lost

CutShort(t) ==
  /\ status[t] = "calling" /\ ~lost
  /\ lost' = TRUE
  /\ Become(t, "dead", Nothing)
  /\ UNCHANGED version

Return(t) ==
  /\ status[t] = "read"
  /\ Become(t, "idle", got[t])
  /\ UNCHANGED <<version, lost>>

Die(t) ==
  /\ status[t] = "read" \/ (status[t] = "calling" /\ lost)
  /\ Become(t, "dead", Nothing)
  /\ UNCHANGED <<version, lost>>

FRNext ==
  \E t \in Threads : Call(t) \/ ReadAll(t) \/ RewriteAll(t) \/ CutShort(t)
                       \/ Return(t) \/ Die(t)

FRSpec == FRInit /\ [][FRNext]_frVars
=============================================================================
