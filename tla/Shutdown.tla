------------------------------ MODULE Shutdown ------------------------------
(***************************************************************************)
(* A serving process from its first request to its end, beside the uploads *)
(* of Avatars, which are the requests with most to lose.  The main         *)
(* goroutine of run() waits for a signal or for the serving goroutine,     *)
(* lets Shutdown drain the requests in flight until the grace is over,     *)
(* joins the serving goroutine over the channel serveErr, and closes the   *)
(* database when it returns:                                               *)
(*                                                                         *)
(*   waiting -> draining -> joining -> returning -> closed -> down         *)
(*                                                                         *)
(* The process may be killed at any time, and is started again.            *)
(***************************************************************************)
EXTENDS Avatars

VARIABLES
  main,       \* where the main goroutine is
  signalled,  \* SIGINT or SIGTERM has cancelled its context
  listening,  \* the listener accepts connections
  serveErr,   \* what the serving goroutine has sent, "empty" before
  cut         \* the grace ran out and the connections were closed

process == <<main, signalled, listening, serveErr, cut>>
allVars == <<vars, process>>

LifeInit ==
  /\ Init
  /\ main = "waiting"
  /\ signalled = FALSE
  /\ listening = TRUE
  /\ serveErr = "empty"
  /\ cut = FALSE

Up == main # "down"

-----------------------------------------------------------------------------
(* The requests *)

(* A request comes in over the listener. *)
Accept(p) ==
  /\ listening
  /\ \E u \in Users : BeginUpload(p, u) \/ BeginClear(p, u)
  /\ UNCHANGED process

(* It goes on while the process is there; a statement needs the database to  *)
(* be open, and fails when it is closed.                                     *)
Handle(p) ==
  /\ Up
  /\ \/ Rename(p)
     \/ main # "closed" /\ (ReadCurrent(p) \/ UpdateURL(p))
     \/ RemovePrevious(p)
     \/ Fail(p)
  /\ UNCHANGED process

(* Accounts are deleted by other requests or by the command line. *)
Delete(u) == DeleteUser(u) /\ UNCHANGED process

-----------------------------------------------------------------------------
(* The goroutines of run *)

Signal ==
  /\ main = "waiting"
  /\ signalled' = TRUE
  /\ UNCHANGED <<vars, main, listening, serveErr, cut>>

(* ListenAndServe fails: the address is in use, or Accept returns an error. *)
ListenFails ==
  /\ listening
  /\ listening' = FALSE
  /\ serveErr' = "error"
  /\ UNCHANGED <<vars, main, signalled, cut>>

(* Mutant: nothing is sent when the server was closed on purpose. *)
ServeReturnsSilently ==
  /\ Up /\ ~listening /\ serveErr = "empty"
  /\ UNCHANGED <<vars, process>>

(* Shutdown has closed the listener: ListenAndServe returns ErrServerClosed, *)
(* which is no error.                                                        *)
ServeReturns ==
  /\ Up /\ ~listening /\ serveErr = "empty"
  /\ serveErr' = "nil"
  /\ UNCHANGED <<vars, main, signalled, listening, cut>>

(* The select of run: an error ends it at once, a signal starts Shutdown. *)
Wake ==
  /\ main = "waiting"
  /\ \/ serveErr = "error" /\ main' = "returning" /\ UNCHANGED listening
     \/ signalled /\ main' = "draining" /\ listening' = FALSE
  /\ UNCHANGED <<vars, signalled, serveErr, cut>>

Idling == \A p \in Procs : job[p] = Idle

(* Mutant: Shutdown is called and not waited for. *)
DrainedEarly ==
  /\ main = "draining"
  /\ main' = "joining"
  /\ UNCHANGED <<vars, signalled, listening, serveErr, cut>>

(* Shutdown returns when every connection is idle. *)
Drained ==
  /\ main = "draining" /\ Idling
  /\ main' = "joining"
  /\ UNCHANGED <<vars, signalled, listening, serveErr, cut>>

(* PHS_SHUTDOWN_TIMEOUT is over: Close ends the connections, and nobody      *)
(* waits for their handlers.                                                 *)
GraceOver ==
  /\ main = "draining" /\ ~Idling
  /\ main' = "joining"
  /\ cut' = TRUE
  /\ UNCHANGED <<vars, signalled, listening, serveErr>>

Join ==
  /\ main = "joining" /\ serveErr # "empty"
  /\ main' = "returning"
  /\ UNCHANGED <<vars, signalled, listening, serveErr, cut>>

(* The deferred st.Close. *)
CloseStore ==
  /\ main = "returning"
  /\ main' = "closed"
  /\ UNCHANGED <<vars, signalled, listening, serveErr, cut>>

(* The process is gone, with whatever still ran in it. *)
Down ==
  /\ Crash
  /\ main' = "down"
  /\ signalled' = FALSE
  /\ listening' = FALSE
  /\ serveErr' = "empty"
  /\ cut' = FALSE

Exit == main = "closed" /\ Down

Kill == Up /\ Down

Boot ==
  /\ ~Up
  /\ main' = "waiting"
  /\ listening' = TRUE
  /\ UNCHANGED <<vars, signalled, serveErr, cut>>

(* What the goroutines do by themselves; the grace is a timer. *)
Proceed == ServeReturns \/ Wake \/ Drained \/ GraceOver \/ Join \/ CloseStore \/ Exit

LifeNext ==
  \/ \E p \in Procs : Accept(p) \/ Handle(p)
  \/ \E u \in Users : Delete(u)
  \/ Signal \/ ListenFails \/ Kill \/ Boot
  \/ Proceed

LifeSpec == LifeInit /\ [][LifeNext]_allVars /\ WF_allVars(Proceed)

-----------------------------------------------------------------------------
(* Properties *)

(* "SIGTERM drains in-flight requests within PHS_SHUTDOWN_TIMEOUT, then the  *)
(* database is closed cleanly" (README): when the database is closed no      *)
(* request is left, unless the grace ran out or the listener failed.         *)
DrainedBeforeClosed ==
  main = "closed" /\ ~Idling => cut \/ serveErr = "error"

(* A signalled process ends: the main and the serving goroutine do not wait  *)
(* for each other, whatever the requests do.                                 *)
Stops == signalled ~> main = "down"

=============================================================================
