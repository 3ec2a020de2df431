----------------------------- MODULE DriverServer -----------------------------
(***************************************************************************)
(* The life of the plugin's process: run (cmd/truenas-csi-plugin/main.go)  *)
(* and Driver.Run (pkg/driver/driver.go), with their three goroutines: the *)
(* one that waits for a signal, the one that waits for the context, and    *)
(* the one that serves gRPC calls on a Unix socket.  A stop may come at    *)
(* any time, also while the server is being set up.                        *)
(*                                                                         *)
(* gRPC's Serve and GracefulStop, Go's listener, which removes its file    *)
(* when it is closed, and signals are external.                            *)
(*                                                                         *)
(* An operator whose comment begins with "Variant" is a plausible mistake  *)
(* in the operator that follows; it is not part of the specification.      *)
(***************************************************************************)
EXTENDS Integers

CONSTANTS
  Calls,            \* RPCs that Kubernetes' sidecars and kubelet make
  MaxSignals,       \* how often the process is asked to stop,
  MaxKills,         \* killed,
  MaxFails          \* and an operation fails

ASSUME LimitsAssumption == {MaxSignals, MaxKills, MaxFails} \subseteq Nat

VARIABLES
  main,        \* where main, and Run in it, is, or how the process ended
  signal,      \* what a signal does or did: the channel c and ctx
  watcher,     \* the goroutine that waits for ctx
  ready,       \* d.ready, which Probe reports
  listening,   \* the listener is open
  file,        \* the socket's file exists
  call,        \* what became of each RPC
  cause,       \* what may have ended this process: only for the properties
  used         \* signals, kills and failures so far

vars == <<main, signal, watcher, ready, listening, file, call, cause, used>>

Ends    == {"off", "exit0", "exit1", "killed"}
Startup == {"remove", "listen"}
Steps   == {"notify", "catch"} \cup Startup \cup {"ready", "watch", "serve", "serving", "failed"}
Alive   == main \notin Ends

Init ==
  /\ main = "off" /\ signal = "default" /\ watcher = "none"
  /\ ready = FALSE /\ listening = FALSE /\ file \in BOOLEAN
  /\ call = [c \in Calls |-> "none"]
  /\ cause = {}
  /\ used = [signals |-> 0, kills |-> 0, fails |-> 0]

CountUse(kind, max) == used[kind] < max /\ used' = [used EXCEPT ![kind] = @ + 1]

\* A call that is not accepted yet is refused with the listener, one that runs is
\* cut off with the process.
Refuse == [c \in Calls |-> IF call[c] = "queued" THEN "refused" ELSE call[c]]
CutOff ==
  [c \in Calls |-> CASE call[c] = "queued"  -> "refused"
                     [] call[c] = "running" -> "cut"
                     [] call[c] \notin {"queued", "running"} -> call[c]]

\* The process ends, with all its goroutines; the socket's file may stay.
End(how) ==
  /\ main' = how
  /\ signal' = "default" /\ watcher' = "none" /\ ready' = FALSE /\ listening' = FALSE
  /\ call' = CutOff

-----------------------------------------------------------------------------
(***************************************************************************)
(* main and Run.                                                           *)
(***************************************************************************)
Start ==
  /\ ~Alive
  /\ main' = "notify"
  /\ cause' = {}
  /\ UNCHANGED <<signal, watcher, ready, listening, file, call, used>>

\* signal.Notify: from here on a signal goes to the channel.
Notify ==
  /\ main = "notify"
  /\ main' = "catch"
  /\ signal' = "none"
  /\ UNCHANGED <<watcher, ready, listening, file, call, cause, used>>

Goto(from, to) ==
  /\ main = from
  /\ main' = to
  /\ UNCHANGED <<signal, watcher, call, cause, used>>

\* The goroutine that waits for a signal is started, then Run is called.
SpawnCatcher == Goto("catch", "remove") /\ UNCHANGED <<ready, listening, file>>

\* Variant: the file of an earlier process is left.
RemovedNothing == file
\* os.Remove; that there is no file is not an error.
Removed == FALSE
RemoveSocket ==
  /\ Goto("remove", "listen")
  /\ file' = Removed
  /\ UNCHANGED <<ready, listening>>

\* After MkdirAll.  net.Listen fails if the file exists, and with it Run.
Listen ==
  /\ main = "listen"
  /\ IF file
     THEN End("exit1") /\ UNCHANGED file
     ELSE /\ main' = "ready" /\ listening' = TRUE /\ file' = TRUE
          /\ UNCHANGED <<signal, watcher, ready, call>>
  /\ UNCHANGED <<cause, used>>

\* Variant: the old socket's file is removed here, when there is a new one.
SetReadyRemove ==
  /\ Goto("ready", "watch")
  /\ ready' = TRUE
  /\ file' = Removed
  /\ UNCHANGED listening
SetReady ==
  /\ Goto("ready", "watch")
  /\ ready' = TRUE
  /\ UNCHANGED <<listening, file>>

\* The goroutine that waits for the context, inside errgroup's.
SpawnWatcher ==
  /\ main = "watch"
  /\ main' = "serve"
  /\ watcher' = "waiting"
  /\ UNCHANGED <<signal, ready, listening, file, call, cause, used>>

Stopped == watcher \in {"stopping", "stopped"}

Serve == Goto("serve", "serving") /\ ~Stopped /\ UNCHANGED <<ready, listening, file>>

\* Serve closes the listener and returns ErrServerStopped: Run fails.
ServeStopped ==
  /\ main = "serve" /\ Stopped
  /\ End("exit1")
  /\ file' = FALSE
  /\ UNCHANGED <<cause, used>>

\* Variant: Serve does not wait for GracefulStop.
ServeMayReturnEarly == Stopped
\* Serve returns only when GracefulStop is through.
ServeMayReturn == watcher = "stopped"

ServeReturns ==
  /\ main = "serving" /\ ServeMayReturn
  /\ End("exit0")
  /\ UNCHANGED <<file, cause, used>>

\* Serve returned an error, so Run does, and main exits with status 1.
ExitFailed == main = "failed" /\ End("exit1") /\ UNCHANGED <<file, cause, used>>

-----------------------------------------------------------------------------
(***************************************************************************)
(* The goroutines that wait for the signal and for the context.            *)
(***************************************************************************)

\* Variant: a channel without a buffer has no room before someone waits.
ArrivesUnbuffered == IF main = "catch" THEN signal ELSE "pending"
\* The channel has room for one; once that is caught nobody looks at another.
Arrives == IF signal = "none" THEN "pending" ELSE signal

\* SIGINT or SIGTERM.  Before Notify it ends the process.
Signal ==
  /\ Alive
  /\ CountUse("signals", MaxSignals)
  /\ cause' = cause \cup {"signal"}
  /\ UNCHANGED file
  /\ IF signal = "default"
     THEN End("killed")
     ELSE signal' = Arrives /\ UNCHANGED <<main, watcher, ready, listening, call>>

\* The first goroutine takes the signal and cancels ctx.
Catch ==
  /\ signal = "pending" /\ main # "catch"
  /\ signal' = "caught"
  /\ UNCHANGED <<main, watcher, ready, listening, file, call, cause, used>>

SetUnready ==
  /\ watcher = "waiting" /\ signal = "caught"
  /\ watcher' = "unready"
  /\ ready' = FALSE
  /\ UNCHANGED <<main, signal, listening, file, call, cause, used>>

\* Variant: it stops first.
StopsWhenWaiting == IF signal = "caught" THEN "waiting" ELSE "unready"
StopsWhen == "unready"

\* GracefulStop closes the listeners that are served, and waits for the calls.
GracefulStop ==
  /\ watcher = StopsWhen
  /\ watcher' = "stopping"
  /\ IF main = "serving"
     THEN listening' = FALSE /\ file' = FALSE /\ call' = Refuse
     ELSE UNCHANGED <<listening, file, call>>
  /\ UNCHANGED <<main, signal, ready, cause, used>>

GracefullyStopped ==
  /\ watcher = "stopping"
  /\ \A c \in Calls : call[c] # "running"
  /\ watcher' = "stopped"
  /\ UNCHANGED <<main, signal, ready, listening, file, call, cause, used>>

-----------------------------------------------------------------------------
(***************************************************************************)
(* Calls and faults.                                                       *)
(***************************************************************************)
CallStep(c, from, to) ==
  /\ call[c] = from
  /\ call' = [call EXCEPT ![c] = to]
  /\ UNCHANGED <<main, signal, watcher, ready, listening, file, cause, used>>

Connect(c) == listening /\ CallStep(c, "none", "queued")
Accept(c)  == main = "serving" /\ ~Stopped /\ CallStep(c, "queued", "running")
Answer(c)  == CallStep(c, "running", "answered")

Fault(kind, max) ==
  /\ CountUse(kind, max)
  /\ cause' = cause \cup {"fault"}

\* os.Remove, os.MkdirAll or net.Listen fails, and with it Run.
StartupFails ==
  /\ main \in Startup
  /\ Fault("fails", MaxFails)
  /\ End("exit1")
  /\ UNCHANGED file

\* Serve fails to accept a connection, closes the listener and returns.
ServeFails ==
  /\ main = "serving" /\ ~Stopped
  /\ Fault("fails", MaxFails)
  /\ main' = "failed"
  /\ listening' = FALSE /\ file' = FALSE /\ call' = Refuse
  /\ UNCHANGED <<signal, watcher, ready>>

Kill == Alive /\ Fault("kills", MaxKills) /\ End("killed") /\ UNCHANGED file

-----------------------------------------------------------------------------
Run ==
  \/ Notify \/ SpawnCatcher \/ RemoveSocket \/ Listen \/ SetReady
  \/ SpawnWatcher \/ Serve \/ ServeStopped \/ ServeReturns \/ ExitFailed

Watch == SetUnready \/ GracefulStop \/ GracefullyStopped

Next ==
  \/ Start \/ Run \/ Catch \/ Watch
  \/ \E c \in Calls : Connect(c) \/ Accept(c) \/ Answer(c)
  \/ Signal \/ StartupFails \/ ServeFails \/ Kill

Spec == Init /\ [][Next]_vars

\* Every goroutine runs on, and every handler answers.
Fairness ==
  /\ WF_vars(Run) /\ WF_vars(Catch) /\ WF_vars(Watch)
  /\ \A c \in Calls : WF_vars(Answer(c))

FairSpec == Spec /\ Fairness

-----------------------------------------------------------------------------
(***************************************************************************)
(* Properties.                                                             *)
(***************************************************************************)
TypeOK ==
  /\ main \in Ends \cup Steps
  /\ signal \in {"default", "none", "pending", "caught"}
  /\ watcher \in {"none", "waiting", "unready", "stopping", "stopped"}
  /\ ready \in BOOLEAN /\ listening \in BOOLEAN /\ file \in BOOLEAN
  /\ call \in [Calls -> {"none", "queued", "running", "answered", "refused", "cut"}]
  /\ cause \subseteq {"signal", "fault"}
  /\ used \in [signals : Nat, kills : Nat, fails : Nat]
  /\ listening => file

(***************************************************************************)
(* Probe reports ready only while the socket takes calls that will be      *)
(* served: not before the listener is open, and not any more once a stop   *)
(* has begun, even if it comes during the start (driver.go:180-193,        *)
(* identity.go:52-61).  When Serve fails the process is about to end.      *)
(***************************************************************************)
ReadyIsServing == ready /\ main # "failed" => listening /\ ~Stopped

(***************************************************************************)
(* A call that runs is answered unless the process is killed or Serve      *)
(* fails: stopping on a signal, at any time, cuts none off                 *)
(* (driver.go:186-197).                                                    *)
(***************************************************************************)
StopCutsNoCall ==
  [][\A c \in Calls : call[c] = "running" /\ call'[c] = "cut" => main' = "killed" \/ main = "failed"]_vars

(***************************************************************************)
(* The plugin does not fail by itself: if it exits with an error, then an  *)
(* operation of this process failed or it was asked to stop.  What an      *)
(* earlier process left, however that ended, is not in its way             *)
(* (driver.go:147-149).                                                    *)
(***************************************************************************)
FailsForAReason == main = "exit1" => cause # {}

(***************************************************************************)
(* When a signal is to end the process, the goroutine whose turn it is can *)
(* go on: the main one until it serves, then the one that waits for the    *)
(* signal, then the one that waits for the context, unless a call runs,    *)
(* then the main one again.  None waits for something that came too early  *)
(* or does not come (main.go:131-143, driver.go:187-197).                  *)
(***************************************************************************)
StopGoesOn ==
  Alive /\ "signal" \in cause =>
    /\ main # "serving" \/ watcher = "stopped" => ENABLED <<Run>>_vars
    /\ main = "serving" /\ signal # "caught" => ENABLED <<Catch>>_vars
    /\ main = "serving" /\ signal = "caught" /\ watcher # "stopped" =>
         \/ ENABLED <<Watch>>_vars
         \/ watcher = "stopping" /\ \E c \in Calls : call[c] = "running"

(***************************************************************************)
(* A signal ends the process, however early it comes, once the calls that  *)
(* run are answered (main.go:131-143, driver.go:187-193).                  *)
(***************************************************************************)
SignalStops == Alive /\ "signal" \in cause ~> ~Alive
=============================================================================
