-------------------------- MODULE DriverServerProofs --------------------------
(***************************************************************************)
(* Theorems about DriverServer, for any number of calls, signals, kills    *)
(* and failures.                                                           *)
(***************************************************************************)
EXTENDS DriverServer, TLAPS

(***************************************************************************)
(* The inductive invariant.  ListenInv: where main is says whether the     *)
(* listener is open and the socket's file is there.  ReadyInv: when the    *)
(* driver may be ready.  CauseInv: what came before a stop or a failure.   *)
(* CallInv: when a call may run.                                           *)
(***************************************************************************)
ListenInv ==
  /\ main \in Ends \cup {"notify", "catch", "remove", "listen", "failed"} => ~listening
  /\ main \in {"ready", "watch", "serve"} => listening
  /\ main = "serving" /\ ~Stopped => listening
  /\ main = "listen" => ~file

ReadyInv ==
  /\ ready => main \in {"watch", "serve", "serving", "failed"}
  /\ watcher # "none" => main \in {"serve", "serving", "failed"}
  /\ main \in {"serve", "serving"} => watcher # "none"
  /\ watcher \in {"unready", "stopping", "stopped"} => ~ready

CauseInv ==
  /\ main \in Ends => signal = "default"
  /\ signal \in {"pending", "caught"} => "signal" \in cause
  /\ watcher \in {"unready", "stopping", "stopped"} => "signal" \in cause
  /\ main = "failed" => "fault" \in cause
  /\ main = "exit1" => cause # {}

CallInv ==
  \A c \in Calls : call[c] = "running" => main \in {"serving", "failed"} /\ watcher # "stopped"

Inv == TypeOK /\ ListenInv /\ ReadyInv /\ CauseInv /\ CallInv

-----------------------------------------------------------------------------
LEMMA InvInit == Init => Inv
<1> SUFFICES ASSUME Init PROVE Inv
  OBVIOUS
<1> USE DEF Init
<1>1. used \in [signals : Nat, kills : Nat, fails : Nat]
  OBVIOUS
<1>2. TypeOK
  BY <1>1 DEF TypeOK, Ends
<1>3. ListenInv /\ ReadyInv /\ CauseInv /\ CallInv
  BY DEF ListenInv, ReadyInv, CauseInv, CallInv, Ends, Stopped
<1> QED
  BY <1>2, <1>3 DEF Inv

\* The outcomes that closing the listener, or the process, gives the calls.
LEMMA CallsTyped ==
  ASSUME TypeOK
  PROVE  /\ Refuse \in [Calls -> {"none", "queued", "running", "answered", "refused", "cut"}]
         /\ CutOff \in [Calls -> {"none", "queued", "running", "answered", "refused", "cut"}]
         /\ \A c \in Calls : Refuse[c] = "running" => call[c] = "running"
         /\ \A c \in Calls : CutOff[c] # "running"
         /\ \A c \in Calls : Refuse[c] = "cut" => call[c] = "cut"
BY DEF TypeOK, Refuse, CutOff

\* However the process ends, the invariant holds, if it had a reason to fail.
LEMMA EndKeepsInv ==
  ASSUME Inv, NEW how \in {"exit0", "exit1", "killed"}, End(how),
         file' \in BOOLEAN, cause' \subseteq {"signal", "fault"},
         used' \in [signals : Nat, kills : Nat, fails : Nat],
         how = "exit1" => cause' # {}
  PROVE  Inv'
<1>1. TypeOK
  BY DEF Inv
<1>2. TypeOK'
  BY <1>1, CallsTyped DEF TypeOK, End, Ends
<1>3. ListenInv' /\ ReadyInv' /\ CauseInv'
  BY DEF ListenInv, ReadyInv, CauseInv, End, Ends, Stopped
<1>4. CallInv'
  BY <1>1, CallsTyped DEF CallInv, End
<1> QED
  BY <1>2, <1>3, <1>4 DEF Inv

LEMMA CountTyped ==
  ASSUME TypeOK, NEW kind \in {"signals", "kills", "fails"}, NEW max, CountUse(kind, max)
  PROVE  used' \in [signals : Nat, kills : Nat, fails : Nat]
BY DEF TypeOK, CountUse

-----------------------------------------------------------------------------
LEMMA InvStep == Inv /\ [Next]_vars => Inv'
<1> SUFFICES ASSUME Inv, [Next]_vars PROVE Inv'
  OBVIOUS
<1> USE DEF Inv, ListenInv, ReadyInv, CauseInv, CallInv, Stopped
<1>1. CASE Start
  BY <1>1 DEF Start, Alive, TypeOK, Ends, Steps
<1>2. CASE Run
  <2>1. CASE Notify
    BY <2>1 DEF Notify, TypeOK, Ends, Steps
  <2>2. CASE SpawnCatcher
    BY <2>2 DEF SpawnCatcher, Goto, TypeOK, Ends, Steps, Startup
  <2>3. CASE RemoveSocket
    BY <2>3 DEF RemoveSocket, Removed, Goto, TypeOK, Ends, Steps, Startup
  <2>4. CASE Listen
    BY <2>4 DEF Listen, TypeOK, Ends, Steps
  <2>5. CASE SetReady
    BY <2>5 DEF SetReady, Goto, TypeOK, Ends, Steps
  <2>6. CASE SpawnWatcher
    BY <2>6 DEF SpawnWatcher, TypeOK, Ends, Steps
  <2>7. CASE Serve
    BY <2>7 DEF Serve, Goto, TypeOK, Ends, Steps
  <2>8. CASE ServeStopped
    <3>1. End("exit1") /\ cause' # {} /\ file' \in BOOLEAN
      BY <2>8 DEF ServeStopped
    <3> QED
      BY <2>8, <3>1, EndKeepsInv DEF ServeStopped, TypeOK
  <2>9. CASE ServeReturns
    BY <2>9, EndKeepsInv DEF ServeReturns, TypeOK
  <2>10. CASE ExitFailed
    <3>1. End("exit1") /\ cause' # {}
      BY <2>10 DEF ExitFailed
    <3> QED
      BY <2>10, <3>1, EndKeepsInv DEF ExitFailed, TypeOK
  <2> QED
    BY <1>2, <2>1, <2>2, <2>3, <2>4, <2>5, <2>6, <2>7, <2>8, <2>9, <2>10 DEF Run
<1>3. CASE Catch
  BY <1>3 DEF Catch, TypeOK, Ends, Steps, Startup
<1>4. CASE Watch
  <2>1. CASE SetUnready
    BY <1>4, <2>1 DEF SetUnready, TypeOK
  <2>2. CASE GracefulStop
    <3>1. CASE main = "serving"
      BY <2>2, <3>1, CallsTyped DEF GracefulStop, StopsWhen, TypeOK, Ends
    <3>2. CASE main # "serving"
      BY <2>2, <3>2 DEF GracefulStop, StopsWhen, TypeOK
    <3> QED
      BY <3>1, <3>2
  <2>3. CASE GracefullyStopped
    BY <2>3 DEF GracefullyStopped, TypeOK
  <2> QED
    BY <1>4, <2>1, <2>2, <2>3 DEF Watch
<1>5. ASSUME NEW c \in Calls, Connect(c) \/ Accept(c) \/ Answer(c)
      PROVE  Inv'
  <2>1. CASE Connect(c)
    BY <2>1 DEF Connect, CallStep, TypeOK
  <2>2. CASE Accept(c)
    BY <2>2 DEF Accept, CallStep, TypeOK
  <2>3. CASE Answer(c)
    BY <2>3 DEF Answer, CallStep, TypeOK
  <2> QED
    BY <1>5, <2>1, <2>2, <2>3
<1>6. CASE Signal
  <2>1. /\ used' \in [signals : Nat, kills : Nat, fails : Nat]
        /\ cause' \subseteq {"signal", "fault"} /\ "signal" \in cause' /\ cause \subseteq cause'
    BY <1>6, CountTyped DEF Signal, TypeOK
  <2>2. CASE signal = "default"
    BY <1>6, <2>1, <2>2, EndKeepsInv DEF Signal, TypeOK
  <2>3. CASE signal # "default"
    BY <1>6, <2>1, <2>3 DEF Signal, Arrives, TypeOK
  <2> QED
    BY <2>2, <2>3
<1>7. CASE StartupFails
  <2>1. used' \in [signals : Nat, kills : Nat, fails : Nat] /\ cause' = cause \cup {"fault"}
    BY <1>7, CountTyped DEF StartupFails, Fault
  <2> QED
    BY <1>7, <2>1, EndKeepsInv DEF StartupFails, TypeOK
<1>8. CASE ServeFails
  <2>1. used' \in [signals : Nat, kills : Nat, fails : Nat] /\ cause' = cause \cup {"fault"}
    BY <1>8, CountTyped DEF ServeFails, Fault
  <2> QED
    BY <1>8, <2>1, CallsTyped DEF ServeFails, TypeOK, Steps, Ends
<1>9. CASE Kill
  <2>1. used' \in [signals : Nat, kills : Nat, fails : Nat] /\ cause' = cause \cup {"fault"}
    BY <1>9, CountTyped DEF Kill, Fault
  <2> QED
    BY <1>9, <2>1, EndKeepsInv DEF Kill, TypeOK
<1>10. CASE UNCHANGED vars
  BY <1>10 DEF vars, TypeOK
<1> QED
  BY <1>1, <1>2, <1>3, <1>4, <1>5, <1>6, <1>7, <1>8, <1>9, <1>10 DEF Next

LEMMA Invariant == Spec => []Inv
BY InvInit, InvStep, PTL DEF Spec

-----------------------------------------------------------------------------
(***************************************************************************)
(* The state of the process is always as TypeOK says; above all the        *)
(* listener has its file.                                                  *)
(***************************************************************************)
THEOREM TypeCorrect == Spec => []TypeOK
<1>1. Inv => TypeOK
  BY DEF Inv
<1> QED
  BY <1>1, Invariant, PTL

(***************************************************************************)
(* Probe reports ready only while calls are taken and will be served       *)
(* (driver.go:180-193), whenever the stop comes.                           *)
(***************************************************************************)
THEOREM ReadyAlwaysServing == Spec => []ReadyIsServing
<1>1. Inv => ReadyIsServing
  BY DEF Inv, ListenInv, ReadyInv, ReadyIsServing, Stopped
<1> QED
  BY <1>1, Invariant, PTL

(***************************************************************************)
(* Whatever earlier processes left and however they ended, the plugin      *)
(* exits with an error only after a fault of its own or when it was asked  *)
(* to stop (driver.go:147-149).                                            *)
(***************************************************************************)
THEOREM NeverFailsByItself == Spec => []FailsForAReason
<1>1. Inv => FailsForAReason
  BY DEF Inv, CauseInv, FailsForAReason
<1> QED
  BY <1>1, Invariant, PTL

(***************************************************************************)
(* A stop on a signal cuts no call off, at whatever moment it comes        *)
(* (driver.go:186-197).                                                    *)
(***************************************************************************)
LEMMA StepCutsNoCall ==
  ASSUME Inv, [Next]_vars, NEW c \in Calls, call[c] = "running", call'[c] = "cut"
  PROVE  main' = "killed" \/ main = "failed"
<1> USE DEF Inv, CallInv
<1>1. CASE Start \/ Catch \/ SetUnready \/ GracefullyStopped \/ UNCHANGED vars
  BY <1>1 DEF Start, Catch, SetUnready, GracefullyStopped, vars
<1>2. CASE Run
  BY <1>2 DEF Run, Notify, SpawnCatcher, RemoveSocket, Listen, SetReady, SpawnWatcher,
              Serve, ServeStopped, ServeReturns, ServeMayReturn, ExitFailed, Goto
<1>3. CASE GracefulStop \/ ServeFails
  BY <1>3, CallsTyped DEF GracefulStop, ServeFails
<1>4. ASSUME NEW d \in Calls, Connect(d) \/ Accept(d) \/ Answer(d)
      PROVE  FALSE
  BY <1>4 DEF Connect, Accept, Answer, CallStep, TypeOK
<1>5. CASE Signal \/ Kill
  BY <1>5 DEF Signal, Kill, End
<1>6. CASE StartupFails
  BY <1>6 DEF StartupFails, Startup
<1> QED
  BY <1>1, <1>2, <1>3, <1>4, <1>5, <1>6 DEF Next, Watch

THEOREM StopNeverCuts == Spec => StopCutsNoCall
<1>1. Inv /\ [Next]_vars
        => [\A c \in Calls : call[c] = "running" /\ call'[c] = "cut" => main' = "killed" \/ main = "failed"]_vars
  BY StepCutsNoCall
<1> QED
  BY <1>1, Invariant, PTL DEF Spec, StopCutsNoCall
-----------------------------------------------------------------------------
(***************************************************************************)
(* A signal ends the process.  Told(m): the process was asked to stop and  *)
(* main is at m.  The main goroutine goes on until it serves; there, what  *)
(* is left to do falls from one goroutine to the next: the signal is       *)
(* caught, the driver is unready, the server stops, the calls end, the     *)
(* server has stopped, and Serve returns.                                  *)
(*                                                                         *)
(* That every call ends is one hypothesis: it follows from the fairness of *)
(* Answer only by induction over the finite set of calls, which a proof    *)
(* about temporal formulas cannot do here.                                 *)
(***************************************************************************)
Told(m)  == main = m /\ "signal" \in cause
Serving  == Told("serving")
Out      == Told("failed") \/ ~Alive
NoneRuns == \A c \in Calls : call[c] # "running"

CallsEnd == watcher = "stopping" ~> ~Alive \/ NoneRuns

\* Where the main goroutine's next step takes it before it serves, and where the
\* watcher's takes it.
MainNext ==
  [m \in Steps \ {"serving"} |->
    CASE m = "notify" -> "catch"
      [] m = "catch"  -> "remove"
      [] m = "remove" -> "listen"
      [] m = "listen" -> "ready"
      [] m = "ready"  -> "watch"
      [] m = "watch"  -> "serve"
      [] m = "serve"  -> "serving"
      [] m = "failed" -> "exit1"]
WatchNext ==
  [w \in {"waiting", "unready", "stopping"} |->
    CASE w = "waiting"  -> "unready"
      [] w = "unready"  -> "stopping"
      [] w = "stopping" -> "stopped"]

LEMMA NextValues ==
  /\ MainNext["notify"] = "catch" /\ MainNext["catch"] = "remove" /\ MainNext["remove"] = "listen"
  /\ MainNext["listen"] = "ready" /\ MainNext["ready"] = "watch" /\ MainNext["watch"] = "serve"
  /\ MainNext["serve"] = "serving" /\ MainNext["failed"] = "exit1"
  /\ WatchNext["waiting"] = "unready" /\ WatchNext["unready"] = "stopping"
  /\ WatchNext["stopping"] = "stopped"
BY DEF MainNext, WatchNext, Steps, Startup

LEMMA MainGoesOn ==
  ASSUME Inv, [Next]_vars, NEW m \in Steps \ {"serving"}, Told(m)
  PROVE  /\ Told(m)' \/ Told(MainNext[m])' \/ ~Alive'
         /\ Run => Told(MainNext[m])' \/ ~Alive'
<1> USE DEF Told, Alive, Ends, Steps, Startup
<1>1. Run => Told(MainNext[m])' \/ ~Alive'
  BY NextValues DEF Run, Notify, SpawnCatcher, RemoveSocket, Listen, SetReady, SpawnWatcher,
         Serve, ServeStopped, ServeReturns, ExitFailed, Goto, End
<1>2. ASSUME Start \/ Catch \/ Watch \/ UNCHANGED vars PROVE Told(m)'
  BY <1>2 DEF Start, Catch, Watch, SetUnready, GracefulStop, GracefullyStopped, vars
<1>3. ASSUME NEW c \in Calls, Connect(c) \/ Accept(c) \/ Answer(c) PROVE Told(m)'
  BY <1>3 DEF Connect, Accept, Answer, CallStep
<1>4. ASSUME Signal PROVE Told(m)' \/ ~Alive'
  BY <1>4 DEF Signal, End
<1>5. ASSUME StartupFails \/ Kill \/ ServeFails PROVE Told(m)' \/ ~Alive'
  BY <1>5 DEF StartupFails, Kill, ServeFails, End, Fault
<1> QED
  BY <1>1, <1>2, <1>3, <1>4, <1>5 DEF Next

\* Serve returns only to end the process.
LEMMA ServeEnds == ASSUME Run, Serving PROVE ~Alive' /\ watcher = "stopped"
BY DEF Serving, Told, Alive, Ends, Run, Notify, SpawnCatcher, RemoveSocket, Listen, SetReady,
       SpawnWatcher, Serve, ServeStopped, ServeReturns, ServeMayReturn, ExitFailed, Goto, End

LEMMA WatchGoesOn ==
  ASSUME Watch, Serving
  PROVE  /\ Serving' /\ signal' = signal
         /\ watcher # "stopped" /\ watcher' = WatchNext[watcher]
BY NextValues DEF Watch, SetUnready, GracefulStop, StopsWhen, GracefullyStopped, Serving, Told

\* While it serves, and until it fails or ends, the signal stays caught, the watcher
\* goes on only, and no call is taken any more once it stops.
LEMMA ServingGoesOn ==
  ASSUME Inv, [Next]_vars, Serving, ~Out'
  PROVE  /\ Serving'
         /\ signal = "caught" => signal' = "caught"
         /\ watcher' \in {watcher, WatchNext[watcher]}
         /\ watcher = "stopped" => watcher' = "stopped"
         /\ watcher = "stopping" /\ NoneRuns => NoneRuns'
<1> USE DEF Serving, Told, Out, Alive, Ends
<1>1. ~Run
  BY ServeEnds
<1>2. ASSUME Start \/ Catch \/ UNCHANGED vars
      PROVE  UNCHANGED <<main, cause, watcher, call>> /\ signal' \in {signal, "caught"}
  BY <1>2 DEF Start, Catch, vars
<1>3. CASE Watch
  <2>1. watcher = "stopping" => call' = call
    BY <1>3 DEF Watch, SetUnready, GracefulStop, StopsWhen, GracefullyStopped
  <2> QED
    BY <1>3, <2>1, WatchGoesOn DEF NoneRuns
<1>4. ASSUME NEW c \in Calls, Connect(c) \/ Accept(c) \/ Answer(c)
      PROVE  /\ UNCHANGED <<main, cause, signal, watcher>>
             /\ watcher = "stopping" /\ NoneRuns => NoneRuns'
  <2>1. CASE Connect(c)
    BY <2>1 DEF Connect, CallStep, NoneRuns, Inv, TypeOK
  <2>2. CASE Accept(c)
    BY <2>2 DEF Accept, CallStep, Stopped
  <2>3. CASE Answer(c)
    BY <2>3 DEF Answer, CallStep, NoneRuns, Inv, TypeOK
  <2> QED
    BY <1>4, <2>1, <2>2, <2>3
<1>5. ASSUME Signal
      PROVE  /\ UNCHANGED <<main, watcher, call>> /\ "signal" \in cause'
             /\ signal = "caught" => signal' = "caught"
  BY <1>5 DEF Signal, Arrives, End
<1>6. ~StartupFails /\ ~Kill /\ ~ServeFails
  BY DEF StartupFails, Startup, Kill, ServeFails, End, Fault
<1>7. UNCHANGED call => (NoneRuns => NoneRuns')
  BY DEF NoneRuns
<1>8. CASE UNCHANGED <<main, watcher, call>> /\ "signal" \in cause' /\ (signal = "caught" => signal' = "caught")
  BY <1>7, <1>8
<1>9. CASE \E c \in Calls : Connect(c) \/ Accept(c) \/ Answer(c)
  BY <1>4, <1>9
<1> QED
  BY <1>1, <1>2, <1>3, <1>5, <1>6, <1>8, <1>9 DEF Next

-----------------------------------------------------------------------------
\* The main goroutine comes from m to where its next step takes it.
Moves(m) ==
  Spec /\ WF_vars(Run) /\ []StopGoesOn => (Told(m) ~> Told(MainNext[m]) \/ ~Alive)

LEMMA MainMoves == ASSUME NEW m \in Steps \ {"serving"} PROVE Moves(m)
<1>1. Inv /\ [Next]_vars /\ Told(m) => Told(m)' \/ (Told(MainNext[m]) \/ ~Alive)'
  BY MainGoesOn
<1>2. Inv /\ <<Next /\ Run>>_vars /\ Told(m) => (Told(MainNext[m]) \/ ~Alive)'
  BY MainGoesOn
<1>3. StopGoesOn /\ Told(m) => ENABLED <<Run>>_vars
  BY DEF StopGoesOn, Told, Alive, Steps, Startup, Ends
<1> QED
  BY <1>1, <1>2, <1>3, Invariant, PTL DEF Moves, Spec

\* While it serves: the signal is caught, then the watcher comes from w to where its
\* next step takes it, then the process ends.
Caught(w) == Serving /\ signal = "caught" /\ watcher = w

Catches ==
  Spec /\ WF_vars(Catch) /\ []StopGoesOn => (Serving ~> (Serving /\ signal = "caught") \/ Out)
Watches(w) ==
  Spec /\ WF_vars(Watch) /\ []StopGoesOn => (Caught(w) ~> Caught(WatchNext[w]) \/ Out)
LastWatch ==
  Spec /\ WF_vars(Watch) /\ []StopGoesOn /\ CallsEnd => (Caught("stopping") ~> Caught("stopped") \/ Out)
Returns ==
  Spec /\ WF_vars(Run) /\ []StopGoesOn => (Caught("stopped") ~> Out)

LEMMA SignalCaught == Catches
<1>1. Inv /\ [Next]_vars /\ Serving => Serving' \/ Out'
  BY ServingGoesOn
<1>2. <<Catch>>_vars /\ Serving => Serving' /\ (signal = "caught")'
  BY DEF Catch, Serving, Told
<1>3. StopGoesOn /\ Serving => signal = "caught" \/ ENABLED <<Catch>>_vars
  BY DEF StopGoesOn, Serving, Told, Alive, Ends
<1> QED
  BY <1>1, <1>2, <1>3, Invariant, PTL DEF Catches, Spec

LEMMA CaughtStays ==
  ASSUME Inv, [Next]_vars, NEW w \in {"waiting", "unready", "stopping"}, Caught(w)
  PROVE  Caught(w)' \/ Caught(WatchNext[w])' \/ Out'
BY ServingGoesOn DEF Caught

LEMMA WatcherGoesOn == ASSUME NEW w \in {"waiting", "unready"} PROVE Watches(w)
<1>1. Inv /\ [Next]_vars /\ Caught(w) => Caught(w)' \/ (Caught(WatchNext[w]) \/ Out)'
  BY CaughtStays
<1>2. <<Watch>>_vars /\ Caught(w) => Caught(WatchNext[w])'
  BY WatchGoesOn DEF Caught
<1>3. StopGoesOn /\ Caught(w) => ENABLED <<Watch>>_vars
  BY DEF StopGoesOn, Caught, Serving, Told, Alive, Ends
<1> QED
  BY <1>1, <1>2, <1>3, Invariant, PTL DEF Watches, Spec

LEMMA WatcherEnds == LastWatch
<1>1. Inv /\ [Next]_vars /\ Caught("stopping") => Caught("stopping")' \/ (Caught("stopped") \/ Out)'
  BY CaughtStays, NextValues
<1>2. Inv /\ [Next]_vars /\ Caught("stopping") /\ NoneRuns => NoneRuns' \/ Out'
  BY ServingGoesOn DEF Caught
<1>3. <<Watch>>_vars /\ Caught("stopping") => Caught("stopped")'
  BY WatchGoesOn, NextValues DEF Caught
<1>4. StopGoesOn /\ Caught("stopping") /\ NoneRuns => ENABLED <<Watch>>_vars
  BY DEF StopGoesOn, NoneRuns, Caught, Serving, Told, Alive, Ends
<1>5. Caught("stopping") => watcher = "stopping" /\ Alive
  BY DEF Caught, Serving, Told, Alive, Ends
<1> QED
  BY <1>1, <1>2, <1>3, <1>4, <1>5, Invariant, PTL DEF LastWatch, CallsEnd, Spec

LEMMA ServeReturnsAtLast == Returns
<1>1. Inv /\ [Next]_vars /\ Caught("stopped") => Caught("stopped")' \/ Out'
  BY ServingGoesOn DEF Caught
<1>2. <<Run>>_vars /\ Caught("stopped") => Out'
  BY ServeEnds DEF Caught, Out
<1>3. StopGoesOn /\ Caught("stopped") => ENABLED <<Run>>_vars
  BY DEF StopGoesOn, Caught, Serving, Told, Alive, Ends
<1> QED
  BY <1>1, <1>2, <1>3, Invariant, PTL DEF Returns, Spec

-----------------------------------------------------------------------------
(***************************************************************************)
(* When the steps of the goroutines are enabled.  Each formula is the      *)
(* disjunction of the guards of the actions that make up Run, Catch and    *)
(* Watch.  GuardsEnable, that a step whose guard holds is enabled, is what *)
(* ENABLED means of these actions; the provers cannot look into ENABLED,   *)
(* so it is a hypothesis.                                                  *)
(***************************************************************************)
CanRun ==
  \/ main \in {"notify", "catch", "remove", "listen", "ready", "watch", "failed"}
  \/ main = "serve" /\ ~Stopped
  \/ main = "serve" /\ Stopped
  \/ main = "serving" /\ ServeMayReturn
CanCatch == signal = "pending" /\ main # "catch"
CanWatch ==
  \/ watcher = "waiting" /\ signal = "caught"
  \/ watcher = StopsWhen
  \/ watcher = "stopping" /\ \A c \in Calls : call[c] # "running"

GuardsEnable ==
  /\ CanRun => ENABLED <<Run>>_vars
  /\ CanCatch => ENABLED <<Catch>>_vars
  /\ CanWatch => ENABLED <<Watch>>_vars

\* A signal that the process outlived is on its way: it lies in the channel or was
\* taken from there.
HeardInv ==
  /\ Alive /\ "signal" \in cause => signal \in {"pending", "caught"}
  /\ main = "notify" => signal = "default"

LEMMA HeardStep == Inv /\ HeardInv /\ [Next]_vars => HeardInv'
<1> SUFFICES ASSUME Inv, HeardInv, [Next]_vars PROVE HeardInv'
  OBVIOUS
<1> USE DEF HeardInv, Alive, Ends
<1>1. CASE Start
  BY <1>1 DEF Start, Inv, CauseInv
<1>2. CASE Notify
  BY <1>2 DEF Notify
<1>3. CASE Run /\ ~Notify
  BY <1>3 DEF Run, SpawnCatcher, RemoveSocket, Listen, SetReady, SpawnWatcher, Serve,
              ServeStopped, ServeReturns, ExitFailed, Goto, End
<1>4. CASE Catch \/ Watch \/ UNCHANGED vars
  BY <1>4 DEF Catch, Watch, SetUnready, GracefulStop, GracefullyStopped, vars
<1>5. ASSUME NEW c \in Calls, Connect(c) \/ Accept(c) \/ Answer(c) PROVE HeardInv'
  BY <1>5 DEF Connect, Accept, Answer, CallStep
<1>6. CASE Signal
  BY <1>6 DEF Signal, Arrives, End, Inv, TypeOK
<1>7. CASE StartupFails \/ Kill
  BY <1>7 DEF StartupFails, Kill, End
<1>8. CASE ServeFails
  BY <1>8 DEF ServeFails, Fault
<1> QED
  BY <1>1, <1>2, <1>3, <1>4, <1>5, <1>6, <1>7, <1>8 DEF Next

LEMMA Heard == Spec => []HeardInv
<1>1. Init => HeardInv
  BY DEF Init, HeardInv, Alive, Ends
<1> QED
  BY <1>1, HeardStep, Invariant, PTL DEF Spec

(***************************************************************************)
(* When a signal is to end the process, the goroutine whose turn it is can *)
(* always go on, whenever the signal came: the signal is not lost before   *)
(* its goroutine waits for it, the server that is served has a goroutine   *)
(* that stops it, and Serve waits for nothing that is over                 *)
(* (main.go:131-143, driver.go:187-197).                                   *)
(***************************************************************************)
THEOREM StopAlwaysGoesOn == Spec /\ []GuardsEnable => []StopGoesOn
<1>1. ASSUME Inv, HeardInv, GuardsEnable, Alive, "signal" \in cause PROVE StopGoesOn
  <2> USE DEF GuardsEnable
  <2>1. ASSUME main # "serving" \/ watcher = "stopped" PROVE CanRun
    BY <1>1, <2>1 DEF CanRun, ServeMayReturn, Inv, TypeOK, Alive, Steps, Startup
  <2>2. ASSUME main = "serving", signal # "caught" PROVE CanCatch
    BY <1>1, <2>2 DEF CanCatch, HeardInv
  <2>3. ASSUME main = "serving", signal = "caught", watcher # "stopped"
        PROVE  CanWatch \/ (watcher = "stopping" /\ \E c \in Calls : call[c] = "running")
    BY <1>1, <2>3 DEF CanWatch, StopsWhen, Inv, TypeOK, ReadyInv
  <2> QED
    BY <1>1, <2>1, <2>2, <2>3 DEF StopGoesOn
<1>2. Inv /\ HeardInv /\ GuardsEnable => StopGoesOn
  BY <1>1 DEF StopGoesOn
<1> QED
  BY <1>2, Invariant, Heard, PTL

-----------------------------------------------------------------------------
(***************************************************************************)
(* A signal always ends the process, at whatever moment of its start or    *)
(* its service it comes (main.go:131-143, driver.go:187-193), if the calls *)
(* that run when the server stops end.                                     *)
(***************************************************************************)
THEOREM SignalAlwaysStops == FairSpec /\ []GuardsEnable /\ CallsEnd => SignalStops
<1>0. FairSpec /\ []GuardsEnable => []StopGoesOn
  BY StopAlwaysGoesOn, PTL DEF FairSpec
<1>1. /\ Moves("notify") /\ Moves("catch") /\ Moves("remove") /\ Moves("listen")
      /\ Moves("ready") /\ Moves("watch") /\ Moves("serve") /\ Moves("failed")
  BY MainMoves DEF Steps, Startup
<1>2. Catches /\ Watches("waiting") /\ Watches("unready") /\ LastWatch /\ Returns
  BY SignalCaught, WatcherGoesOn, WatcherEnds, ServeReturnsAtLast
<1>3. Inv /\ Alive /\ "signal" \in cause =>
        \/ Told("notify") \/ Told("catch") \/ Told("remove") \/ Told("listen")
        \/ Told("ready") \/ Told("watch") \/ Told("serve") \/ Told("failed") \/ Serving
  BY DEF Inv, TypeOK, Told, Serving, Alive, Steps, Startup
<1>4. Inv /\ Serving /\ signal = "caught" =>
        Caught("waiting") \/ Caught("unready") \/ Caught("stopping") \/ Caught("stopped")
  BY DEF Inv, TypeOK, ReadyInv, Caught, Serving, Told
<1>5. /\ Told(MainNext["notify"]) => Told("catch")
      /\ Told(MainNext["catch"]) => Told("remove")
      /\ Told(MainNext["remove"]) => Told("listen")
      /\ Told(MainNext["listen"]) => Told("ready")
      /\ Told(MainNext["ready"]) => Told("watch")
      /\ Told(MainNext["watch"]) => Told("serve")
      /\ Told(MainNext["serve"]) => Serving
      /\ Told(MainNext["failed"]) => ~Alive
  BY NextValues DEF Serving, Told, Alive, Ends
<1>6. /\ Caught(WatchNext["waiting"]) => Caught("unready")
      /\ Caught(WatchNext["unready"]) => Caught("stopping")
  BY NextValues
<1>7. FairSpec /\ []StopGoesOn => (Told("failed") ~> ~Alive)
  BY <1>1, <1>5, PTL DEF Moves, FairSpec, Fairness
<1>8. FairSpec /\ []StopGoesOn /\ CallsEnd => (Serving ~> ~Alive)
  BY <1>2, <1>4, <1>6, <1>7, Invariant, PTL DEF Catches, Watches, LastWatch, Returns, Out, FairSpec, Fairness
<1>9. FairSpec /\ []StopGoesOn /\ CallsEnd => (Told("notify") \/ Told("catch") \/ Told("remove") \/ Told("listen")
        \/ Told("ready") \/ Told("watch") \/ Told("serve") ~> ~Alive)
  BY <1>1, <1>5, <1>8, PTL DEF Moves, FairSpec, Fairness
<1> QED
  BY <1>0, <1>3, <1>7, <1>8, <1>9, Invariant, PTL DEF SignalStops, FairSpec
=============================================================================
