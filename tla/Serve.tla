------------------------------- MODULE Serve -------------------------------
(***************************************************************************)
(* The life of a process that serves: `pithosctl healthz`, the health      *)
(* check beside each Pithos server, and `pithosctl server`, the status of  *)
(* the cluster.                                                            *)
(*                                                                         *)
(* Three goroutines: the main one prepares, starts the listener, waits for *)
(* its error or for the context, and shuts down; one waits for a signal    *)
(* and cancels the context; one listens.  Each request has a goroutine of  *)
(* its own, which all end with the process.                                *)
(***************************************************************************)
EXTENDS Naturals

CONSTANTS Request,      \* requests that may come
          MaxSignals    \* bound: signals sent to the process

ASSUME SignalAssumption == MaxSignals \in Nat

VARIABLES
    command,     \* "healthz" or "server"
    key,         \* is an access key in the flags or in the environment
    main,        \* "start", "prepare", "select", "shutdown", "drain", "exited"
    exit,        \* exit status; 143 stands for death by a signal
    listener,    \* "none", "starting", "listening", "returned"
    errChan,     \* buffered channel of one error: "empty", "nil", "error"
    notified,    \* signal.Notify has been called
    pending,     \* a signal in the channel exitSignals
    done,        \* the context is cancelled
    prepared,    \* bucket and object are there; the configuration is complete
    request,     \* "none", "active", "answered", "cut"
    signals      \* signals sent so far

goroutines == <<main, exit, listener, errChan, prepared>>
signalling == <<notified, pending, done, signals>>
vars == <<command, key, goroutines, signalling, request>>

Alive == main # "exited"

Active == {r \in Request : request[r] = "active"}

ServeTypeOK ==
    /\ command \in {"healthz", "server"} /\ key \in BOOLEAN
    /\ main \in {"start", "prepare", "select", "shutdown", "drain", "exited"}
    /\ exit \in {0, 143, 255}
    /\ listener \in {"none", "starting", "listening", "returned"}
    /\ errChan \in {"empty", "nil", "error"}
    /\ notified \in BOOLEAN /\ pending \in BOOLEAN
    /\ done \in BOOLEAN /\ prepared \in BOOLEAN
    /\ request \in [Request -> {"none", "active", "answered", "cut"}]
    /\ signals \in 0 .. MaxSignals

\* bindFlagEnv runs before the command line is parsed.
Bound(flag, environment) == flag \/ environment

Init ==
    /\ command \in {"healthz", "server"}
    /\ \E flag, environment \in BOOLEAN : key = Bound(flag, environment)
    /\ main = "start" /\ exit = 0
    /\ listener = "none" /\ errChan = "empty"
    /\ notified = FALSE /\ pending = FALSE /\ done = FALSE /\ prepared = FALSE
    /\ request = [r \in Request |-> "none"]
    /\ signals = 0

----------------------------------------------------------------------------
(***************************************************************************)
(* The goroutine of the signals, started before main.                      *)
(***************************************************************************)
Exit(how) ==
    /\ main' = "exited" /\ exit' = how
    /\ request' = [r \in Request |->
                      IF request[r] = "active" THEN "cut" ELSE request[r]]

Notify ==
    /\ Alive /\ ~notified
    /\ notified' = TRUE
    /\ UNCHANGED <<command, key, goroutines, pending, done, signals, request>>

\* The channel holds one signal, those that do not fit are dropped.  Before
\* Notify a signal has its default effect.
Signal ==
    /\ Alive /\ signals < MaxSignals
    /\ signals' = signals + 1
    /\ IF notified
       THEN pending' = TRUE /\ UNCHANGED <<goroutines, request>>
       ELSE Exit(143) /\ UNCHANGED <<pending, listener, errChan, prepared>>
    /\ UNCHANGED <<command, key, notified, done>>

\* The goroutine reads one signal, ever.
Cancel ==
    /\ Alive /\ notified /\ pending /\ ~done
    /\ done' = TRUE /\ pending' = FALSE
    /\ UNCHANGED <<command, key, goroutines, notified, signals, request>>

----------------------------------------------------------------------------
(***************************************************************************)
(* The main goroutine.                                                     *)
(***************************************************************************)
\* initKubeClient, setUpLogs, NewHealthz: any of them may fail.  The client is
\* made of whatever keys there are.
Start ==
    /\ main = "start"
    /\ \/ main' = "prepare" /\ UNCHANGED <<exit, request>>
       \/ Exit(255)
    /\ UNCHANGED <<command, key, listener, errChan, prepared, signalling>>

Listening == main' = "select" /\ listener' = "starting" /\ UNCHANGED <<exit, request>>

\* Faulty: the listener is started first.
PrepareLate ==
    /\ main = "prepare"
    /\ Listening /\ UNCHANGED prepared
    /\ UNCHANGED <<command, key, errChan, signalling>>

\* Bucket and object of the health check, or CheckAndSetDefaults.  Pithos and the
\* API server may refuse, without keys Pithos does.  The context is not looked at.
Prepare ==
    /\ main = "prepare"
    /\ \/ /\ command = "healthz" => key
          /\ prepared' = TRUE
          /\ Listening
       \/ Exit(255) /\ UNCHANGED <<listener, prepared>>
    /\ UNCHANGED <<command, key, errChan, signalling>>

\* select: when both channels are ready either may be taken.
SelectError ==
    /\ main = "select" /\ errChan # "empty"
    /\ errChan' = "empty"
    /\ Exit(IF errChan = "nil" THEN 0 ELSE 255)
    /\ UNCHANGED <<command, key, listener, prepared, signalling>>

SelectDone ==
    /\ main = "select" /\ done
    /\ main' = "shutdown"
    /\ UNCHANGED <<command, key, exit, listener, errChan, prepared, signalling, request>>

\* Faulty: Close in place of Shutdown.
NoMatter == TRUE

Quiescent == Active = {}

\* Shutdown closes the listeners, then looks for active connections, at once and
\* every half second; the error of the context ends it with status 255.
Shutdown ==
    /\ main = "shutdown" \/ main = "drain"
    /\ IF Quiescent
       THEN Exit(0)
       ELSE main' = "drain" /\ UNCHANGED <<exit, request>>
    /\ UNCHANGED <<command, key, listener, errChan, prepared, signalling>>

\* Faulty: Shutdown gets a context without a deadline.
NoDeadline == FALSE

Deadline == main = "drain"

ShutdownTimesOut ==
    /\ Deadline
    /\ Exit(255)
    /\ UNCHANGED <<command, key, listener, errChan, prepared, signalling>>

----------------------------------------------------------------------------
(***************************************************************************)
(* The listener and the requests.                                          *)
(***************************************************************************)
ShuttingDown == main \in {"shutdown", "drain"}

\* Faulty: every error counts as ErrServerClosed.
AlwaysNil == "nil"

ServeError == "error"

\* Faulty: ErrServerClosed is handed on like any error.
ServerClosed == "closed"

ClosedError == "nil"

\* ListenAndServe: the port is taken, or the server was shut down before.
Listen ==
    /\ Alive /\ listener = "starting"
    /\ \/ ~ShuttingDown /\ listener' = "listening" /\ UNCHANGED errChan
       \/ listener' = "returned"
          /\ errChan' = IF ShuttingDown THEN ClosedError ELSE ServeError
    /\ UNCHANGED <<command, key, main, exit, prepared, signalling, request>>

\* Serve returns, on the order of Shutdown or on an error of its own.
ServeReturns ==
    /\ Alive /\ listener = "listening"
    /\ listener' = "returned"
    /\ errChan' = IF ShuttingDown THEN ClosedError ELSE ServeError
    /\ UNCHANGED <<command, key, main, exit, prepared, signalling, request>>

\* Shutdown closes the listeners before it looks for connections.
Accept(r) ==
    /\ Alive /\ listener = "listening" /\ ~ShuttingDown
    /\ request[r] = "none"
    /\ request' = [request EXCEPT ![r] = "active"]
    /\ UNCHANGED <<command, key, goroutines, signalling>>

Answer(r) ==
    /\ Alive /\ request[r] = "active"
    /\ request' = [request EXCEPT ![r] = "answered"]
    /\ UNCHANGED <<command, key, goroutines, signalling>>

----------------------------------------------------------------------------
Main == Start \/ Prepare \/ SelectError \/ SelectDone \/ Shutdown \/ ShutdownTimesOut

Next ==
    \/ Main \/ Notify \/ Cancel \/ Listen
    \/ Signal \/ ServeReturns
    \/ \E r \in Request : Accept(r) \/ Answer(r)
    \/ ~Alive /\ UNCHANGED vars

\* Goroutines that can run do.  A call to Pithos or to the API server may take for
\* ever, neither client has a time-out for the answer: so may Prepare and a request.
Fairness ==
    /\ WF_vars(Start) /\ WF_vars(SelectError \/ SelectDone)
    /\ WF_vars(Shutdown) /\ WF_vars(ShutdownTimesOut)
    /\ WF_vars(Notify) /\ WF_vars(Cancel) /\ WF_vars(Listen)

Spec == Init /\ [][Next]_vars /\ Fairness

----------------------------------------------------------------------------
\* The process exits with status 0 only when it was told to stop and no client
\* lost its answer (shutdown in server.go:90-95, and main.go:50-55).
CleanExit ==
    main = "exited" /\ exit = 0
        => done /\ \A r \in Request : request[r] # "cut"

\* No request is answered before what the answer is about has been prepared
\* (healthz.go:69 before healthz.go:82).
AnswersPrepared == (\E r \in Request : request[r] = "answered") => prepared

\* A signal ends the process, whenever it comes: before the listener has started,
\* while preparation runs, with a request that never ends; unless preparation itself
\* never ends, which does not look at the context (healthz.go:69).
SignalEnds == <>[](main = "prepare") \/ (signals > 0 ~> ~Alive)

\* A listener that cannot listen ends the process with an error, unless a signal
\* ends it first: kubelet sees that the container failed.
ListenFailureSeen ==
    listener = "returned" /\ ~ShuttingDown ~> ~Alive /\ (exit = 255 \/ signals > 0)

\* "access-key is required" (pkg/pithos/healthz.go:51): the health check does not
\* go to Pithos without one.
KeyRequired == command = "healthz" /\ main \notin {"start", "exited"} => key
=============================================================================
