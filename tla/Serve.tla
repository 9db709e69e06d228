-------------------------------- MODULE Serve --------------------------------
(***************************************************************************)
(* The life of the process (cmd/serve.go, and ServeDual with what it calls *)
(* in server/server.go): the gRPC server, the HTTP server for CAPTCHAs and *)
(* the one for Prometheus in one errgroup, a goroutine for each that stops *)
(* it when the group's context is done, the signal handler, and the main   *)
(* goroutine that waits for the group and exits.  The HTTP server's        *)
(* requests go through the rate limiter (RateLimiter).                     *)
(*                                                                         *)
(* grpc.Server, http.Server and errgroup are modelled by what this code    *)
(* relies on.  Serve returns an error if GracefulStop came first, and nil  *)
(* once GracefulStop has waited for the calls under way: Checks, which are *)
(* answered, and streams of the health and reflection services, which last *)
(* as long as their client likes.  ListenAndServe returns as soon as       *)
(* Shutdown has begun, while Shutdown still waits.                         *)
(***************************************************************************)
EXTENDS RateLimiter

CONSTANTS
    Calls,     \* goroutines for calls of the gRPC server
    NoServer,  \* no server
    Options,   \* the sets of HTTP servers that may be configured
    Faults     \* what may go wrong: "startup", "listen", "serving", and "signal" for a stop

HttpServers == {"http", "prometheus"}
Servers == {"grpc"} \cup HttpServers

ASSUME ServeAssumption ==
    /\ NoServer \notin Servers
    /\ Options \subseteq SUBSET HttpServers
    /\ Faults \subseteq {"startup", "listen", "serving", "signal"}

VARIABLES
    enabled,     \* the servers ServeDual starts
    main,        \* "startup", "wait" (in ServeDual's g.Wait), "exited"
    exitStatus,  \* "ok" or "error", "" before the process exits
    signal,      \* "none", "sent" (in the channel), "read"
    stop,        \* the group's context is done
    firstError,  \* the server whose error the group keeps
    srv,         \* of each server: "absent", "start", "ready", "serving", "returned"
    outcome,     \* what its function returned: "ok", "failed", "stopped early", "" before
    stopper,     \* the goroutine that stops it: "none", "waiting", "stopping", "done"
    call         \* "idle", "open" (a Check), "stream" (a health Watch or a reflection stream)

groupVars == <<enabled, main, exitStatus, signal, stop, firstError, srv, outcome, stopper>>
vars == <<groupVars, call, limiterVars>>

Init ==
    /\ enabled \in {{"grpc"} \cup o : o \in Options}
    /\ main = "startup" /\ exitStatus = "" /\ signal = "none" /\ stop = FALSE
    /\ firstError = NoServer
    /\ srv = [s \in Servers |-> "absent"]
    /\ outcome = [s \in Servers |-> ""]
    /\ stopper = [s \in Servers |-> "none"]
    /\ call = [c \in Calls |-> "idle"]
    /\ RateInit

Running == main # "exited"

\* The configuration, a component or the recorder is refused: RunE returns the error.
StartupFails ==
    /\ main = "startup" /\ "startup" \in Faults
    /\ main' = "exited" /\ exitStatus' = "error"
    /\ UNCHANGED <<enabled, signal, stop, firstError, srv, outcome, stopper, call, limiterVars>>

(* ServeDual starts a goroutine for each server.  gracefullyListenAndServe *)
(* starts the stopper at once, serveGRPC only when it listens.             *)
ServeDual ==
    /\ main = "startup"
    /\ main' = "wait"
    /\ srv' = [s \in Servers |-> IF s \in enabled THEN "start" ELSE "absent"]
    /\ stopper' = [s \in Servers |-> IF s \in enabled \ {"grpc"} THEN "waiting" ELSE "none"]
    /\ UNCHANGED <<enabled, exitStatus, signal, stop, firstError, outcome, call, limiterVars>>

\* SIGINT or SIGTERM; the handler reads one, later ones are dropped.
Signal ==
    /\ main = "wait" /\ signal = "none" /\ "signal" \in Faults
    /\ signal' = "sent"
    /\ UNCHANGED <<enabled, main, exitStatus, stop, firstError, srv, outcome, stopper, call, limiterVars>>

ReadSignal ==
    /\ Running /\ signal = "sent"
    /\ signal' = "read"
    /\ stop' = TRUE
    /\ UNCHANGED <<enabled, main, exitStatus, firstError, srv, outcome, stopper, call, limiterVars>>

\* Mutant of Return: a server that returns an error does not stop the others.
ReturnAlone(s, res) ==
    /\ srv' = [srv EXCEPT ![s] = "returned"]
    /\ outcome' = [outcome EXCEPT ![s] = res]
    /\ firstError' = IF res # "ok" /\ firstError = NoServer THEN s ELSE firstError
    /\ UNCHANGED <<enabled, main, exitStatus, signal, stop, stopper, call, limiterVars>>

\* Mutant of Return: the last error is kept.
ReturnLast(s, res) ==
    /\ srv' = [srv EXCEPT ![s] = "returned"]
    /\ outcome' = [outcome EXCEPT ![s] = res]
    /\ firstError' = IF res # "ok" THEN s ELSE firstError
    /\ stop' = (stop \/ res # "ok")
    /\ UNCHANGED <<enabled, main, exitStatus, signal, stopper, call, limiterVars>>

\* A server's function returns; the first error is kept and stops the others.
Return(s, res) ==
    /\ srv' = [srv EXCEPT ![s] = "returned"]
    /\ outcome' = [outcome EXCEPT ![s] = res]
    /\ firstError' = IF res # "ok" /\ firstError = NoServer THEN s ELSE firstError
    /\ stop' = (stop \/ res # "ok")
    /\ UNCHANGED <<enabled, main, exitStatus, signal, stopper, call, limiterVars>>

\* The port is taken.
ListenFails(s) ==
    /\ Running /\ srv[s] = "start" /\ "listen" \in Faults
    /\ Return(s, "failed")

\* Accept fails for good while nobody is stopping the server.
ServingFails(s) ==
    /\ Running /\ srv[s] = "serving" /\ stopper[s] = "waiting" /\ "serving" \in Faults
    /\ Return(s, "failed")

\* Mutant of GrpcListen: nobody stops the server.
GrpcListenUnstopped ==
    /\ Running /\ srv["grpc"] = "start"
    /\ srv' = [srv EXCEPT !["grpc"] = "ready"]
    /\ UNCHANGED <<enabled, main, exitStatus, signal, stop, firstError, outcome, stopper, call,
                   limiterVars>>

GrpcListen ==
    /\ Running /\ srv["grpc"] = "start"
    /\ srv' = [srv EXCEPT !["grpc"] = "ready"]
    /\ stopper' = [stopper EXCEPT !["grpc"] = "waiting"]
    /\ UNCHANGED <<enabled, main, exitStatus, signal, stop, firstError, outcome, call, limiterVars>>

\* grpcServer.Serve: an error if the server was stopped before it served.
GrpcServe ==
    /\ Running /\ srv["grpc"] = "ready"
    /\ IF stopper["grpc"] = "waiting"
       THEN /\ srv' = [srv EXCEPT !["grpc"] = "serving"]
            /\ UNCHANGED <<enabled, main, exitStatus, signal, stop, firstError, outcome, stopper,
                           call, limiterVars>>
       ELSE Return("grpc", "stopped early")

\* Mutant of GrpcReturns: Serve returns like ListenAndServe, as soon as it is stopped.
GrpcReturnsAtOnce ==
    /\ Running /\ srv["grpc"] = "serving" /\ stopper["grpc"] # "waiting"
    /\ Return("grpc", "ok")

GrpcReturns ==
    /\ Running /\ srv["grpc"] = "serving" /\ stopper["grpc"] = "done"
    /\ Return("grpc", "ok")

\* ListenAndServe, up to the first Accept: ErrServerClosed, no error, if Shutdown came first.
HttpListen(s) ==
    /\ Running /\ srv[s] = "start"
    /\ IF stopper[s] = "waiting"
       THEN /\ srv' = [srv EXCEPT ![s] = "serving"]
            /\ UNCHANGED <<enabled, main, exitStatus, signal, stop, firstError, outcome, stopper,
                           call, limiterVars>>
       ELSE Return(s, "ok")

HttpReturns(s) ==
    /\ Running /\ srv[s] = "serving" /\ stopper[s] # "waiting"
    /\ Return(s, "ok")

\* The group's context is done: GracefulStop or Shutdown closes the listener.
BeginStop(s) ==
    /\ Running /\ stopper[s] = "waiting" /\ stop
    /\ stopper' = [stopper EXCEPT ![s] = "stopping"]
    /\ UNCHANGED <<enabled, main, exitStatus, signal, stop, firstError, srv, outcome, call, limiterVars>>

(* GracefulStop returns when no call and no stream is open, however long   *)
(* that takes; Shutdown when no request is under way, or after five seconds.           *)
Stopped(s) ==
    /\ Running /\ stopper[s] = "stopping"
    /\ s = "grpc" => \A c \in Calls : call[c] = "idle"
    /\ stopper' = [stopper EXCEPT ![s] = "done"]
    /\ UNCHANGED <<enabled, main, exitStatus, signal, stop, firstError, srv, outcome, call, limiterVars>>

(* g.Wait returns the first error when every server's function is back,    *)
(* and with the main goroutine everything else in the process ends.        *)
Exit ==
    /\ main = "wait"
    /\ \A s \in enabled : srv[s] = "returned"
    /\ main' = "exited"
    /\ exitStatus' = IF firstError = NoServer THEN "ok" ELSE "error"
    /\ UNCHANGED <<enabled, signal, stop, firstError, srv, outcome, stopper, call, limiterVars>>

(* Calls arrive on connections that were made before the server was        *)
(* stopped; connections outlive a listener that failed.                    *)
Accepting == Running /\ srv["grpc"] \in {"serving", "returned"} /\ stopper["grpc"] = "waiting"

OpenCall(c) ==
    /\ Accepting /\ call[c] = "idle"
    /\ call' = [call EXCEPT ![c] = "open"]
    /\ UNCHANGED <<groupVars, limiterVars>>

AnswerCall(c) ==
    /\ Running /\ call[c] = "open"
    /\ call' = [call EXCEPT ![c] = "idle"]
    /\ UNCHANGED <<groupVars, limiterVars>>

\* A client watches the health service, or opens a reflection stream.
OpenStream(c) ==
    /\ Accepting /\ call[c] = "idle"
    /\ call' = [call EXCEPT ![c] = "stream"]
    /\ UNCHANGED <<groupVars, limiterVars>>

\* The client ends its stream, or its connection is lost; the server never does.
EndStream(c) ==
    /\ Running /\ call[c] = "stream"
    /\ call' = [call EXCEPT ![c] = "idle"]
    /\ UNCHANGED <<groupVars, limiterVars>>

\* A request reaches the HTTP server.
ArriveHttp(w, a) ==
    /\ Running /\ srv["http"] = "serving" /\ stopper["http"] = "waiting"
    /\ Arrive(w, a)
    /\ UNCHANGED <<groupVars, call>>

WorkHttp(w) == Running /\ Work(w) /\ UNCHANGED <<groupVars, call>>

Time == Running /\ Tick /\ UNCHANGED <<groupVars, call>>

\* What the goroutines of the group and the main goroutine do.
Run == \/ ServeDual \/ ReadSignal \/ Exit
       \/ GrpcListen \/ GrpcServe \/ GrpcReturns
       \/ \E s \in HttpServers : HttpListen(s) \/ HttpReturns(s)
       \/ \E s \in Servers : BeginStop(s) \/ Stopped(s)

Environment == \/ StartupFails \/ Signal \/ Time
               \/ \E s \in Servers : ListenFails(s) \/ ServingFails(s)
               \/ \E c \in Calls : OpenCall(c) \/ OpenStream(c) \/ EndStream(c)
               \/ \E w \in Workers, a \in IPs : ArriveHttp(w, a)

Next == Run \/ Environment \/ (\E c \in Calls : AnswerCall(c)) \/ \E w \in Workers : WorkHttp(w)

Spec == Init /\ [][Next]_vars

(* The scheduler runs every goroutine, and a Check is answered: what it    *)
(* asks AppSec has a timeout.  Nobody owes a request, a signal, a fault or *)
(* the end of a stream.                                                    *)
Fairness == WF_vars(Run) /\ \A c \in Calls : WF_vars(AnswerCall(c))

FairSpec == Spec /\ Fairness

-----------------------------------------------------------------------------
\* Properties.

(* Every variable holds values of its kind; a server is stopped by a       *)
(* goroutine that was started before it served, and never the other way.   *)
TypeOK ==
    /\ RateTypeOK
    /\ {"grpc"} \subseteq enabled /\ enabled \subseteq Servers
    /\ main \in {"startup", "wait", "exited"} /\ exitStatus \in {"", "ok", "error"}
    /\ signal \in {"none", "sent", "read"} /\ stop \in BOOLEAN
    /\ firstError \in Servers \cup {NoServer}
    /\ srv \in [Servers -> {"absent", "start", "ready", "serving", "returned"}]
    /\ outcome \in [Servers -> {"", "ok", "failed", "stopped early"}]
    /\ stopper \in [Servers -> {"none", "waiting", "stopping", "done"}]
    /\ \A s \in Servers : srv[s] \in {"ready", "serving"} => stopper[s] # "none"
    /\ call \in [Calls -> {"idle", "open", "stream"}]

(* A Check that was accepted is answered, and a stream left to its client, *)
(* before the process exits, whether a signal stops it or another server's *)
(* failure: only if the gRPC server itself fails does nobody wait for its  *)
(* calls (serveGRPC, GracefulStop).                                        *)
ChecksDrained ==
    main = "exited" => outcome["grpc"] = "failed" \/ \A c \in Calls : call[c] = "idle"

Failed == {s \in Servers : outcome[s] = "failed"}

(* The exit status tells how the process ended.  Success means a signal    *)
(* and that every server stopped without an error; an error means that a   *)
(* server failed, or that the signal came before the gRPC server served.   *)
(* Without a signal the error reported is the failure that began it, not   *)
(* an error of a server stopped because of it (ServeDual, g.Wait).         *)
ExitTellsWhy ==
    main = "exited" /\ srv["grpc"] # "absent" =>
        /\ exitStatus = "ok" => signal = "read" /\ \A s \in enabled : outcome[s] = "ok"
        /\ exitStatus = "error" =>
               \/ Failed # {}
               \/ signal = "read" /\ outcome["grpc"] = "stopped early"
        /\ exitStatus = "error" /\ signal # "read" => firstError \in Failed

Ending == signal = "sent" \/ Failed # {}

\* All that is left of the process is the gRPC server waiting for its calls.
OnlyDraining == \A s \in enabled : srv[s] = "returned" \/ (s = "grpc" /\ stopper[s] = "stopping")

(* The process goes down as a whole: after a signal, or after one server   *)
(* has failed, it is never left half serving: in the end every server is   *)
(* back, but for a gRPC server that waits for its calls.  It exits if no   *)
(* client keeps a stream open for good, and cannot be counted on to exit   *)
(* otherwise, GracefulStop having no deadline (errgroup.WithContext, the   *)
(* stoppers).                                                              *)
StopsAltogether ==
    /\ Ending ~> (main = "exited" \/ OnlyDraining)
    /\ (\A c \in Calls : []<>(call[c] # "stream")) => (Ending ~> main = "exited")
=============================================================================
