------------------------------ MODULE Process -------------------------------
(***************************************************************************)
(* cmd/server/main.go: one process from its start to its end, around the   *)
(* requests of Server.  main starts an HTTP and a gRPC server, each in a   *)
(* goroutine of its own, waits for a signal, and shuts them down one after *)
(* the other: the HTTP server within 5 s, then the gRPC server, however    *)
(* long its RPCs take.  log.Fatalf, on any goroutine, ends the process and *)
(* with it every request under way; the orchestrator then starts it again. *)
(*                                                                         *)
(* The HTTP and the gRPC server are external and modelled by what main     *)
(* relies on: net/http's Shutdown closes the listener, looks whether a     *)
(* connection is in use and then waits until none is, or the context is    *)
(* done, while those that are open may still bring requests; gRPC's        *)
(* GracefulStop announces the end to its clients, which may still send     *)
(* RPCs until they have heard of it, and waits for all RPCs.               *)
(***************************************************************************)
EXTENDS Server

CONSTANT RPCs    \* the members of Routes that gRPC serves; HTTP has the others

ASSUME ProcessAssumption == RPCs \subseteq Routes

VARIABLES
    main,      \* where main is, or how the process ended
    http,      \* the HTTP server
    grpc,      \* the gRPC server
    quit,      \* whether main's channel of length 1 holds a signal
    signalled  \* history: a signal has come since main asked for signals

process == <<main, http, grpc, quit, signalled>>
procVars == <<vars, process>>

\* How a process ends: main returned, HTTP did not drain in time, log.Fatalf for
\* another reason, or from outside.
Ended == {"clean", "forced", "failed", "killed"}
Shutting == {"shutdown", "draining", "stopping"}

ProcessTypeOK ==
    /\ main \in {"booting", "launched", "notified"} \cup Shutting \cup Ended
    /\ http \in {"unstarted", "serving", "closing", "closed"}
    /\ grpc \in {"unstarted", "serving", "stopping", "closed", "refused"}
    /\ quit \in BOOLEAN
    /\ signalled \in BOOLEAN

ProcessInit ==
    /\ Init
    /\ main = "booting"
    /\ http = "unstarted"
    /\ grpc = "unstarted"
    /\ quit = FALSE
    /\ signalled = FALSE

Running == main \notin Ended
Launched == Running /\ main # "booting"

\* A request of this kind is under way.
HTTPBusy == \E p \in Procs : Busy(p) /\ call[p].route \notin RPCs
RPCBusy == \E p \in Procs : Busy(p) /\ call[p].route \in RPCs

\* The end of the process, with all that its memory holds.
Exit(how) ==
    /\ main' = how
    /\ http' = "unstarted"
    /\ grpc' = "unstarted"
    /\ quit' = FALSE
    /\ signalled' = FALSE
    /\ Restart

-----------------------------------------------------------------------------
(***************************************************************************)
(* Start.                                                                  *)
(***************************************************************************)

\* The configuration is loaded, Redis answers and the gRPC port is bound, or
\* log.Fatalf; then both goroutines are started.
Boot ==
    /\ main = "booting"
    /\ \/ main' = "launched" /\ UNCHANGED <<vars, http, grpc, quit, signalled>>
       \/ Exit("failed")

\* The goroutine of the HTTP server is in ListenAndServe.  After a Shutdown that
\* was faster it returns http.ErrServerClosed, which main accepts.
ListenAndServe ==
    /\ Launched
    /\ http = "unstarted"
    /\ http' = "serving"
    /\ UNCHANGED <<vars, main, grpc, quit, signalled>>

\* The goroutine of the gRPC server is in Serve.  After a GracefulStop that was
\* faster it returns ErrServerStopped, which is fatal.
Serve ==
    /\ Launched
    /\ \/ /\ grpc = "unstarted"
          /\ grpc' = "serving"
          /\ UNCHANGED <<vars, main, http, quit, signalled>>
       \/ grpc = "refused" /\ Exit("failed")

\* One of the two servers returns an error of its own: a port that is taken, a
\* listener that fails.
ServerFails ==
    /\ Launched
    /\ {http, grpc} \cap {"unstarted", "serving"} # {}
    /\ Exit("failed")

\* signal.Notify
Notify ==
    /\ main = "launched"
    /\ main' = "notified"
    /\ UNCHANGED <<vars, http, grpc, quit, signalled>>

-----------------------------------------------------------------------------
(***************************************************************************)
(* Shutdown.                                                               *)
(***************************************************************************)

\* Mutant of Deliver: the channel has no buffer, and main is not at it yet.
DeliverUnbuffered ==
    /\ quit' \in {TRUE, quit}
    /\ signalled' = TRUE
    /\ UNCHANGED <<vars, main, http, grpc>>

\* The runtime puts the signal into the channel; one that is full stays so, and
\* after main has read it, once, nobody does again.
Deliver ==
    /\ quit' = TRUE
    /\ signalled' = TRUE
    /\ UNCHANGED <<vars, main, http, grpc>>

\* SIGINT or SIGTERM: before signal.Notify it ends the process.
Signal ==
    /\ Running
    /\ IF main \in {"booting", "launched"} THEN Exit("killed") ELSE Deliver

\* main reads the signal, and httpServer.Shutdown closes the listener.
Shutdown ==
    /\ main = "notified"
    /\ quit
    /\ main' = "shutdown"
    /\ http' = IF http = "serving" THEN "closing" ELSE "closed"
    /\ quit' = FALSE
    /\ UNCHANGED <<vars, grpc, signalled>>

\* Mutant of Drained: Close instead of Shutdown.
CloseHTTP ==
    /\ main \in {"shutdown", "draining"}
    /\ main' = "stopping"
    /\ http' = "closed"
    /\ grpc' = IF grpc = "serving" THEN "stopping" ELSE "refused"
    /\ UNCHANGED <<vars, quit, signalled>>

\* Shutdown finds no request under way and returns; main calls GracefulStop.
Drained ==
    /\ main \in {"shutdown", "draining"}
    /\ ~HTTPBusy
    /\ main' = "stopping"
    /\ http' = "closed"
    /\ grpc' = IF grpc = "serving" THEN "stopping" ELSE "refused"
    /\ UNCHANGED <<vars, quit, signalled>>

\* Shutdown finds a request under way, and goes on looking.
FindBusy ==
    /\ main = "shutdown"
    /\ HTTPBusy
    /\ main' = "draining"
    /\ UNCHANGED <<vars, http, grpc, quit, signalled>>

\* The 5 s are over first: log.Fatalf, and GracefulStop is never called.
TimeOut == main = "draining" /\ Exit("forced")

\* All clients have heard of the end, or are taken to have.
GoAway ==
    /\ grpc = "stopping"
    /\ grpc' = "closed"
    /\ UNCHANGED <<vars, main, http, quit, signalled>>

\* Mutant of GracefulStop: Stop, which does not wait.
Stop == main = "stopping" /\ grpc \in {"closed", "refused"} /\ Exit("clean")

\* GracefulStop returns, and main with it.
GracefulStop ==
    /\ main = "stopping"
    /\ \/ grpc = "closed" /\ ~RPCBusy
       \/ grpc = "refused"
    /\ Exit("clean")

-----------------------------------------------------------------------------
(***************************************************************************)
(* Requests, and the rest of the world.                                    *)
(***************************************************************************)

\* The server of route r takes up requests.
Accepts(r) == IF r \in RPCs THEN grpc \in {"serving", "stopping"}
                            ELSE http \in {"serving", "closing"}

Arrive(p) == Request(p) /\ Accepts(call'[p].route) /\ UNCHANGED process

\* The goroutine of a request makes a step.
Work(p) == (Middleware(p) \/ Handler(p)) /\ UNCHANGED process

\* Redis executes a command of this process or of one before it.
MakeChange(m) == Change(m) /\ UNCHANGED process

ManageKeys == Launched /\ Administer /\ UNCHANGED process

\* kill -9, or the runtime ends the process (see ServiceBreaker).
Crash == Running /\ Exit("killed")

\* The orchestrator starts the process.
StartAgain ==
    /\ main \in Ended
    /\ main' = "booting"
    /\ UNCHANGED <<vars, http, grpc, quit, signalled>>

MainStep ==
    \/ Boot \/ Notify
    \/ Shutdown \/ Drained \/ FindBusy \/ TimeOut \/ GracefulStop

ProcessNext ==
    \/ MainStep
    \/ ListenAndServe \/ Serve \/ ServerFails \/ GoAway
    \/ Signal \/ Crash \/ StartAgain
    \/ \E p \in Procs : Arrive(p) \/ Work(p)
    \/ \E m \in commands : MakeChange(m)
    \/ ManageKeys

\* main's goroutine runs, Shutdown has a deadline, and gRPC gives its clients a
\* limited time.  Nothing is assumed of the handlers: the service's calls of
\* Redis have deadlines, but its wait for the breaker's lock has none, and after
\* the reset branch was taken it may last for ever (see ServiceBreaker).
ProcessFairness == WF_procVars(MainStep) /\ WF_procVars(GoAway)

ProcessSpec == ProcessInit /\ [][ProcessNext]_procVars /\ ProcessFairness

-----------------------------------------------------------------------------
(***************************************************************************)
(* Properties.                                                             *)
(***************************************************************************)

\* Requests are under way only at a server that has been started, HTTP requests
\* only until main calls GracefulStop, and gRPC serves until main is there.
ProcessInv ==
    /\ ProcessTypeOK
    /\ main \in {"booting"} \cup Ended => http = "unstarted" /\ grpc = "unstarted"
    /\ main \in Shutting <=> http \in {"closing", "closed"}
    /\ main = "stopping" => http = "closed"
    /\ main = "stopping" <=> grpc \in {"stopping", "closed", "refused"}
    /\ http \in {"unstarted", "closed"} => ~HTTPBusy
    /\ grpc \in {"unstarted", "refused"} => ~RPCBusy

\* A process that ends by returning from main, after a signal, has answered every
\* request that it took up, RPCs taken up during the shutdown included.
NothingCutOff ==
    [][main' = "clean" /\ Running => \A p \in Procs : ~Busy(p)]_procVars

\* A signal that comes after signal.Notify ends the process, whatever main is
\* doing then, whether or not HTTP requests ever end, and whatever signals and
\* clients come: unless from some time on there is always an RPC under way, as
\* one that never ends, for which GracefulStop waits without a deadline.
SignalEnds == []<>~RPCBusy => (signalled ~> ~Running)
=============================================================================
