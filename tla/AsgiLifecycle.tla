---------------------------- MODULE AsgiLifecycle ----------------------------
(***************************************************************************)
(* The life of a fastpysgi server, from init_server to the return of       *)
(* run_server: server.c (init_srv, run_server, signal_handler,             *)
(* close_server), the bridge between asyncio and libuv of asgi.c           *)
(* (uni_loop, aio_loop_run, aio_loop_call) and lifespan.c.                 *)
(*                                                                         *)
(* Everything runs on one thread.  run_server is in one of the nested      *)
(* loops pc names; while the asyncio loop runs, its callbacks interleave:  *)
(* uni_loop (which runs libuv), steps of the lifespan coroutine, delayed   *)
(* Future.set_result calls and lifespan_done.  The delayed calls are made  *)
(* in the order in which they were asked for (call_later with delay 0).    *)
(***************************************************************************)
EXTENDS Naturals, Sequences

CONSTANTS
  Configs,       (* the settings a server may be started with               *)
  EarlyReturn,   (* may the application return before the shutdown event?   *)
  MaxOps,        (* bound: receives and unknown events of the application   *)
  MaxServed,     (* bound: HTTP requests in one run                         *)
  MaxRuns        (* bound: runs of the server in one process                *)

(* What init_server reads: the kind of the application, lifespan.mode,     *)
(* lifespan.fail_on_startup_error and hook_sigint.                         *)
Settings == [asgi : BOOLEAN, mode : {"off", "on", "auto"},
             fose : BOOLEAN, hook_sigint : 0 .. 2]

ASSUME LifecycleAssumption ==
  /\ Configs \subseteq Settings /\ EarlyReturn \in BOOLEAN
  /\ MaxOps \in Nat /\ MaxServed \in Nat /\ MaxRuns \in Nat

VARIABLES
  cfg,              (* the settings of this server                          *)
  pc,               (* where run_server is                                  *)
  exit_code,        (* g_srv.exit_code                                      *)
  saved_exit_code,  (* local of lifespan_shutdown                           *)
  ul,               (* aio.uni_loop_state                                   *)
  ulq,              (* calls of uni_loop waiting in the asyncio loop        *)
  ls,               (* lifespan.state                                       *)
  startup_future, shutdown_future, recv_future,
  timers,           (* set_result calls waiting in the asyncio loop         *)
  app,              (* the lifespan coroutine                               *)
  stopping,         (* the running asyncio loop has been told to stop       *)
  raised,           (* run_server goes on with a Python exception set       *)
  sigint,           (* Ctrl-C: not yet, pending in libuv, or handled        *)
  served,           (* HTTP requests read, history                          *)
  twice,            (* a future was resolved twice, history                 *)
  runs              (* runs of the server                                   *)

ctlVars  == <<ul, ulq, stopping, raised>>
loopVars == <<ctlVars, timers>>
lsVars   == <<ls, startup_future, shutdown_future, recv_future, app, twice>>
srvVars  == <<exit_code, saved_exit_code, sigint, served, runs, cfg>>
vars     == <<pc, loopVars, lsVars, srvVars>>

-----------------------------------------------------------------------------
Phase == {"off",        \* no server: before init_server, after close_server
          "inited",     \* init_server has returned, the sockets listen
          "uv_run",     \* run_server: uv_run (WSGI)
          "startup",    \* run_until_complete(startup_future)
          "forever",    \* run_forever
          "closing",    \* close_server is called
          "shutdown",   \* run_until_complete(shutdown_future)
          "draining",   \* the last uv_run calls of close_server
          "halted"}     \* exit(0) from signal_handler
InLoop == pc \in {"startup", "forever", "shutdown"}

UniLoop  == {"UL_DISABLED", "UL_CALL_SOON", "UL_CALL_LATER"}
Lifespan == {"LS_STATE_IDLE", "LS_STATE_STARTING", "LS_STATE_READY",
             "LS_STATE_STOPPING", "LS_STATE_DONE", "LS_STATE_FAILED",
             "LS_STATE_UNSUPPORTED"}
Future   == {"NULL", "pending", "done"}
Timer    == {"startup", "shutdown", "recv.startup", "recv.shutdown", "send"}
App == [at   : {"none", "ready", "recv", "send", "return", "typeError",
                "raise", "ended"},
        got  : {"none", "startup", "shutdown"},   \* the latest event
        said : {"none", "complete", "failed", "down"},
        ops  : Nat]

NoApp == [at |-> "none", got |-> "none", said |-> "none", ops |-> 0]

(* Mutant: the future is not asked whether it is done. *)
ls_future_set_result_Unchecked(t, future, call) ==
  IF future # "NULL" THEN Append(t, call) ELSE t

(* ls_future_set_result: nothing to do for a future that is done. *)
ls_future_set_result(t, future, call) ==
  IF future = "pending" THEN Append(t, call) ELSE t

-----------------------------------------------------------------------------
(* Starting.                                                               *)

(* asyncio_init: a new asyncio loop, in which nothing waits. *)
asyncio_init ==
  ul' = "UL_DISABLED" /\ ulq' = 0 /\ timers' = <<>> /\ stopping' = FALSE

(* lifespan_init: no coroutine and no future yet. *)
lifespan_init ==
  /\ ls' = "LS_STATE_IDLE" /\ app' = NoApp
  /\ startup_future' = "NULL" /\ shutdown_future' = "NULL"
  /\ recv_future' = "NULL"

(* init_srv: the sockets listen and SIGINT is watched from here on. *)
init_srv ==
  /\ pc' = "inited" /\ sigint' = "none" /\ served' = 0
  /\ asyncio_init /\ lifespan_init

(* init_server fills in g_srv from the settings of the Python server.  An  *)
(* init that fails leaves g_srv cleared, as it was.                        *)
init_server ==
  /\ pc = "off" /\ runs < MaxRuns
  /\ runs' = runs + 1 /\ cfg' \in Configs
  /\ exit_code' = 0 /\ saved_exit_code' = 0
  /\ init_srv
  /\ UNCHANGED <<raised, twice>>

run_server_wsgi ==
  /\ pc = "inited" /\ ~cfg.asgi
  /\ pc' = "uv_run"
  /\ UNCHANGED <<loopVars, lsVars, srvVars>>

(* Mutant: uni_loop is scheduled whether or not it already is. *)
EnterForever_Again ==
  /\ pc' = "forever" /\ stopping' = FALSE
  /\ ul' = "UL_CALL_LATER" /\ ulq' = ulq + 1

(* aio_loop_run after lifespan_startup: uni_loop is scheduled unless the   *)
(* startup has left it scheduled, and run_forever begins.                  *)
EnterForever ==
  /\ pc' = "forever" /\ stopping' = FALSE
  /\ IF ul = "UL_DISABLED"
     THEN ul' = "UL_CALL_LATER" /\ ulq' = ulq + 1
     ELSE UNCHANGED <<ul, ulq>>

(* run_server with the lifespan switched off. *)
run_server_plain ==
  /\ pc = "inited" /\ cfg.asgi /\ cfg.mode = "off"
  /\ EnterForever
  /\ UNCHANGED <<raised, timers, lsVars, srvVars>>

(* lifespan_startup gets a coroutine from the application, makes it a task *)
(* and schedules uni_loop before it waits.                                 *)
lifespan_startup ==
  /\ pc = "inited" /\ cfg.asgi /\ cfg.mode # "off"
  /\ pc' = "startup"
  /\ ls' = "LS_STATE_STARTING" /\ startup_future' = "pending"
  /\ app' = [NoApp EXCEPT !.at = "ready"]
  /\ ul' = "UL_CALL_LATER" /\ ulq' = ulq + 1
  /\ UNCHANGED <<timers, stopping, raised, shutdown_future, recv_future, twice,
                 srvVars>>

Abort ==
  /\ pc' = "closing" /\ exit_code' = 17 /\ stopping' = FALSE
  /\ UNCHANGED <<ul, ulq, saved_exit_code, sigint, served,
                 runs, cfg>>

Proceed == EnterForever /\ UNCHANGED srvVars

(* lifespan_startup gets no coroutine.  Only a TypeError in auto mode is   *)
(* taken as missing support.                                               *)
NoCoroutine ==
  /\ pc = "inited" /\ cfg.asgi /\ cfg.mode # "off"
  /\ startup_future' = "pending"
  /\ \/ cfg.mode = "auto" /\ ls' = "LS_STATE_UNSUPPORTED" /\ Proceed
     \/ ls' = "LS_STATE_STARTING" /\ IF cfg.fose THEN Abort ELSE Proceed
  /\ UNCHANGED <<raised, timers, shutdown_future, recv_future, app, twice>>

(* Mutant: an application that said nothing counts as started. *)
StartedUp_UnlessFailed == ls # "LS_STATE_FAILED" \/ ~cfg.fose

StartedUp == ls \in {"LS_STATE_READY", "LS_STATE_UNSUPPORTED"} \/ ~cfg.fose

(* Calling Python with an exception set is undefined: a call works, or it  *)
(* is refused.  Here run_forever is refused and close_server follows.      *)
Refused ==
  /\ raised' = TRUE /\ pc' = "closing" /\ stopping' = FALSE
  /\ ul' = IF ul = "UL_DISABLED" THEN "UL_CALL_LATER" ELSE ul
  /\ UNCHANGED <<ulq, srvVars>>

(* run_until_complete returns, or raises because the loop was stopped; the *)
(* outcome is read from the lifespan state either way, and the exception   *)
(* stays set.                                                              *)
StartupOver ==
  /\ pc = "startup" /\ (startup_future = "done" \/ stopping)
  /\ raised' = (startup_future # "done")
  /\ IF StartedUp THEN Proceed \/ Refused ELSE Abort
  /\ UNCHANGED <<timers, lsVars>>

-----------------------------------------------------------------------------
(* The lifespan coroutine: one step up to its next await.                  *)

AppSteps == InLoop /\ app.at = "ready"

(* receive(): a new future, resolved soon when an event is due. *)
lifespan_recv ==
  /\ AppSteps /\ app.ops < MaxOps
  /\ recv_future' = "pending"
  /\ app' = [app EXCEPT !.at = "recv", !.ops = @ + 1]
  /\ timers' = CASE ls = "LS_STATE_STARTING" -> Append(timers, "recv.startup")
                 [] ls = "LS_STATE_STOPPING" -> Append(timers, "recv.shutdown")
                 [] OTHER                    -> timers
  /\ UNCHANGED <<pc, ctlVars, ls, startup_future, shutdown_future,
                 twice, srvVars>>

(* send(event): the state changes, whoever waits is told, and the          *)
(* application goes on when its own future is resolved.                    *)
Send(state, said, t) ==
  /\ AppSteps
  /\ ls' = state
  /\ app' = [app EXCEPT !.at = "send", !.said = said]
  /\ timers' = Append(t, "send")
  /\ UNCHANGED <<pc, ctlVars, startup_future, shutdown_future,
                 recv_future, twice, srvVars>>

StartupComplete ==
  /\ app.got = "startup" /\ app.said = "none"
  /\ Send("LS_STATE_READY", "complete",
          ls_future_set_result(timers, startup_future, "startup"))
StartupFailed ==
  /\ app.got = "startup" /\ app.said = "none"
  /\ Send("LS_STATE_FAILED", "failed",
          ls_future_set_result(timers, startup_future, "startup"))
(* shutdown.complete and shutdown.failed alike. *)
ShutdownSaid ==
  /\ app.got = "shutdown" /\ app.said # "down"
  /\ Send("LS_STATE_DONE", "down",
          ls_future_set_result(timers, shutdown_future, "shutdown"))

(* An event that lifespan_send does not know changes nothing. *)
UnknownSaid ==
  /\ AppSteps /\ app.ops < MaxOps
  /\ app' = [app EXCEPT !.at = "send", !.ops = @ + 1]
  /\ timers' = Append(timers, "send")
  /\ UNCHANGED <<pc, ctlVars, ls, startup_future, shutdown_future,
                 recv_future, twice, srvVars>>

(* The coroutine ends.  One that supports lifespan and has completed the   *)
(* startup returns only after the shutdown event, unless EarlyReturn.      *)
AppEnds ==
  /\ AppSteps
  /\ \E how \in {"return", "typeError", "raise"} :
       /\ how = "return" /\ app.said = "complete" /\ app.got # "shutdown"
            => EarlyReturn
       /\ app' = [app EXCEPT !.at = how]
  /\ UNCHANGED <<pc, loopVars, ls, startup_future, shutdown_future,
                 recv_future, twice, srvVars>>

(* The state lifespan_done leaves. *)
DoneState ==
  CASE app.at = "typeError" ->
         IF cfg.mode = "auto" THEN "LS_STATE_UNSUPPORTED"
                              ELSE "LS_STATE_FAILED"
    [] app.at = "raise" ->
         IF ls = "LS_STATE_STARTING" THEN "LS_STATE_FAILED" ELSE "LS_STATE_DONE"
    [] app.at = "return" ->
         IF ls # "LS_STATE_STARTING" THEN ls
         ELSE IF cfg.mode = "auto" THEN "LS_STATE_UNSUPPORTED"
                               ELSE "LS_STATE_FAILED"

(* Mutant: only the state is brought up to date. *)
lifespan_done_Silent ==
  /\ InLoop /\ app.at \in {"return", "typeError", "raise"}
  /\ ls' = DoneState
  /\ app' = [app EXCEPT !.at = "ended"]
  /\ UNCHANGED <<pc, loopVars, startup_future, shutdown_future, recv_future,
                 twice, srvVars>>

(* Mutant: only the wait for the startup is ended. *)
lifespan_done_StartupOnly ==
  /\ InLoop /\ app.at \in {"return", "typeError", "raise"}
  /\ ls' = DoneState
  /\ app' = [app EXCEPT !.at = "ended"]
  /\ timers' = ls_future_set_result(timers, startup_future, "startup")
  /\ UNCHANGED <<pc, ctlVars, startup_future, shutdown_future,
                 recv_future, twice, srvVars>>

(* The done-callback of the task: whoever still waits is told. *)
lifespan_done ==
  /\ InLoop /\ app.at \in {"return", "typeError", "raise"}
  /\ ls' = DoneState
  /\ app' = [app EXCEPT !.at = "ended"]
  /\ timers' = ls_future_set_result(
                 ls_future_set_result(timers, startup_future, "startup"),
                 shutdown_future, "shutdown")
  /\ UNCHANGED <<pc, ctlVars, startup_future, shutdown_future,
                 recv_future, twice, srvVars>>

-----------------------------------------------------------------------------
(* The asyncio loop.                                                       *)

(* The oldest delayed set_result; a future that is done already refuses.   *)
SetResult ==
  /\ InLoop /\ timers # <<>>
  /\ timers' = Tail(timers)
  /\ LET t == Head(timers)
         target == CASE t = "startup"  -> startup_future
                     [] t = "shutdown" -> shutdown_future
                     [] t = "send"     -> "pending"
                     [] OTHER          -> recv_future
     IN IF target # "pending"
        THEN /\ twice' = TRUE
             /\ UNCHANGED <<startup_future, shutdown_future, recv_future, app>>
        ELSE /\ startup_future' = IF t = "startup" THEN "done"
                                                   ELSE startup_future
             /\ shutdown_future' = IF t = "shutdown" THEN "done"
                                                     ELSE shutdown_future
             /\ recv_future' = IF t \in {"recv.startup", "recv.shutdown"}
                               THEN "done" ELSE recv_future
             /\ app' = CASE t = "recv.startup" ->
                               [app EXCEPT !.at = "ready", !.got = "startup"]
                         [] t = "recv.shutdown" ->
                               [app EXCEPT !.at = "ready", !.got = "shutdown"]
                         [] t = "send" -> [app EXCEPT !.at = "ready"]
                         [] OTHER -> app
             /\ UNCHANGED twice
  /\ UNCHANGED <<pc, ctlVars, ls, srvVars>>

(* libuv runs: HTTP requests may be read, and a Ctrl-C is delivered.       *)
(* close_server has stopped the signal handle before the shutdown phase.   *)
Requests == served' \in {served, served + 1} /\ served' <= MaxServed
signal_handler ==
  /\ cfg.hook_sigint = 1 /\ sigint = "pending"
  /\ pc \in {"uv_run", "startup", "forever"}
  /\ sigint' = "taken" /\ exit_code' = 1

(* A call of uni_loop that does not end the asyncio loop: libuv runs and   *)
(* uni_loop is scheduled again, unless it has been switched off.           *)
RunLibuv ==
  /\ IF ul = "UL_DISABLED"
     THEN ulq' = ulq - 1 /\ UNCHANGED <<ul, exit_code, sigint, served>>
     ELSE /\ Requests
          /\ IF sigint = "pending" /\ pc # "shutdown"
             THEN signal_handler ELSE UNCHANGED <<exit_code, sigint>>
          /\ ul' \in {"UL_CALL_SOON", "UL_CALL_LATER"}
          /\ UNCHANGED ulq
  /\ UNCHANGED stopping

StopLoop ==
  /\ ul' = "UL_DISABLED" /\ ulq' = ulq - 1 /\ stopping' = TRUE
  /\ UNCHANGED <<exit_code, sigint, served>>

(* uni_loop stops the asyncio loop once exit_code is set. *)
uni_loop ==
  /\ InLoop /\ ulq > 0
  /\ IF exit_code # 0 THEN StopLoop ELSE RunLibuv
  /\ UNCHANGED <<pc, raised, timers, lsVars, saved_exit_code, runs, cfg>>

(* run_forever returns, or raises if it was not uni_loop that stopped it. *)
ForeverOver ==
  /\ pc = "forever" /\ stopping
  /\ pc' = "closing" /\ stopping' = FALSE
  /\ raised' = (exit_code = 0)
  /\ UNCHANGED <<ul, ulq, timers, lsVars, srvVars>>

(* uv_run of a WSGI server, until signal_handler stops it. *)
uv_run ==
  /\ pc = "uv_run"
  /\ \/ /\ signal_handler /\ pc' = "closing"
        /\ UNCHANGED served
     \/ /\ Requests /\ UNCHANGED <<pc, exit_code, sigint>>
  /\ UNCHANGED <<loopVars, lsVars, saved_exit_code, runs, cfg>>

-----------------------------------------------------------------------------
(* Ctrl-C.                                                                 *)

(* The kernel hands SIGINT to libuv's handler. *)
Sigint ==
  /\ cfg.hook_sigint > 0 /\ sigint = "none"
  /\ pc \in {"inited", "uv_run", "startup", "forever"}
  /\ sigint' = "pending"
  /\ UNCHANGED <<pc, loopVars, lsVars, exit_code, saved_exit_code, served,
                 runs, cfg>>

(* hook_sigint = 2: signal_handler ends the process. *)
Halt ==
  /\ cfg.hook_sigint = 2 /\ sigint = "pending"
  /\ pc \in {"uv_run", "startup", "forever"}
  /\ pc' = "halted"
  /\ UNCHANGED <<loopVars, lsVars, srvVars>>

(* Without a handler of its own the server leaves SIGINT to Python, which  *)
(* raises KeyboardInterrupt in the Python code of the asyncio loop.        *)
KeyboardInterrupt ==
  /\ cfg.hook_sigint = 0 /\ sigint = "none" /\ InLoop
  /\ sigint' = "taken" /\ stopping' = TRUE
  /\ UNCHANGED <<pc, ul, ulq, raised, timers, lsVars, exit_code,
                 saved_exit_code, served, runs, cfg>>

-----------------------------------------------------------------------------
(* Closing.                                                                *)

(* Mutant: only an application that waits in receive() is shut down. *)
ShutdownDue_IfWaiting ==
  /\ cfg.asgi /\ cfg.mode # "off" /\ ls = "LS_STATE_READY"
  /\ recv_future = "pending"

(* Is there an application that lifespan_shutdown tells? *)
ShutdownDue == cfg.asgi /\ cfg.mode # "off" /\ ls = "LS_STATE_READY"

(* Mutant: exit_code is saved and not cleared. *)
PutAside_NotCleared == saved_exit_code' = exit_code /\ UNCHANGED exit_code

PutAside == saved_exit_code' = exit_code /\ exit_code' = 0

PutBack == exit_code' = IF exit_code = 0 THEN saved_exit_code ELSE exit_code

(* close_server, which for ASGI calls aio_loop_shutdown: uni_loop is       *)
(* switched off, and switched on again for the wait for the application.   *)
(* exit_code is put aside, lest uni_loop stop the loop.                    *)
lifespan_shutdown ==
  /\ pc = "closing" /\ ShutdownDue
  /\ pc' = "shutdown" /\ ls' = "LS_STATE_STOPPING"
  /\ shutdown_future' = "pending"
  /\ timers' = ls_future_set_result(timers, recv_future, "recv.shutdown")
  /\ PutAside
  /\ ul' = "UL_CALL_LATER" /\ ulq' = ulq + 1
  /\ UNCHANGED <<stopping, raised, startup_future, recv_future, app, twice,
                 sigint, served, runs, cfg>>

(* With an exception set the future may not be created: nobody is told. *)
lifespan_shutdown_refused ==
  /\ pc = "closing" /\ ShutdownDue /\ raised
  /\ pc' = "draining" /\ ls' = "LS_STATE_STOPPING" /\ ul' = "UL_DISABLED"
  /\ UNCHANGED <<ulq, stopping, raised, timers, startup_future,
                 shutdown_future, recv_future, app, twice, srvVars>>

NothingToShutDown ==
  /\ pc = "closing" /\ ~ShutdownDue
  /\ pc' = "draining" /\ ul' = "UL_DISABLED"
  /\ UNCHANGED <<ulq, stopping, raised, timers, lsVars, srvVars>>

(* The application has answered, or has ended. *)
ShutdownOver ==
  /\ pc = "shutdown" /\ (shutdown_future = "done" \/ stopping)
  /\ pc' = "draining"
  /\ PutBack
  /\ ul' = "UL_DISABLED" /\ stopping' = FALSE
  /\ UNCHANGED <<ulq, raised, timers, lsVars, saved_exit_code, sigint, served,
                 runs, cfg>>

(* asyncio_free and lifespan_free drop the loop and every future. *)
asyncio_free ==
  ul' = "UL_DISABLED" /\ ulq' = 0 /\ timers' = <<>> /\ stopping' = FALSE
lifespan_free ==
  /\ ls' = "LS_STATE_IDLE" /\ app' = NoApp
  /\ startup_future' = "NULL" /\ shutdown_future' = "NULL"
  /\ recv_future' = "NULL"

(* The rest of close_server: libuv runs a last time and g_srv is zeroed. *)
close_server ==
  /\ pc' = "off" /\ exit_code' = 0 /\ Requests
  /\ asyncio_free /\ lifespan_free

(* The end of run_server.  What it returns is what is left of exit_code. *)
run_server ==
  /\ pc = "draining" /\ close_server
  /\ raised' = FALSE
  /\ UNCHANGED <<twice, saved_exit_code, sigint, runs, cfg>>

(* The bound on the runs is reached, or the process is gone. *)
Terminated ==
  /\ \/ pc = "halted"
     \/ pc = "off" /\ runs = MaxRuns
  /\ UNCHANGED vars

-----------------------------------------------------------------------------
Init ==
  /\ pc = "off" /\ runs = 0 /\ cfg \in Configs
  /\ exit_code = 0 /\ saved_exit_code = 0 /\ sigint = "none" /\ served = 0
  /\ ul = "UL_DISABLED" /\ ulq = 0 /\ timers = <<>>
  /\ stopping = FALSE /\ raised = FALSE
  /\ ls = "LS_STATE_IDLE" /\ app = NoApp /\ twice = FALSE
  /\ startup_future = "NULL" /\ shutdown_future = "NULL"
  /\ recv_future = "NULL"

AppStep == \/ lifespan_recv \/ StartupComplete \/ StartupFailed
           \/ ShutdownSaid \/ UnknownSaid \/ AppEnds

Starts == \/ init_server \/ run_server_wsgi \/ run_server_plain
          \/ lifespan_startup \/ NoCoroutine \/ StartupOver
Closes == \/ ForeverOver \/ lifespan_shutdown \/ lifespan_shutdown_refused
          \/ NothingToShutDown \/ ShutdownOver \/ run_server

Next ==
  \/ Starts \/ Closes \/ AppStep
  \/ lifespan_done \/ SetResult \/ uni_loop \/ uv_run
  \/ Sigint \/ Halt \/ KeyboardInterrupt
  \/ Terminated

Spec == Init /\ [][Next]_vars

(* asyncio serves its queues in order, so a callback that waits is called; *)
(* the C code between two loops runs to the next one; the application      *)
(* takes its next step.  Nothing makes Ctrl-C or a request happen.         *)
Fairness ==
  /\ WF_vars(StartupOver) /\ WF_vars(Closes)
  /\ WF_vars(uni_loop) /\ WF_vars(SetResult) /\ WF_vars(lifespan_done)
  /\ WF_vars(AppStep)
  /\ WF_vars(uv_run /\ pc' # pc)

FairSpec == Spec /\ Fairness

-----------------------------------------------------------------------------
(* Properties.                                                             *)

(* The type invariant.  uni_loop never waits more than twice. *)
TypeOK ==
  /\ cfg \in Configs /\ pc \in Phase /\ exit_code \in {0, 1, 17}
  /\ saved_exit_code \in {0, 1, 17}
  /\ ul \in UniLoop /\ ulq \in 0 .. 2 /\ ls \in Lifespan
  /\ {startup_future, shutdown_future, recv_future} \subseteq Future
  /\ timers \in Seq(Timer) /\ app \in App
  /\ {stopping, raised, twice} \subseteq BOOLEAN
  /\ sigint \in {"none", "pending", "taken"} /\ served \in 0 .. MaxServed
  /\ runs \in 0 .. MaxRuns

(* While the asyncio loop runs, libuv runs inside it through exactly one   *)
(* scheduled call of uni_loop: with none the sockets are deaf and Ctrl-C   *)
(* is lost, with two libuv is polled twice for ever.  lifespan_startup,    *)
(* aio_loop_run and lifespan_shutdown all schedule it.                     *)
UniLoopScheduledOnce ==
  cfg.hook_sigint > 0 /\ InLoop /\ ~stopping => ulq = 1 /\ ul # "UL_DISABLED"

(* Of the applications that are still there when close_server goes on, all *)
(* that have completed their startup have got the shutdown event, whatever *)
(* they were doing when the server closed; and no other application gets   *)
(* it, whichever receive() it was in.  An exception left by an interrupted *)
(* startup is the exception: close_server may then fail to tell it.        *)
CompletedAppsAreShutDown ==
  /\ pc = "draining" /\ app.said = "complete" /\ app.at # "ended" /\ ~raised
       => app.got = "shutdown"
  /\ app.got = "shutdown" => app.said \in {"complete", "down"}

(* The wait for the shutdown is not cut short by the exit_code that made   *)
(* the server close: it ends when the application has answered or ended.   *)
ShutdownIsWaitedFor ==
  [][pc = "shutdown" /\ pc' = "draining"
       => app.said = "down" \/ app.at = "ended"]_vars

(* With fail_on_startup_error the server runs on only behind an            *)
(* application that completed its startup, or does not support lifespan    *)
(* in auto mode.  (run_server of server.c; the sockets are another         *)
(* matter, see NoRequestBeforeStartup.)                                    *)
FailedStartupAborts ==
  cfg.fose /\ pc = "forever" /\ cfg.mode # "off"
    => \/ app.said \in {"complete", "down"}
       \/ cfg.mode = "auto" /\ ls = "LS_STATE_UNSUPPORTED"

(* No asyncio future is resolved twice: set_result is only called later,   *)
(* when the answer of done() may be out of date.                           *)
FuturesResolveOnce == ~twice

(* The wait for the startup ends whatever the application does: answers,   *)
(* fails, raises or returns without a word.                                *)
StartupEnds == pc = "startup" ~> pc # "startup"

(* The server closes, the application has completed its startup, and its   *)
(* coroutine is gone: lifespan_done has run, so lifespan_shutdown will     *)
(* wait for an answer that nobody is left to give.  One that returns or    *)
(* raises later, during that wait or after the shutdown event, is not      *)
(* meant: lifespan_done resolves shutdown_future for it.                   *)
GoneBeforeShutdown ==
  pc = "closing" /\ ShutdownDue /\ app.at = "ended"

(* With hook_sigint = 1 Ctrl-C makes run_server return, through all the    *)
(* loops it was in, whatever the application does until then and during    *)
(* the shutdown, unless its coroutine was gone when the server closed.     *)
SigintEndsRunOfStayers ==
  sigint = "taken" /\ cfg.hook_sigint = 1 /\ pc \in {"uv_run", "startup", "forever"}
    ~> pc = "off" \/ GoneBeforeShutdown

-----------------------------------------------------------------------------
(* What the comments of the code say, and the code does not do.            *)

(* "startup done, HTTP can proceed" (lifespan.h): no request is read while *)
(* the application is starting.  init_srv listens before, and uni_loop     *)
(* runs libuv during the wait for the startup.                             *)
NoRequestBeforeStartup ==
  [][served' # served /\ cfg.asgi => ls # "LS_STATE_STARTING"]_vars

(* "stop server on Ctrl-C" (fastpysgi.py): after Ctrl-C run_server         *)
(* returns, also when the coroutine of the application is gone already.    *)
SigintEndsRun == sigint = "taken" ~> pc = "off"
=============================================================================
