------------------------- MODULE AsgiLifecycleProofs -------------------------
(***************************************************************************)
(* TLAPS proofs about AsgiLifecycle, for any settings, any number of runs, *)
(* requests and calls of the application.                                  *)
(*                                                                         *)
(* The inductive invariant has four parts beside the types.  Queue says    *)
(* which delayed set_result calls can wait, by where the coroutine is:     *)
(* never more than two, and those of a future before that of a send.       *)
(* Futures relates them to the futures they resolve, Protocol the state of *)
(* lifespan.c to what the application has heard and said, and Scheduled    *)
(* counts the waiting calls of uni_loop in each of the nested loops.       *)
(***************************************************************************)
EXTENDS AsgiLifecycle, SequenceTheorems, TLAPS

(* TypeOK without the queue and the flags. *)
Types ==
  /\ cfg \in Configs /\ pc \in Phase
  /\ exit_code \in {0, 1, 17} /\ saved_exit_code \in {0, 1, 17}
  /\ ul \in UniLoop /\ ulq \in 0 .. 2 /\ ls \in Lifespan
  /\ startup_future \in Future /\ shutdown_future \in Future
  /\ recv_future \in Future /\ app \in App
  /\ sigint \in {"none", "pending", "taken"}
  /\ served \in 0 .. MaxServed /\ runs \in 0 .. MaxRuns

Flags == stopping \in BOOLEAN /\ raised \in BOOLEAN /\ twice \in BOOLEAN

StartupQueued  == timers \in {<<"startup">>, <<"startup", "send">>}
ShutdownQueued == timers \in {<<"shutdown">>, <<"shutdown", "send">>}

(* What waits in the asyncio loop, by where the coroutine is. *)
Queue ==
  /\ app.at \in {"none", "ready", "return", "typeError", "raise"}
       => timers = <<>>
  /\ app.at = "recv"
       => timers \in {<<>>, <<"recv.startup">>, <<"recv.shutdown">>}
  /\ app.at = "send"
       => timers \in {<<"send">>, <<"startup", "send">>, <<"shutdown", "send">>}
  /\ app.at = "ended" => timers \in {<<>>, <<"startup">>, <<"shutdown">>}

(* A set_result call waits only for a future that is still pending, and a  *)
(* future is resolved, or about to be, only when its owner has spoken.     *)
Futures ==
  /\ recv_future = "pending" <=> app.at = "recv"
  /\ StartupQueued => startup_future = "pending"
  /\ ShutdownQueued => shutdown_future = "pending"
  /\ app.said # "none" /\ ~StartupQueued => startup_future # "pending"
  /\ shutdown_future # "NULL"
       => pc \in {"shutdown", "draining"} /\ app.said # "none"
  /\ shutdown_future = "done" \/ ShutdownQueued
       => app.said = "down" \/ app.at = "ended"
  /\ timers = <<"recv.startup">> => ls = "LS_STATE_STARTING"
  /\ timers = <<"recv.shutdown">>
       => app.said \in {"complete", "down"} /\ pc \in {"shutdown", "draining"}
  /\ ~twice

(* lifespan.state and what the application has got and said. *)
Protocol ==
  /\ ls \in {"LS_STATE_READY", "LS_STATE_STOPPING"} => app.said = "complete"
  /\ ls = "LS_STATE_STOPPING" => pc \in {"shutdown", "draining"}
  /\ ls = "LS_STATE_UNSUPPORTED"
       => cfg.mode = "auto" /\ app.at \in {"none", "ended"}
  /\ app.said = "complete" /\ app.at # "ended"
       /\ pc \in {"startup", "forever", "closing"} => ls = "LS_STATE_READY"
  /\ app.got = "shutdown" => app.said \in {"complete", "down"}
  /\ app.at # "none" => cfg.asgi /\ cfg.mode # "off"
  /\ app.at = "none" => app.said = "none"
  /\ pc \in {"off", "inited", "uv_run"}
       => app.at = "none" /\ startup_future = "NULL" /\ ls = "LS_STATE_IDLE"
  /\ CompletedAppsAreShutDown
  /\ FailedStartupAborts

(* How often uni_loop waits, and why the asyncio loop may have been told   *)
(* to stop.  Only a KeyboardInterrupt (hook_sigint = 0) leaves uni_loop    *)
(* scheduled behind a loop that stops, and it happens once.                *)
Scheduled ==
  /\ pc \in {"off", "inited", "uv_run"}
       => ulq = 0 /\ ul = "UL_DISABLED" /\ ~stopping
  /\ pc \in {"startup", "forever"}
       => IF ul = "UL_DISABLED" THEN ulq = 0 /\ stopping ELSE ulq = 1
  /\ pc \in {"startup", "forever"} /\ stopping /\ cfg.hook_sigint > 0
       => ul = "UL_DISABLED"
  /\ pc = "closing"
       => /\ ulq \in 0 .. 1 /\ ~stopping
          /\ ls = "LS_STATE_READY" /\ cfg.hook_sigint > 0 => ulq = 0
  /\ pc = "shutdown"
       => /\ exit_code = 0 /\ ~stopping /\ ul # "UL_DISABLED"
          /\ ulq \in 1 .. 2 /\ (cfg.hook_sigint > 0 => ulq = 1)
  /\ cfg.hook_sigint = 0
       => /\ pc \in {"inited", "startup", "forever"} => exit_code = 0
          /\ pc \in {"startup", "forever"} /\ stopping => sigint = "taken"
          /\ pc = "closing" /\ ls = "LS_STATE_READY" => sigint = "taken"
          /\ pc = "shutdown" => sigint = "taken"

IInv == Types /\ Flags /\ Queue /\ Futures /\ Protocol /\ Scheduled

-----------------------------------------------------------------------------
(* Sequences of one and of two calls. *)

(* A second call queued behind a first. *)
LEMMA AppendTwo ==
  ASSUME NEW S, NEW x \in S, NEW y \in S
  PROVE  Append(<<x>>, y) = <<x, y>>
<1>1. <<x>> \in Seq(S) /\ <<x, y>> \in Seq(S)
  OBVIOUS
<1>2. Append(<<x>>, y) \in Seq(S) /\ Len(Append(<<x>>, y)) = 2
  BY <1>1
<1>3. Append(<<x>>, y)[1] = x /\ Append(<<x>>, y)[2] = y
  BY <1>1
<1>4. Len(<<x, y>>) = 2 /\ <<x, y>>[1] = x /\ <<x, y>>[2] = y
  OBVIOUS
<1>5. \A i \in 1 .. 2 : i = 1 \/ i = 2
  OBVIOUS
<1> QED
  BY <1>1, <1>2, <1>3, <1>4, <1>5, SeqEqual

(* What ls_future_set_result leaves of an empty queue, before a send too. *)
LEMMA SetResultQueued ==
  ASSUME NEW future, NEW call \in Timer
  PROVE  /\ ls_future_set_result(<<>>, future, call)
                = IF future = "pending" THEN <<call>> ELSE <<>>
         /\ Append(ls_future_set_result(<<>>, future, call), "send")
                = IF future = "pending" THEN <<call, "send">> ELSE <<"send">>
<1>1. Append(<<>>, call) = <<call>> /\ Append(<<>>, "send") = <<"send">>
  OBVIOUS
<1>2. "send" \in Timer
  BY DEF Timer
<1>3. Append(<<call>>, "send") = <<call, "send">>
  BY <1>2, AppendTwo
<1> QED
  BY <1>1, <1>3 DEF ls_future_set_result

(* Every shape of the queue is a sequence of the calls TypeOK names. *)
LEMMA QueueTyped == ASSUME Types, Queue PROVE timers \in Seq(Timer)
<1> app.at \in {"none", "ready", "recv", "send", "return", "typeError",
                "raise", "ended"}
  BY DEF Types, App
<1>1. timers \in {<<>>, <<"send">>, <<"startup", "send">>, <<"shutdown", "send">>,
                  <<"recv.startup">>, <<"recv.shutdown">>, <<"startup">>,
                  <<"shutdown">>}
  BY DEF Queue
<1>2. \A x, y \in Timer : <<>> \in Seq(Timer) /\ <<x>> \in Seq(Timer)
                           /\ <<x, y>> \in Seq(Timer)
  OBVIOUS
<1>3. {"startup", "shutdown", "recv.startup", "recv.shutdown", "send"}
        \subseteq Timer
  BY DEF Timer
<1> QED
  BY <1>1, <1>2, <1>3

-----------------------------------------------------------------------------
(* Actions that leave the queue alone, or drop it. *)

(* init_server: the server listens and exit_code starts at 0. *)
LEMMA Keeps_init_server == ASSUME IInv, init_server PROVE IInv'
<1>1. Types'
  BY LifecycleAssumption DEF IInv, Types, Scheduled, Phase, UniLoop, Lifespan,
     Future, App, NoApp, Settings, init_server, init_srv, asyncio_init,
     lifespan_init, loopVars, ctlVars, lsVars, srvVars
<1>2. Flags'
  BY DEF IInv, Flags, init_server, init_srv, asyncio_init, lifespan_init,
     loopVars, ctlVars, lsVars, srvVars
<1>3. Queue' /\ Futures' /\ Protocol'
  BY LifecycleAssumption DEF IInv, Types, Queue, Futures, Protocol, Scheduled,
     NoApp, App, Settings, Phase, StartupQueued, ShutdownQueued,
     CompletedAppsAreShutDown, FailedStartupAborts, init_server, init_srv,
     asyncio_init, lifespan_init, loopVars, ctlVars, lsVars, srvVars
<1>4. Scheduled'
  BY LifecycleAssumption DEF IInv, Types, Queue, Futures, Protocol, Scheduled,
     UniLoop, Settings, init_server, init_srv, asyncio_init, lifespan_init,
     loopVars, ctlVars, lsVars, srvVars
<1> QED
  BY <1>1, <1>2, <1>3, <1>4 DEF IInv

(* run_server with a WSGI application enters uv_run. *)
LEMMA Keeps_run_server_wsgi == ASSUME IInv, run_server_wsgi PROVE IInv'
<1>1. Types'
  BY LifecycleAssumption DEF IInv, Types, Scheduled, Phase, UniLoop, Lifespan,
     Future, App, NoApp, Settings, run_server_wsgi, loopVars, ctlVars,
     lsVars, srvVars
<1>2. Flags'
  BY DEF IInv, Flags, run_server_wsgi, loopVars, ctlVars, lsVars, srvVars
<1>3. Queue' /\ Futures' /\ Protocol'
  BY LifecycleAssumption DEF IInv, Types, Queue, Futures, Protocol, Scheduled,
     NoApp, App, Settings, Phase, StartupQueued, ShutdownQueued,
     CompletedAppsAreShutDown, FailedStartupAborts, run_server_wsgi,
     loopVars, ctlVars, lsVars, srvVars
<1>4. Scheduled'
  BY LifecycleAssumption DEF IInv, Types, Queue, Futures, Protocol, Scheduled,
     UniLoop, Settings, run_server_wsgi, loopVars, ctlVars, lsVars, srvVars
<1> QED
  BY <1>1, <1>2, <1>3, <1>4 DEF IInv

(* run_server with an ASGI application and lifespan off. *)
LEMMA Keeps_run_server_plain == ASSUME IInv, run_server_plain PROVE IInv'
<1>1. Types'
  BY LifecycleAssumption DEF IInv, Types, Scheduled, Phase, UniLoop, Lifespan,
     Future, App, NoApp, Settings, run_server_plain, EnterForever, loopVars,
     ctlVars, lsVars, srvVars
<1>2. Flags'
  BY DEF IInv, Flags, run_server_plain, EnterForever, loopVars, ctlVars,
     lsVars, srvVars
<1>3. Queue' /\ Futures' /\ Protocol'
  BY LifecycleAssumption DEF IInv, Types, Queue, Futures, Protocol, Scheduled,
     NoApp, App, Settings, Phase, StartupQueued, ShutdownQueued,
     CompletedAppsAreShutDown, FailedStartupAborts, run_server_plain,
     EnterForever, loopVars, ctlVars, lsVars, srvVars
<1>4. Scheduled'
  BY LifecycleAssumption DEF IInv, Types, Queue, Futures, Protocol, Scheduled,
     UniLoop, Settings, run_server_plain, EnterForever, loopVars, ctlVars,
     lsVars, srvVars
<1> QED
  BY <1>1, <1>2, <1>3, <1>4 DEF IInv

(* lifespan_startup makes the task and waits for startup_future. *)
LEMMA Keeps_lifespan_startup == ASSUME IInv, lifespan_startup PROVE IInv'
<1>1. Types'
  BY LifecycleAssumption DEF IInv, Types, Scheduled, Phase, UniLoop, Lifespan,
     Future, App, NoApp, Settings, lifespan_startup, loopVars, ctlVars,
     lsVars, srvVars
<1>2. Flags'
  BY DEF IInv, Flags, lifespan_startup, loopVars, ctlVars, lsVars, srvVars
<1>3. Queue' /\ Futures' /\ Protocol'
  BY LifecycleAssumption DEF IInv, Types, Queue, Futures, Protocol, Scheduled,
     NoApp, App, Settings, Phase, StartupQueued, ShutdownQueued,
     CompletedAppsAreShutDown, FailedStartupAborts, lifespan_startup,
     loopVars, ctlVars, lsVars, srvVars
<1>4. Scheduled'
  BY LifecycleAssumption DEF IInv, Types, Queue, Futures, Protocol, Scheduled,
     UniLoop, Settings, lifespan_startup, loopVars, ctlVars, lsVars, srvVars
<1> QED
  BY <1>1, <1>2, <1>3, <1>4 DEF IInv

(* lifespan_startup when the application returns no coroutine. *)
LEMMA Keeps_NoCoroutine == ASSUME IInv, NoCoroutine PROVE IInv'
<1>1. Types'
  BY LifecycleAssumption DEF IInv, Types, Scheduled, Phase, UniLoop, Lifespan,
     Future, App, NoApp, Settings, NoCoroutine, Proceed, Abort, EnterForever,
     loopVars, ctlVars, lsVars, srvVars
<1>2. Flags'
  BY DEF IInv, Flags, NoCoroutine, Proceed, Abort, EnterForever, loopVars,
     ctlVars, lsVars, srvVars
<1>3. Queue' /\ Futures' /\ Protocol'
  BY LifecycleAssumption DEF IInv, Types, Queue, Futures, Protocol, Scheduled,
     NoApp, App, Settings, Phase, StartupQueued, ShutdownQueued,
     CompletedAppsAreShutDown, FailedStartupAborts, NoCoroutine, Proceed,
     Abort, EnterForever, loopVars, ctlVars, lsVars, srvVars
<1>4. Scheduled'
  BY LifecycleAssumption DEF IInv, Types, Queue, Futures, Protocol, Scheduled,
     UniLoop, Settings, NoCoroutine, Proceed, Abort, EnterForever, loopVars,
     ctlVars, lsVars, srvVars
<1> QED
  BY <1>1, <1>2, <1>3, <1>4 DEF IInv

(* run_until_complete of the startup returns. *)
LEMMA Keeps_StartupOver == ASSUME IInv, StartupOver PROVE IInv'
<1>1. Types'
  BY LifecycleAssumption DEF IInv, Types, Scheduled, Phase, UniLoop, Lifespan,
     Future, App, NoApp, Settings, StartupOver, StartedUp, Proceed, Refused,
     Abort, EnterForever, loopVars, ctlVars, lsVars, srvVars
<1>2. Flags'
  BY DEF IInv, Flags, StartupOver, StartedUp, Proceed, Refused, Abort,
     EnterForever, loopVars, ctlVars, lsVars, srvVars
<1>3. Queue' /\ Futures' /\ Protocol'
  BY LifecycleAssumption DEF IInv, Types, Queue, Futures, Protocol, Scheduled,
     NoApp, App, Settings, Phase, StartupQueued, ShutdownQueued,
     CompletedAppsAreShutDown, FailedStartupAborts, StartupOver, StartedUp,
     Proceed, Refused, Abort, EnterForever, loopVars, ctlVars, lsVars, srvVars
<1>4. Scheduled'
  <2>1. /\ pc = "startup" /\ (startup_future = "done" \/ stopping)
        /\ raised' = (startup_future # "done") /\ UNCHANGED ls
    BY DEF StartupOver, lsVars
  <2>2. CASE Proceed
    BY <2>1, <2>2 DEF IInv, Types, Scheduled, UniLoop, Proceed, EnterForever,
       loopVars, ctlVars, lsVars, srvVars
  <2>3. CASE Refused
    <3>1. startup_future # "done" /\ stopping
      BY <2>1, <2>3 DEF Refused
    <3> QED
      BY <2>1, <2>3, <3>1, LifecycleAssumption
      DEF IInv, Types, Scheduled, UniLoop, Settings, Refused, loopVars,
          ctlVars, lsVars, srvVars
  <2>4. CASE Abort /\ ~StartedUp
    BY <2>1, <2>4 DEF IInv, Types, Scheduled, StartedUp, Abort, loopVars,
       ctlVars, lsVars, srvVars
  <2> QED
    BY <2>2, <2>3, <2>4 DEF StartupOver
<1> QED
  BY <1>1, <1>2, <1>3, <1>4 DEF IInv

(* run_forever returns, by Ctrl-C or because uni_loop has stopped it. *)
LEMMA Keeps_ForeverOver == ASSUME IInv, ForeverOver PROVE IInv'
<1>1. Types'
  BY LifecycleAssumption DEF IInv, Types, Scheduled, Phase, UniLoop, Lifespan,
     Future, App, NoApp, Settings, ForeverOver, loopVars, ctlVars, lsVars,
     srvVars
<1>2. Flags'
  BY DEF IInv, Flags, ForeverOver, loopVars, ctlVars, lsVars, srvVars
<1>3. Queue' /\ Futures' /\ Protocol'
  BY LifecycleAssumption DEF IInv, Types, Queue, Futures, Protocol, Scheduled,
     NoApp, App, Settings, Phase, StartupQueued, ShutdownQueued,
     CompletedAppsAreShutDown, FailedStartupAborts, ForeverOver, loopVars,
     ctlVars, lsVars, srvVars
<1>4. Scheduled'
  BY LifecycleAssumption DEF IInv, Types, Queue, Futures, Protocol, Scheduled,
     UniLoop, Settings, ForeverOver, loopVars, ctlVars, lsVars, srvVars
<1> QED
  BY <1>1, <1>2, <1>3, <1>4 DEF IInv

(* lifespan_shutdown when CPython refuses the calls because an exception   *)
(* is set.                                                                 *)
LEMMA Keeps_lifespan_shutdown_refused == ASSUME IInv, lifespan_shutdown_refused PROVE IInv'
<1>1. Types'
  BY LifecycleAssumption DEF IInv, Types, Scheduled, Phase, UniLoop, Lifespan,
     Future, App, NoApp, Settings, lifespan_shutdown_refused, ShutdownDue,
     loopVars, ctlVars, lsVars, srvVars
<1>2. Flags'
  BY DEF IInv, Flags, lifespan_shutdown_refused, ShutdownDue, loopVars,
     ctlVars, lsVars, srvVars
<1>3. Queue' /\ Futures' /\ Protocol'
  BY LifecycleAssumption DEF IInv, Types, Queue, Futures, Protocol, Scheduled,
     NoApp, App, Settings, Phase, StartupQueued, ShutdownQueued,
     CompletedAppsAreShutDown, FailedStartupAborts,
     lifespan_shutdown_refused, ShutdownDue, loopVars, ctlVars, lsVars,
     srvVars
<1>4. Scheduled'
  BY LifecycleAssumption DEF IInv, Types, Queue, Futures, Protocol, Scheduled,
     UniLoop, Settings, lifespan_shutdown_refused, ShutdownDue, loopVars,
     ctlVars, lsVars, srvVars
<1> QED
  BY <1>1, <1>2, <1>3, <1>4 DEF IInv

(* lifespan_shutdown when the lifespan protocol is not in use or over. *)
LEMMA Keeps_NothingToShutDown == ASSUME IInv, NothingToShutDown PROVE IInv'
<1>1. Types'
  BY LifecycleAssumption DEF IInv, Types, Scheduled, Phase, UniLoop, Lifespan,
     Future, App, NoApp, Settings, NothingToShutDown, ShutdownDue, loopVars,
     ctlVars, lsVars, srvVars
<1>2. Flags'
  BY DEF IInv, Flags, NothingToShutDown, ShutdownDue, loopVars, ctlVars,
     lsVars, srvVars
<1>3. Queue' /\ Futures' /\ Protocol'
  BY LifecycleAssumption DEF IInv, Types, Queue, Futures, Protocol, Scheduled,
     NoApp, App, Settings, Phase, StartupQueued, ShutdownQueued,
     CompletedAppsAreShutDown, FailedStartupAborts, NothingToShutDown,
     ShutdownDue, loopVars, ctlVars, lsVars, srvVars
<1>4. Scheduled'
  BY LifecycleAssumption DEF IInv, Types, Queue, Futures, Protocol, Scheduled,
     UniLoop, Settings, NothingToShutDown, ShutdownDue, loopVars, ctlVars,
     lsVars, srvVars
<1> QED
  BY <1>1, <1>2, <1>3, <1>4 DEF IInv

(* run_until_complete of the shutdown returns. *)
LEMMA Keeps_ShutdownOver == ASSUME IInv, ShutdownOver PROVE IInv'
<1>1. Types'
  BY LifecycleAssumption DEF IInv, Types, Scheduled, Phase, UniLoop, Lifespan,
     Future, App, NoApp, Settings, ShutdownOver, PutBack, loopVars, ctlVars,
     lsVars, srvVars
<1>2. Flags'
  BY DEF IInv, Flags, ShutdownOver, PutBack, loopVars, ctlVars, lsVars, srvVars
<1>3. Queue' /\ Futures' /\ Protocol'
  BY LifecycleAssumption DEF IInv, Types, Queue, Futures, Protocol, Scheduled,
     NoApp, App, Settings, Phase, StartupQueued, ShutdownQueued,
     CompletedAppsAreShutDown, FailedStartupAborts, ShutdownOver, PutBack,
     loopVars, ctlVars, lsVars, srvVars
<1>4. Scheduled'
  BY LifecycleAssumption DEF IInv, Types, Queue, Futures, Protocol, Scheduled,
     UniLoop, Settings, ShutdownOver, PutBack, loopVars, ctlVars, lsVars,
     srvVars
<1> QED
  BY <1>1, <1>2, <1>3, <1>4 DEF IInv

(* run_server closes its handles and returns. *)
LEMMA Keeps_run_server == ASSUME IInv, run_server PROVE IInv'
<1>1. Types'
  BY LifecycleAssumption DEF IInv, Types, Scheduled, Phase, UniLoop, Lifespan,
     Future, App, NoApp, Settings, run_server, close_server, Requests,
     asyncio_free, lifespan_free, loopVars, ctlVars, lsVars, srvVars
<1>2. Flags'
  BY DEF IInv, Flags, run_server, close_server, Requests, asyncio_free,
     lifespan_free, loopVars, ctlVars, lsVars, srvVars
<1>3. Queue' /\ Futures' /\ Protocol'
  BY LifecycleAssumption DEF IInv, Types, Queue, Futures, Protocol, Scheduled,
     NoApp, App, Settings, Phase, StartupQueued, ShutdownQueued,
     CompletedAppsAreShutDown, FailedStartupAborts, run_server, close_server,
     Requests, asyncio_free, lifespan_free, loopVars, ctlVars, lsVars, srvVars
<1>4. Scheduled'
  BY LifecycleAssumption DEF IInv, Types, Queue, Futures, Protocol, Scheduled,
     UniLoop, Settings, run_server, close_server, Requests, asyncio_free,
     lifespan_free, loopVars, ctlVars, lsVars, srvVars
<1> QED
  BY <1>1, <1>2, <1>3, <1>4 DEF IInv

(* The lifespan coroutine returns or raises. *)
LEMMA Keeps_AppEnds == ASSUME IInv, AppEnds PROVE IInv'
<1>1. Types'
  BY LifecycleAssumption DEF IInv, Types, Scheduled, Phase, UniLoop, Lifespan,
     Future, App, NoApp, Settings, AppEnds, AppSteps, InLoop, loopVars,
     ctlVars, lsVars, srvVars
<1>2. Flags'
  BY DEF IInv, Flags, AppEnds, AppSteps, InLoop, loopVars, ctlVars, lsVars,
     srvVars
<1>3. Queue' /\ Futures' /\ Protocol'
  BY LifecycleAssumption DEF IInv, Types, Queue, Futures, Protocol, Scheduled,
     NoApp, App, Settings, Phase, StartupQueued, ShutdownQueued,
     CompletedAppsAreShutDown, FailedStartupAborts, AppEnds, AppSteps,
     InLoop, loopVars, ctlVars, lsVars, srvVars
<1>4. Scheduled'
  BY LifecycleAssumption DEF IInv, Types, Queue, Futures, Protocol, Scheduled,
     UniLoop, Settings, AppEnds, AppSteps, InLoop, loopVars, ctlVars, lsVars,
     srvVars
<1> QED
  BY <1>1, <1>2, <1>3, <1>4 DEF IInv

(* uni_loop runs libuv once and schedules itself, or stops asyncio. *)
LEMMA Keeps_uni_loop == ASSUME IInv, uni_loop PROVE IInv'
<1>1. Types'
  BY LifecycleAssumption DEF IInv, Types, Scheduled, Phase, UniLoop, Lifespan,
     Future, App, NoApp, Settings, uni_loop, InLoop, StopLoop, RunLibuv,
     Requests, signal_handler, loopVars, ctlVars, lsVars, srvVars
<1>2. Flags'
  BY DEF IInv, Flags, uni_loop, InLoop, StopLoop, RunLibuv, Requests,
     signal_handler, loopVars, ctlVars, lsVars, srvVars
<1>3. Queue' /\ Futures' /\ Protocol'
  BY LifecycleAssumption DEF IInv, Types, Queue, Futures, Protocol, Scheduled,
     NoApp, App, Settings, Phase, StartupQueued, ShutdownQueued,
     CompletedAppsAreShutDown, FailedStartupAborts, uni_loop, InLoop,
     StopLoop, RunLibuv, Requests, signal_handler, loopVars, ctlVars, lsVars,
     srvVars
<1>4. Scheduled'
  BY LifecycleAssumption DEF IInv, Types, Queue, Futures, Protocol, Scheduled,
     UniLoop, Settings, uni_loop, InLoop, StopLoop, RunLibuv, Requests,
     signal_handler, loopVars, ctlVars, lsVars, srvVars
<1> QED
  BY <1>1, <1>2, <1>3, <1>4 DEF IInv

(* uv_run under WSGI: Ctrl-C sets exit_code. *)
LEMMA Keeps_uv_run == ASSUME IInv, uv_run PROVE IInv'
<1>1. Types'
  BY LifecycleAssumption DEF IInv, Types, Scheduled, Phase, UniLoop, Lifespan,
     Future, App, NoApp, Settings, uv_run, Requests, signal_handler,
     loopVars, ctlVars, lsVars, srvVars
<1>2. Flags'
  BY DEF IInv, Flags, uv_run, Requests, signal_handler, loopVars, ctlVars,
     lsVars, srvVars
<1>3. Queue' /\ Futures' /\ Protocol'
  BY LifecycleAssumption DEF IInv, Types, Queue, Futures, Protocol, Scheduled,
     NoApp, App, Settings, Phase, StartupQueued, ShutdownQueued,
     CompletedAppsAreShutDown, FailedStartupAborts, uv_run, Requests,
     signal_handler, loopVars, ctlVars, lsVars, srvVars
<1>4. Scheduled'
  BY LifecycleAssumption DEF IInv, Types, Queue, Futures, Protocol, Scheduled,
     UniLoop, Settings, uv_run, Requests, signal_handler, loopVars, ctlVars,
     lsVars, srvVars
<1> QED
  BY <1>1, <1>2, <1>3, <1>4 DEF IInv

(* The kernel hands SIGINT to libuv's handler. *)
LEMMA Keeps_Sigint == ASSUME IInv, Sigint PROVE IInv'
<1>1. Types'
  BY LifecycleAssumption DEF IInv, Types, Scheduled, Phase, UniLoop, Lifespan,
     Future, App, NoApp, Settings, Sigint, loopVars, ctlVars, lsVars, srvVars
<1>2. Flags'
  BY DEF IInv, Flags, Sigint, loopVars, ctlVars, lsVars, srvVars
<1>3. Queue' /\ Futures' /\ Protocol'
  BY LifecycleAssumption DEF IInv, Types, Queue, Futures, Protocol, Scheduled,
     NoApp, App, Settings, Phase, StartupQueued, ShutdownQueued,
     CompletedAppsAreShutDown, FailedStartupAborts, Sigint, loopVars,
     ctlVars, lsVars, srvVars
<1>4. Scheduled'
  BY LifecycleAssumption DEF IInv, Types, Queue, Futures, Protocol, Scheduled,
     UniLoop, Settings, Sigint, loopVars, ctlVars, lsVars, srvVars
<1> QED
  BY <1>1, <1>2, <1>3, <1>4 DEF IInv

(* signal_handler ends the process when hook_sigint is 2. *)
LEMMA Keeps_Halt == ASSUME IInv, Halt PROVE IInv'
<1>1. Types'
  BY LifecycleAssumption DEF IInv, Types, Scheduled, Phase, UniLoop, Lifespan,
     Future, App, NoApp, Settings, Halt, loopVars, ctlVars, lsVars, srvVars
<1>2. Flags'
  BY DEF IInv, Flags, Halt, loopVars, ctlVars, lsVars, srvVars
<1>3. Queue' /\ Futures' /\ Protocol'
  BY LifecycleAssumption DEF IInv, Types, Queue, Futures, Protocol, Scheduled,
     NoApp, App, Settings, Phase, StartupQueued, ShutdownQueued,
     CompletedAppsAreShutDown, FailedStartupAborts, Halt, loopVars, ctlVars,
     lsVars, srvVars
<1>4. Scheduled'
  BY LifecycleAssumption DEF IInv, Types, Queue, Futures, Protocol, Scheduled,
     UniLoop, Settings, Halt, loopVars, ctlVars, lsVars, srvVars
<1> QED
  BY <1>1, <1>2, <1>3, <1>4 DEF IInv

(* Ctrl-C when the signal is asyncio's. *)
LEMMA Keeps_KeyboardInterrupt == ASSUME IInv, KeyboardInterrupt PROVE IInv'
<1>1. Types'
  BY LifecycleAssumption DEF IInv, Types, Scheduled, Phase, UniLoop, Lifespan,
     Future, App, NoApp, Settings, KeyboardInterrupt, InLoop, loopVars,
     ctlVars, lsVars, srvVars
<1>2. Flags'
  BY DEF IInv, Flags, KeyboardInterrupt, InLoop, loopVars, ctlVars, lsVars,
     srvVars
<1>3. Queue' /\ Futures' /\ Protocol'
  BY LifecycleAssumption DEF IInv, Types, Queue, Futures, Protocol, Scheduled,
     NoApp, App, Settings, Phase, StartupQueued, ShutdownQueued,
     CompletedAppsAreShutDown, FailedStartupAborts, KeyboardInterrupt,
     InLoop, loopVars, ctlVars, lsVars, srvVars
<1>4. Scheduled'
  BY LifecycleAssumption DEF IInv, Types, Queue, Futures, Protocol, Scheduled,
     UniLoop, Settings, KeyboardInterrupt, InLoop, loopVars, ctlVars, lsVars,
     srvVars
<1> QED
  BY <1>1, <1>2, <1>3, <1>4 DEF IInv

-----------------------------------------------------------------------------
(* Steps of the coroutine and of the queue. *)

(* A coroutine that runs has nothing waiting. *)
LEMMA RunsAlone ==
  ASSUME IInv, app.at \in {"ready", "return", "typeError", "raise"}
  PROVE  timers = <<>> /\ ~StartupQueued /\ ~ShutdownQueued
<1>1. timers = <<>>
  BY DEF IInv, Queue
<1> QED
  BY <1>1 DEF StartupQueued, ShutdownQueued

(* receive of the lifespan coroutine queues the answer that its state      *)
(* calls for.                                                              *)
LEMMA Keeps_lifespan_recv == ASSUME IInv, lifespan_recv PROVE IInv'
<1>1. /\ app.at = "ready" /\ app \in App /\ app.ops + 1 \in Nat
      /\ timers = <<>> /\ ~StartupQueued
  BY RunsAlone DEF IInv, Types, App, lifespan_recv, AppSteps
<1>2. app' = [app EXCEPT !.at = "recv", !.ops = app.ops + 1]
  BY DEF lifespan_recv
<1>3. /\ app' \in App /\ app'.at = "recv" /\ app'.said = app.said
      /\ app'.got = app.got
  BY <1>1, <1>2 DEF App
<1>4. timers' = CASE ls = "LS_STATE_STARTING" -> <<"recv.startup">>
                  [] ls = "LS_STATE_STOPPING" -> <<"recv.shutdown">>
                  [] OTHER                    -> <<>>
  BY <1>1 DEF lifespan_recv
<1>5. /\ ~StartupQueued' /\ ~ShutdownQueued'
      /\ timers' = <<"recv.startup">> => ls = "LS_STATE_STARTING"
      /\ timers' = <<"recv.shutdown">> => ls = "LS_STATE_STOPPING"
  BY <1>4 DEF StartupQueued, ShutdownQueued
<1>6. Types' /\ Scheduled'
  BY <1>3 DEF IInv, Types, Scheduled, Future, lifespan_recv, loopVars,
     ctlVars, lsVars, srvVars
<1>7. Flags'
  BY DEF IInv, Flags, lifespan_recv, loopVars, ctlVars, lsVars, srvVars
<1>8. Queue'
  BY <1>3, <1>4 DEF Queue
<1>9. Futures'
  BY <1>1, <1>3, <1>5 DEF IInv, Futures, Protocol, lifespan_recv, loopVars,
     ctlVars, lsVars, srvVars
<1>10. Protocol'
  BY <1>1, <1>3 DEF IInv, Protocol, CompletedAppsAreShutDown,
     FailedStartupAborts, lifespan_recv, loopVars, ctlVars, lsVars, srvVars
<1> QED
  BY <1>6, <1>7, <1>8, <1>9, <1>10 DEF IInv

(* What the three known events and an unknown one have in common. *)
LEMMA SendShape ==
  ASSUME IInv, NEW state, NEW said \in {"none", "complete", "failed", "down"},
         NEW t, Send(state, said, t)
  PROVE  /\ app.at = "ready" /\ app' \in App /\ app'.at = "send"
         /\ app'.said = said /\ app'.got = app.got /\ ls' = state
         /\ timers' = Append(t, "send")
<1>1. app.at = "ready" /\ app \in App
  BY DEF IInv, Types, Send, AppSteps
<1>2. app' = [app EXCEPT !.at = "send", !.said = said]
  BY DEF Send
<1> QED
  BY <1>1, <1>2 DEF App, Send

(* send of lifespan.startup.complete. *)
LEMMA Keeps_StartupComplete == ASSUME IInv, StartupComplete PROVE IInv'
<1>1. /\ app.at = "ready" /\ app' \in App /\ app'.at = "send"
      /\ app'.said = "complete" /\ app'.got = app.got /\ ls' = "LS_STATE_READY"
      /\ timers'
           = Append(ls_future_set_result(timers, startup_future, "startup"),
           "send")
  BY SendShape DEF StartupComplete
<1>2. timers = <<>> /\ ~StartupQueued /\ ~ShutdownQueued
  BY <1>1, RunsAlone
<1>3. timers' = IF startup_future = "pending" THEN <<"startup", "send">>
                                      ELSE <<"send">>
  BY <1>1, <1>2, SetResultQueued DEF Timer
<1>4. /\ StartupQueued' <=> startup_future = "pending"
      /\ ~ShutdownQueued'
      /\ timers' # <<"recv.startup">> /\ timers' # <<"recv.shutdown">>
  BY <1>3 DEF StartupQueued, ShutdownQueued
<1>5. Types'
  BY <1>1 DEF IInv, Types, Lifespan, StartupComplete, Send, loopVars,
     ctlVars, lsVars, srvVars
<1>6. Flags'
  BY DEF IInv, Flags, StartupComplete, Send, loopVars, ctlVars, lsVars, srvVars
<1>7. Queue'
  BY <1>1, <1>3 DEF Queue
<1>8. Futures'
  BY <1>1, <1>2, <1>4 DEF IInv, Types, Futures, Protocol, Future,
     StartupComplete, Send, loopVars, ctlVars, lsVars, srvVars
<1>9. Protocol'
  BY <1>1 DEF IInv, Protocol, CompletedAppsAreShutDown,
     FailedStartupAborts, AppSteps, InLoop, StartupComplete, Send, loopVars,
     ctlVars, lsVars, srvVars
<1>10. Scheduled'
  BY <1>1 DEF IInv, Scheduled, Protocol, AppSteps, InLoop, StartupComplete,
     Send, loopVars, ctlVars, lsVars, srvVars
<1> QED
  BY <1>5, <1>6, <1>7, <1>8, <1>9, <1>10 DEF IInv

(* send of lifespan.startup.failed. *)
LEMMA Keeps_StartupFailed == ASSUME IInv, StartupFailed PROVE IInv'
<1>1. /\ app.at = "ready" /\ app' \in App /\ app'.at = "send"
      /\ app'.said = "failed" /\ app'.got = app.got /\ ls' = "LS_STATE_FAILED"
      /\ timers'
           = Append(ls_future_set_result(timers, startup_future, "startup"),
           "send")
  BY SendShape DEF StartupFailed
<1>2. timers = <<>> /\ ~StartupQueued /\ ~ShutdownQueued
  BY <1>1, RunsAlone
<1>3. timers' = IF startup_future = "pending" THEN <<"startup", "send">>
                                      ELSE <<"send">>
  BY <1>1, <1>2, SetResultQueued DEF Timer
<1>4. /\ StartupQueued' <=> startup_future = "pending"
      /\ ~ShutdownQueued'
      /\ timers' # <<"recv.startup">> /\ timers' # <<"recv.shutdown">>
  BY <1>3 DEF StartupQueued, ShutdownQueued
<1>5. Types'
  BY <1>1 DEF IInv, Types, Lifespan, StartupFailed, Send, loopVars, ctlVars,
     lsVars, srvVars
<1>6. Flags'
  BY DEF IInv, Flags, StartupFailed, Send, loopVars, ctlVars, lsVars, srvVars
<1>7. Queue'
  BY <1>1, <1>3 DEF Queue
<1>8. Futures'
  BY <1>1, <1>2, <1>4 DEF IInv, Types, Futures, Protocol, Future,
     StartupFailed, Send, loopVars, ctlVars, lsVars, srvVars
<1>9. Protocol'
  BY <1>1 DEF IInv, Protocol, CompletedAppsAreShutDown,
     FailedStartupAborts, AppSteps, InLoop, StartupFailed, Send, loopVars,
     ctlVars, lsVars, srvVars
<1>10. Scheduled'
  BY <1>1 DEF IInv, Scheduled, Protocol, AppSteps, InLoop, StartupFailed,
     Send, loopVars, ctlVars, lsVars, srvVars
<1> QED
  BY <1>5, <1>6, <1>7, <1>8, <1>9, <1>10 DEF IInv

(* send of lifespan.shutdown.complete or .failed. *)
LEMMA Keeps_ShutdownSaid == ASSUME IInv, ShutdownSaid PROVE IInv'
<1>1. /\ app.at = "ready" /\ app' \in App /\ app'.at = "send"
      /\ app'.said = "down" /\ app'.got = app.got /\ ls' = "LS_STATE_DONE"
      /\ timers'
           = Append(ls_future_set_result(timers, shutdown_future,
           "shutdown"), "send")
  BY SendShape DEF ShutdownSaid
<1>2. timers = <<>> /\ ~StartupQueued /\ ~ShutdownQueued
  BY <1>1, RunsAlone
<1>3. timers' = IF shutdown_future = "pending" THEN <<"shutdown", "send">>
                                      ELSE <<"send">>
  BY <1>1, <1>2, SetResultQueued DEF Timer
<1>4. /\ ShutdownQueued' <=> shutdown_future = "pending"
      /\ ~StartupQueued'
      /\ timers' # <<"recv.startup">> /\ timers' # <<"recv.shutdown">>
  BY <1>3 DEF StartupQueued, ShutdownQueued
<1>5. Types'
  BY <1>1 DEF IInv, Types, Lifespan, ShutdownSaid, Send, loopVars, ctlVars,
     lsVars, srvVars
<1>6. Flags'
  BY DEF IInv, Flags, ShutdownSaid, Send, loopVars, ctlVars, lsVars, srvVars
<1>7. Queue'
  BY <1>1, <1>3 DEF Queue
<1>8. Futures'
  BY <1>1, <1>2, <1>4 DEF IInv, Types, Futures, Protocol, Future,
     ShutdownSaid, Send, loopVars, ctlVars, lsVars, srvVars
<1>9. Protocol'
  BY <1>1 DEF IInv, Protocol, CompletedAppsAreShutDown,
     FailedStartupAborts, AppSteps, InLoop, ShutdownSaid, Send, loopVars,
     ctlVars, lsVars, srvVars
<1>10. Scheduled'
  BY <1>1 DEF IInv, Scheduled, Protocol, AppSteps, InLoop, ShutdownSaid,
     Send, loopVars, ctlVars, lsVars, srvVars
<1> QED
  BY <1>5, <1>6, <1>7, <1>8, <1>9, <1>10 DEF IInv

(* send of an event nobody knows. *)
LEMMA Keeps_UnknownSaid == ASSUME IInv, UnknownSaid PROVE IInv'
<1>1. /\ app.at = "ready" /\ app \in App /\ app.ops + 1 \in Nat
      /\ timers = <<>> /\ ~StartupQueued /\ ~ShutdownQueued
  BY RunsAlone DEF IInv, Types, App, UnknownSaid, AppSteps
<1>2. app' = [app EXCEPT !.at = "send", !.ops = app.ops + 1]
  BY DEF UnknownSaid
<1>3. /\ app' \in App /\ app'.at = "send" /\ app'.said = app.said
      /\ app'.got = app.got
  BY <1>1, <1>2 DEF App
<1>4. timers' = <<"send">>
  BY <1>1 DEF UnknownSaid
<1>5. /\ ~StartupQueued' /\ ~ShutdownQueued'
      /\ timers' # <<"recv.startup">> /\ timers' # <<"recv.shutdown">>
  BY <1>4 DEF StartupQueued, ShutdownQueued
<1>6. Types' /\ Scheduled'
  BY <1>3 DEF IInv, Types, Scheduled, UnknownSaid, loopVars, ctlVars, lsVars,
     srvVars
<1>7. Flags'
  BY DEF IInv, Flags, UnknownSaid, loopVars, ctlVars, lsVars, srvVars
<1>8. Queue'
  BY <1>3, <1>4 DEF Queue
<1>9. Futures'
  BY <1>1, <1>3, <1>5 DEF IInv, Futures, UnknownSaid, loopVars, ctlVars,
     lsVars, srvVars
<1>10. Protocol'
  BY <1>1, <1>3 DEF IInv, Protocol, CompletedAppsAreShutDown,
     FailedStartupAborts, UnknownSaid, loopVars, ctlVars, lsVars, srvVars
<1> QED
  BY <1>6, <1>7, <1>8, <1>9, <1>10 DEF IInv

(* A coroutine that is gone while both futures are pending would queue two *)
(* calls; but whoever is asked to shut down has answered the startup.      *)
LEMMA Keeps_lifespan_done == ASSUME IInv, lifespan_done PROVE IInv'
<1>1. /\ app.at \in {"return", "typeError", "raise"} /\ app \in App
      /\ timers = <<>> /\ ~StartupQueued /\ ~ShutdownQueued
  BY RunsAlone DEF IInv, Types, lifespan_done
<1>2. app' = [app EXCEPT !.at = "ended"]
  BY DEF lifespan_done
<1>3. /\ app' \in App /\ app'.at = "ended" /\ app'.said = app.said
      /\ app'.got = app.got
  BY <1>1, <1>2 DEF App
<1>4. startup_future = "pending" => shutdown_future # "pending"
  BY <1>1 DEF IInv, Futures
<1>5. timers' = IF startup_future = "pending" THEN <<"startup">>
                ELSE IF shutdown_future = "pending" THEN <<"shutdown">>
                ELSE <<>>
  <2>1. timers' = ls_future_set_result(
                    ls_future_set_result(<<>>, startup_future, "startup"),
                    shutdown_future, "shutdown")
    BY <1>1 DEF lifespan_done
  <2>2. CASE startup_future = "pending"
    BY <1>4, <2>1, <2>2 DEF ls_future_set_result
  <2>3. CASE startup_future # "pending"
    BY <2>1, <2>3 DEF ls_future_set_result
  <2> QED
    BY <2>2, <2>3
<1>6. /\ StartupQueued' <=> startup_future = "pending"
      /\ ShutdownQueued' => shutdown_future = "pending"
      /\ timers' # <<"recv.startup">> /\ timers' # <<"recv.shutdown">>
  BY <1>5 DEF StartupQueued, ShutdownQueued
<1>7. /\ ls' \in Lifespan
      /\ ls' \in {"LS_STATE_READY", "LS_STATE_STOPPING"} => ls' = ls
      /\ ls' = "LS_STATE_UNSUPPORTED" => cfg.mode = "auto" \/ ls' = ls
  BY <1>1 DEF IInv, Types, Lifespan, lifespan_done, DoneState
<1>8. Types'
  BY <1>3, <1>7 DEF IInv, Types, lifespan_done, loopVars, ctlVars, lsVars,
     srvVars
<1>9. Flags'
  BY DEF IInv, Flags, lifespan_done, loopVars, ctlVars, lsVars, srvVars
<1>10. Queue'
  BY <1>3, <1>5 DEF Queue
<1>11. Futures'
  BY <1>1, <1>3, <1>6 DEF IInv, Futures, lifespan_done, loopVars, ctlVars,
     lsVars, srvVars
<1>12. Protocol'
  BY <1>1, <1>3, <1>7 DEF IInv, Protocol, InLoop, CompletedAppsAreShutDown,
     FailedStartupAborts, lifespan_done, loopVars, ctlVars, lsVars, srvVars
<1>13. Scheduled'
  BY <1>7 DEF IInv, Scheduled, InLoop, lifespan_done, loopVars, ctlVars,
     lsVars, srvVars
<1> QED
  BY <1>8, <1>9, <1>10, <1>11, <1>12, <1>13 DEF IInv

(* lifespan_shutdown wakes an application that waits in receive(), and     *)
(* only that one.                                                          *)
LEMMA Keeps_lifespan_shutdown == ASSUME IInv, lifespan_shutdown PROVE IInv'
<1>1. /\ pc = "closing" /\ ls = "LS_STATE_READY" /\ app.said = "complete"
      /\ UNCHANGED <<app, startup_future, recv_future, twice>>
      /\ ls' = "LS_STATE_STOPPING" /\ shutdown_future' = "pending"
      /\ pc' = "shutdown"
  BY DEF IInv, Protocol, lifespan_shutdown, ShutdownDue
<1>2. shutdown_future = "NULL" /\ ~ShutdownQueued
  BY <1>1 DEF IInv, Futures
<1>3. app.at = "recv" => timers = <<>> /\ timers' = <<"recv.shutdown">>
  <2> SUFFICES ASSUME app.at = "recv"
               PROVE  timers = <<>> /\ timers' = <<"recv.shutdown">>
    OBVIOUS
  <2>1. timers # <<"recv.startup">> /\ timers # <<"recv.shutdown">>
    BY <1>1 DEF IInv, Futures
  <2>2. timers = <<>> /\ recv_future = "pending"
    BY <2>1 DEF IInv, Queue, Futures
  <2> QED
    BY <2>2 DEF lifespan_shutdown, ls_future_set_result
<1>4. app.at # "recv" => timers' = timers
  BY DEF IInv, Futures, lifespan_shutdown, ls_future_set_result
<1>5. /\ StartupQueued' => StartupQueued /\ timers' = timers
      /\ ~ShutdownQueued'
      /\ timers' # <<"recv.startup">>
      /\ StartupQueued => StartupQueued'
  BY <1>1, <1>2, <1>3, <1>4 DEF StartupQueued, ShutdownQueued, IInv, Futures
<1>6. Types'
  BY <1>1 DEF IInv, Types, Scheduled, Phase, UniLoop, Lifespan, Future,
     lifespan_shutdown, PutAside, loopVars, ctlVars, lsVars, srvVars
<1>7. Flags'
  BY DEF IInv, Flags, lifespan_shutdown, PutAside, loopVars, ctlVars, lsVars,
     srvVars
<1>8. Queue'
  BY <1>1, <1>3, <1>4 DEF IInv, Queue
<1>9. Futures'
  BY <1>1, <1>2, <1>5 DEF IInv, Futures
<1>10. Protocol'
  BY <1>1 DEF IInv, Protocol, CompletedAppsAreShutDown,
     FailedStartupAborts, lifespan_shutdown, loopVars, ctlVars, lsVars, srvVars
<1>11. Scheduled'
  BY <1>1, LifecycleAssumption DEF IInv, Types, Settings, Scheduled,
     lifespan_shutdown, PutAside, loopVars, ctlVars, lsVars, srvVars
<1> QED
  BY <1>6, <1>7, <1>8, <1>9, <1>10, <1>11 DEF IInv

(* SetResult, by what is at the head of the queue.  Its future is pending  *)
(* in every case.                                                          *)
LEMMA Keeps_SetResult == ASSUME IInv, SetResult PROVE IInv'
<1> DEFINE t == Head(timers)
<1>1. /\ InLoop /\ app \in App /\ timers # <<>>
      /\ timers' = Tail(timers)
      /\ UNCHANGED <<pc, ctlVars, ls, srvVars>>
  BY DEF IInv, Types, SetResult
<1>2. timers \in {<<"send">>, <<"startup", "send">>, <<"shutdown", "send">>,
                  <<"recv.startup">>, <<"recv.shutdown">>, <<"startup">>,
                  <<"shutdown">>}
  BY <1>1 DEF IInv, Types, App, Queue
<1>3. CASE timers = <<"send">>
  <2>1. t = "send" /\ timers' = <<>> /\ app.at = "send"
    BY <1>1, <1>3 DEF IInv, Types, App, Queue
  <2>2. /\ UNCHANGED <<startup_future, shutdown_future, recv_future, twice>>
        /\ app' = [app EXCEPT !.at = "ready"]
    BY <2>1 DEF SetResult
  <2>3. /\ app' \in App /\ app'.at = "ready" /\ app'.said = app.said
        /\ app'.got = app.got
    BY <1>1, <2>2 DEF App
  <2>4. /\ ~StartupQueued /\ ~StartupQueued'
        /\ ~ShutdownQueued /\ ~ShutdownQueued'
    BY <1>3, <2>1 DEF StartupQueued, ShutdownQueued
  <2>5. Types' /\ Scheduled'
    BY <1>1, <2>2, <2>3 DEF IInv, Types, Scheduled, loopVars, ctlVars,
       lsVars, srvVars
  <2>6. Flags'
    BY <1>1, <2>2 DEF IInv, Flags, loopVars, ctlVars, lsVars, srvVars
  <2>7. Queue' /\ Futures'
    BY <1>1, <2>1, <2>2, <2>3, <2>4 DEF IInv, Queue, Futures, loopVars,
       ctlVars, lsVars, srvVars
  <2>8. Protocol'
    BY <1>1, <2>1, <2>2, <2>3 DEF IInv, Protocol, InLoop,
       CompletedAppsAreShutDown, FailedStartupAborts, loopVars, ctlVars,
       lsVars, srvVars
  <2> QED
    BY <2>5, <2>6, <2>7, <2>8 DEF IInv
<1>4. CASE StartupQueued
  <2>1. /\ t = "startup"
        /\ \/ timers = <<"startup">> /\ timers' = <<>> /\ app.at = "ended"
           \/ /\ timers = <<"startup", "send">> /\ timers' = <<"send">>
              /\ app.at = "send"
    <3>1. CASE timers = <<"startup">>
      <4>1. app.at = "ended"
        BY <1>1, <3>1 DEF IInv, Types, App, Queue
      <4> QED
        BY <1>1, <3>1, <4>1
    <3>2. CASE timers = <<"startup", "send">>
      <4>1. app.at = "send"
        BY <1>1, <3>2 DEF IInv, Types, App, Queue
      <4>2. t = "startup" /\ timers' = <<"send">>
        BY <1>1, <3>2
      <4> QED
        BY <3>2, <4>1, <4>2
    <3> QED
      BY <1>4, <3>1, <3>2 DEF StartupQueued
  <2>2. startup_future = "pending" /\ ~ShutdownQueued
    BY <2>1, <1>4 DEF IInv, Futures, ShutdownQueued
  <2>3. /\ UNCHANGED <<shutdown_future, recv_future, app, twice>>
        /\ startup_future' = "done"
    BY <2>1, <2>2 DEF SetResult
  <2>4. /\ ~StartupQueued' /\ ~ShutdownQueued'
        /\ timers' # <<"recv.startup">> /\ timers' # <<"recv.shutdown">>
    BY <2>1 DEF StartupQueued, ShutdownQueued
  <2>5. Types' /\ Scheduled'
    BY <1>1, <2>3 DEF IInv, Types, Scheduled, Future, loopVars, ctlVars,
       lsVars, srvVars
  <2>6. Flags'
    BY <1>1, <2>3 DEF IInv, Flags, loopVars, ctlVars, lsVars, srvVars
  <2>7. Queue'
    BY <2>1, <2>3 DEF Queue
  <2>8. Futures'
    BY <1>1, <1>4, <2>2, <2>3, <2>4 DEF IInv, Futures, loopVars, ctlVars,
       lsVars, srvVars
  <2>9. Protocol'
    BY <1>1, <2>3 DEF IInv, Protocol, InLoop,
       CompletedAppsAreShutDown, FailedStartupAborts, loopVars, ctlVars,
       lsVars, srvVars
  <2> QED
    BY <2>5, <2>6, <2>7, <2>8, <2>9 DEF IInv
<1>5. CASE ShutdownQueued
  <2>1. /\ t = "shutdown"
        /\ \/ timers = <<"shutdown">> /\ timers' = <<>> /\ app.at = "ended"
           \/ /\ timers = <<"shutdown", "send">> /\ timers' = <<"send">>
              /\ app.at = "send"
    <3>1. CASE timers = <<"shutdown">>
      <4>1. app.at = "ended"
        BY <1>1, <3>1 DEF IInv, Types, App, Queue
      <4> QED
        BY <1>1, <3>1, <4>1
    <3>2. CASE timers = <<"shutdown", "send">>
      <4>1. app.at = "send"
        BY <1>1, <3>2 DEF IInv, Types, App, Queue
      <4>2. t = "shutdown" /\ timers' = <<"send">>
        BY <1>1, <3>2
      <4> QED
        BY <3>2, <4>1, <4>2
    <3> QED
      BY <1>5, <3>1, <3>2 DEF ShutdownQueued
  <2>2. shutdown_future = "pending" /\ ~StartupQueued
    BY <2>1, <1>5 DEF IInv, Futures, StartupQueued
  <2>3. /\ UNCHANGED <<startup_future, recv_future, app, twice>>
        /\ shutdown_future' = "done"
    BY <2>1, <2>2 DEF SetResult
  <2>4. /\ ~StartupQueued' /\ ~ShutdownQueued'
        /\ timers' # <<"recv.startup">> /\ timers' # <<"recv.shutdown">>
    BY <2>1 DEF StartupQueued, ShutdownQueued
  <2>5. Types' /\ Scheduled'
    BY <1>1, <2>3 DEF IInv, Types, Scheduled, Future, loopVars, ctlVars,
       lsVars, srvVars
  <2>6. Flags'
    BY <1>1, <2>3 DEF IInv, Flags, loopVars, ctlVars, lsVars, srvVars
  <2>7. Queue'
    BY <2>1, <2>3 DEF Queue
  <2>8. Futures'
    BY <1>1, <1>5, <2>2, <2>3, <2>4 DEF IInv, Futures, loopVars, ctlVars,
       lsVars, srvVars
  <2>9. Protocol'
    BY <1>1, <2>3 DEF IInv, Protocol, InLoop,
       CompletedAppsAreShutDown, FailedStartupAborts, loopVars, ctlVars,
       lsVars, srvVars
  <2> QED
    BY <2>5, <2>6, <2>7, <2>8, <2>9 DEF IInv
<1>6. CASE timers = <<"recv.startup">>
  <2>1. t = "recv.startup" /\ timers' = <<>> /\ app.at = "recv"
    BY <1>1, <1>6 DEF IInv, Types, App, Queue
  <2>2. recv_future = "pending"
    BY <2>1 DEF IInv, Futures
  <2>3. /\ UNCHANGED <<startup_future, shutdown_future, twice>>
        /\ recv_future' = "done"
        /\ app' = [app EXCEPT !.at = "ready", !.got = "startup"]
    BY <2>1, <2>2 DEF SetResult
  <2>4. /\ app' \in App /\ app'.at = "ready" /\ app'.said = app.said
        /\ app'.got = "startup"
    BY <1>1, <2>3 DEF App
  <2>5. /\ ~StartupQueued /\ ~StartupQueued'
        /\ ~ShutdownQueued /\ ~ShutdownQueued'
    BY <1>6, <2>1 DEF StartupQueued, ShutdownQueued
  <2>6. Types' /\ Scheduled'
    BY <1>1, <2>3, <2>4 DEF IInv, Types, Scheduled, Future, loopVars,
       ctlVars, lsVars, srvVars
  <2>7. Flags'
    BY <1>1, <2>3 DEF IInv, Flags, loopVars, ctlVars, lsVars, srvVars
  <2>8. Queue' /\ Futures'
    BY <1>1, <2>1, <2>3, <2>4, <2>5 DEF IInv, Queue, Futures, loopVars,
       ctlVars, lsVars, srvVars
  <2>9. Protocol'
    BY <1>1, <1>6, <2>1, <2>3, <2>4 DEF IInv, Futures, Protocol, InLoop,
       CompletedAppsAreShutDown, FailedStartupAborts, loopVars, ctlVars,
       lsVars, srvVars
  <2> QED
    BY <2>6, <2>7, <2>8, <2>9 DEF IInv
<1>7. CASE timers = <<"recv.shutdown">>
  <2>1. t = "recv.shutdown" /\ timers' = <<>> /\ app.at = "recv"
    BY <1>1, <1>7 DEF IInv, Types, App, Queue
  <2>2. recv_future = "pending"
    BY <2>1 DEF IInv, Futures
  <2>3. /\ UNCHANGED <<startup_future, shutdown_future, twice>>
        /\ recv_future' = "done"
        /\ app' = [app EXCEPT !.at = "ready", !.got = "shutdown"]
    BY <2>1, <2>2 DEF SetResult
  <2>4. /\ app' \in App /\ app'.at = "ready" /\ app'.said = app.said
        /\ app'.got = "shutdown"
    BY <1>1, <2>3 DEF App
  <2>5. /\ ~StartupQueued /\ ~StartupQueued'
        /\ ~ShutdownQueued /\ ~ShutdownQueued'
    BY <1>7, <2>1 DEF StartupQueued, ShutdownQueued
  <2>6. Types' /\ Scheduled'
    BY <1>1, <2>3, <2>4 DEF IInv, Types, Scheduled, Future, loopVars,
       ctlVars, lsVars, srvVars
  <2>7. Flags'
    BY <1>1, <2>3 DEF IInv, Flags, loopVars, ctlVars, lsVars, srvVars
  <2>8. Queue' /\ Futures'
    BY <1>1, <2>1, <2>3, <2>4, <2>5 DEF IInv, Queue, Futures, loopVars,
       ctlVars, lsVars, srvVars
  <2>9. Protocol'
    BY <1>1, <1>7, <2>1, <2>3, <2>4 DEF IInv, Futures, Protocol, InLoop,
       CompletedAppsAreShutDown, FailedStartupAborts, loopVars, ctlVars,
       lsVars, srvVars
  <2> QED
    BY <2>6, <2>7, <2>8, <2>9 DEF IInv
<1> QED
  BY <1>2, <1>3, <1>4, <1>5, <1>6, <1>7 DEF StartupQueued, ShutdownQueued

-----------------------------------------------------------------------------
(* The inductive invariant. *)

(* A server that has not been initialised is in the invariant. *)
THEOREM Initial == ASSUME Init PROVE IInv
<1>1. NoApp \in App
  BY DEF NoApp, App
<1>2. ~StartupQueued /\ ~ShutdownQueued
  BY DEF Init, StartupQueued, ShutdownQueued
<1>3. Types
  BY <1>1, LifecycleAssumption
  DEF Init, Types, Phase, UniLoop, Lifespan, Future
<1>4. Flags
  BY DEF Init, Flags
<1>5. Queue /\ Futures
  BY <1>2 DEF Init, Queue, Futures, NoApp
<1>6. Protocol /\ Scheduled
  BY LifecycleAssumption
  DEF Init, Protocol, Scheduled, NoApp, CompletedAppsAreShutDown,
      FailedStartupAborts
<1> QED
  BY <1>3, <1>4, <1>5, <1>6 DEF IInv

(* A stutter. *)
LEMMA Keeps_Nothing == ASSUME IInv, UNCHANGED vars PROVE IInv'
<1>1. /\ UNCHANGED <<pc, exit_code, saved_exit_code, ul, ulq, ls>>
      /\ UNCHANGED <<startup_future, shutdown_future, recv_future, timers, app>>
      /\ UNCHANGED <<stopping, raised, twice, sigint, served, runs, cfg>>
  BY DEF vars, loopVars, ctlVars, lsVars, srvVars
<1>2. Types' /\ Scheduled'
  BY <1>1 DEF IInv, Types, Scheduled
<1>3. Flags'
  BY <1>1 DEF IInv, Flags
<1>4. Queue' /\ Futures'
  BY <1>1 DEF IInv, Queue, Futures, StartupQueued, ShutdownQueued
<1>5. Protocol'
  BY <1>1 DEF IInv, Protocol, CompletedAppsAreShutDown, FailedStartupAborts
<1> QED
  BY <1>2, <1>3, <1>4, <1>5 DEF IInv

(* Every step of the loops, of the application and of the operating        *)
(* system keeps the invariant.                                             *)
THEOREM Inductive == ASSUME IInv, [Next]_vars PROVE IInv'
<1>1. CASE Starts
  BY <1>1, Keeps_init_server, Keeps_run_server_wsgi, Keeps_run_server_plain,
     Keeps_lifespan_startup, Keeps_NoCoroutine, Keeps_StartupOver
  DEF Starts
<1>2. CASE Closes
  BY <1>2, Keeps_ForeverOver, Keeps_lifespan_shutdown,
     Keeps_lifespan_shutdown_refused, Keeps_NothingToShutDown,
     Keeps_ShutdownOver, Keeps_run_server
  DEF Closes
<1>3. CASE AppStep
  BY <1>3, Keeps_lifespan_recv, Keeps_StartupComplete, Keeps_StartupFailed,
     Keeps_ShutdownSaid, Keeps_UnknownSaid, Keeps_AppEnds
  DEF AppStep
<1>4. CASE lifespan_done
  BY <1>4, Keeps_lifespan_done
<1>5. CASE SetResult
  BY <1>5, Keeps_SetResult
<1>6. CASE uni_loop
  BY <1>6, Keeps_uni_loop
<1>7. CASE uv_run
  BY <1>7, Keeps_uv_run
<1>8. CASE Sigint
  BY <1>8, Keeps_Sigint
<1>9. CASE Halt
  BY <1>9, Keeps_Halt
<1>10. CASE KeyboardInterrupt
  BY <1>10, Keeps_KeyboardInterrupt
<1>11. CASE Terminated \/ UNCHANGED vars
  BY <1>11, Keeps_Nothing DEF Terminated
<1> QED
  BY <1>1, <1>2, <1>3, <1>4, <1>5, <1>6, <1>7, <1>8, <1>9, <1>10, <1>11 DEF Next

(* The invariant holds throughout, for every settings and any number of    *)
(* runs.                                                                   *)
THEOREM Invariance == Spec => []IInv
<1>1. Init => IInv
  BY Initial
<1>2. IInv /\ [Next]_vars => IInv'
  BY Inductive
<1> QED
  BY <1>1, <1>2, PTL DEF Spec

-----------------------------------------------------------------------------
(* The properties. *)

(* Every variable has its type: run_server is in one of its loops, uni_loop *)
(* never waits more than twice and the asyncio loop holds only the delayed  *)
(* calls that asgi.c and lifespan.c make.                                   *)
THEOREM Typed == Spec => []TypeOK
<1>1. IInv => TypeOK
  <2> SUFFICES ASSUME IInv PROVE TypeOK
    OBVIOUS
  <2>1. timers \in Seq(Timer)
    BY QueueTyped DEF IInv
  <2>2. {stopping, raised, twice} \subseteq BOOLEAN
    BY DEF IInv, Flags
  <2> QED
    BY <2>1, <2>2 DEF IInv, Types, TypeOK
<1> QED
  BY <1>1, Invariance, PTL

(* uni_loop is scheduled exactly once in each of the asyncio loops that     *)
(* run_server enters, through aio_loop_run, lifespan_startup and            *)
(* lifespan_shutdown.                                                       *)
THEOREM ScheduledOnce == Spec => []UniLoopScheduledOnce
<1>1. IInv => UniLoopScheduledOnce
  BY DEF IInv, Scheduled, UniLoopScheduledOnce, InLoop
<1> QED
  BY <1>1, Invariance, PTL

(* close_server tells every application that has completed its startup and  *)
(* is still there, and no other, that the server shuts down.                *)
THEOREM ToldOfShutdown == Spec => []CompletedAppsAreShutDown
<1>1. IInv => CompletedAppsAreShutDown
  BY DEF IInv, Protocol
<1> QED
  BY <1>1, Invariance, PTL

(* With fail_on_startup_error run_server serves only behind an application  *)
(* that completed its startup or does not support lifespan.                 *)
THEOREM StartupGuards == Spec => []FailedStartupAborts
<1>1. IInv => FailedStartupAborts
  BY DEF IInv, Protocol
<1> QED
  BY <1>1, Invariance, PTL

(* No delayed set_result finds its future done already.                     *)
THEOREM ResolvedOnce == Spec => []FuturesResolveOnce
<1>1. IInv => FuturesResolveOnce
  BY DEF IInv, Futures, FuturesResolveOnce
<1> QED
  BY <1>1, Invariance, PTL

(* lifespan_shutdown returns only when the application has answered the     *)
(* shutdown event or has ended: exit_code, put aside, cannot stop its loop. *)
THEOREM WaitsForShutdown == Spec => ShutdownIsWaitedFor
<1>1. IInv /\ [Next]_vars
        => [pc = "shutdown" /\ pc' = "draining"
              => app.said = "down" \/ app.at = "ended"]_vars
  <2> SUFFICES ASSUME IInv, [Next]_vars, pc = "shutdown", pc' = "draining"
               PROVE  app.said = "down" \/ app.at = "ended"
    OBVIOUS
  <2>1. ShutdownOver
    BY DEF Next, Starts, Closes, AppStep, init_server, run_server_wsgi,
       run_server_plain, lifespan_startup, NoCoroutine, StartupOver,
       ForeverOver, lifespan_shutdown, lifespan_shutdown_refused,
       NothingToShutDown, run_server, lifespan_recv, StartupComplete,
       StartupFailed, ShutdownSaid, Send, UnknownSaid, AppEnds, lifespan_done,
       SetResult, uni_loop, uv_run, Sigint, Halt, KeyboardInterrupt,
       Terminated, vars, init_srv, close_server
  <2>2. ~stopping
    BY DEF IInv, Scheduled
  <2> QED
    BY <2>1, <2>2 DEF ShutdownOver, IInv, Futures
<1> QED
  BY <1>1, Invariance, PTL DEF Spec, ShutdownIsWaitedFor

==============================================================================
