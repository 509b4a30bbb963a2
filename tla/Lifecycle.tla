------------------------------ MODULE Lifecycle ------------------------------
(***************************************************************************)
(* The HTTP adapter around the scheduler: the lifespan, the handler and    *)
(* the access-log middleware of api.py with the loggers of                 *)
(* access_logging.py, run_logging.py and main.py.                          *)
(*                                                                         *)
(* Jobs are the warm-up requests of the lifespan, in their order, and the  *)
(* requests to /tokenizer.  Every step is a step of the scheduler, or      *)
(* leaves the scheduler alone; what an environment may do to a             *)
(* SerialScheduler (cancel a caller or the consumer, close it) is done     *)
(* here by the code that really does it.                                   *)
(*                                                                         *)
(* Uvicorn is external: it serves once the lifespan is ready; a signal     *)
(* makes it wait for the requests in flight and then end the lifespan; a   *)
(* second one makes it leave at once, and asyncio.run cancels every task.  *)
(***************************************************************************)
EXTENDS SerialScheduler

CONSTANTS
    WarmUps,    \* _WARMUP_MODELS: the warm-up jobs, in order
    LogBodies   \* TOKENIZER_LOG_REQUEST_BODY

WarmUpJobs == {WarmUps[i] : i \in 1..Len(WarmUps)}
Requests == Jobs \ WarmUpJobs

ASSUME WarmUpsAssumption ==
    /\ WarmUps \in Seq(Jobs)
    /\ \A i, k \in 1..Len(WarmUps) : WarmUps[i] = WarmUps[k] => i = k
ASSUME LogBodiesAssumption == LogBodies \in BOOLEAN

VARIABLES
    life,     \* where the lifespan is
    server,   \* what Uvicorn does
    request,  \* where each request is
    code,     \* request.state.error_code ("ok": none) once there is a reply
    line,     \* the error code of the request's line in access.log
    traced,   \* the requests with a traceback in run.log
    handler,  \* the handler attached to each logger
    open,     \* the handlers that are open
    disk,     \* of the log files: "writable", then "full", then "freed"
    blocked   \* the actors that wait for a lock of the logs for ever

webVars == <<life, server, request, code, line, traced>>
logVars == <<handler, open, disk, blocked>>
lifeVars == <<vars, webVars, logVars>>

Loggers == {"run", "root", "uvicorn", "access"}
LifeStates == {"off", "starting", "ready", "closing", "unwinding", "ended", "failed"}
\* "failing": an exception that is no APIError is on its way out of the application.
RequestStates == {"away", "handling", "replied", "logged", "failing", "lost"}
Refusals == {"queue_full", "queue_timeout"}
\* unknown_model and request_processing_error; asset_integrity_error and
\* internal_error, which _log_request_exception writes to the run log.
ErrorsOfTheCall == {"client_error", "server_error"}
\* "unrouted": request_validation_error, http_405.
Codes == {"none", "ok", "unrouted", "unhandled"} \cup Refusals \cup ErrorsOfTheCall

\* main() has configured the run log before Uvicorn loads the application.
LifeInit ==
    /\ Init
    /\ life = "off"
    /\ server = "down"
    /\ request = [r \in Requests |-> "away"]
    /\ code = [r \in Requests |-> "none"]
    /\ line = [r \in Requests |-> "none"]
    /\ traced = {}
    /\ handler = [l \in Loggers |-> IF l = "access" THEN "none" ELSE "main"]
    /\ open = {"main"}
    /\ disk = "writable"
    /\ blocked = {}

------------------------------------------------------------------------------
(***************************************************************************)
(* Logging.  When a handler fails to write, logging reports it to          *)
(* sys.stderr, which main() made a _LoggerStream: that takes its lock and  *)
(* logs, the run log fails too, and the report of that waits for the lock  *)
(* its own thread holds.  The thread also holds the lock of the handler.   *)
(* A handler that was closed opens its file again when it has to write.    *)
(***************************************************************************)
AccessLogWorks == disk # "full"
RunLogWorks == disk # "full" /\ blocked = {}
LoopRuns == "loop" \notin blocked

\* configure_run_logger, then configure_process_file_logging with its handler.
ConfigureLogs(h) ==
    /\ handler' = [handler EXCEPT !["run"] = h, !["root"] = h, !["uvicorn"] = h]
    /\ open' = (open \ {handler["run"], handler["root"], handler["uvicorn"]}) \cup {h}

\* configure_access_logger after that.
ConfigureAllLogs ==
    /\ handler' = [l \in Loggers |-> IF l = "access" THEN "access" ELSE "run"]
    /\ open' = (open \ {handler[l] : l \in Loggers}) \cup {"run", "access"}

\* The end of the lifespan: the access handlers are closed and removed.
BugReleaseAccessLog ==
    /\ handler' = handler
    /\ open' = open \ {handler["access"]}
ReleaseAccessLog ==
    /\ handler' = [handler EXCEPT !["access"] = "none"]
    /\ open' = open \ {handler["access"]}

KeepLogs == UNCHANGED <<handler, open>>
SameDisk == UNCHANGED <<disk, blocked>>

------------------------------------------------------------------------------
(***************************************************************************)
(* lifespan() until its yield                                              *)
(***************************************************************************)
\* Up to `await scheduler.start()`.
Startup ==
    /\ life = "off"
    /\ RunLogWorks
    /\ Start
    /\ ConfigureAllLogs
    /\ life' = "starting"
    /\ UNCHANGED <<server, request, code, line, traced>>
    /\ SameDisk

\* configure_run_logger raises, outside the try: before it changes anything, or when the
\* old handler is closed and removed and the file of the new one cannot be opened.
RunLogFails ==
    /\ life = "off"
    /\ RunLogWorks
    /\ \/ KeepLogs
       \/ /\ handler' = [handler EXCEPT !["run"] = "none"]
          /\ open' = open \ {handler["run"]}
    /\ life' = "failed"
    /\ UNCHANGED <<vars, server, request, code, line, traced>>
    /\ SameDisk

\* An environment variable is invalid before there is a scheduler to close.
StartupFails ==
    /\ life = "off"
    /\ RunLogWorks
    /\ ConfigureLogs("run")
    /\ life' = "failed"
    /\ UNCHANGED <<vars, server, request, code, line, traced>>
    /\ SameDisk

\* Uvicorn reports a failed start with the handler it still has.  If that was closed, it
\* opens its file again, or fails to: the run logger then has no handler either, and what
\* logging does as its last resort is to write to sys.stderr, whose lock is taken.
ReportFailure ==
    /\ life = "failed"
    /\ handler["uvicorn"] \notin open
    /\ \/ /\ RunLogWorks
          /\ open' = open \cup {handler["uvicorn"]}
          /\ UNCHANGED blocked
       \/ /\ blocked' = blocked \cup {"loop"}
          /\ UNCHANGED open
    /\ UNCHANGED <<vars, webVars, handler, disk>>

\* The access log cannot be configured: the scheduler is closed unstarted.
AccessLogFails ==
    /\ life = "off"
    /\ RunLogWorks
    /\ Close
    /\ ConfigureLogs("run")
    /\ life' = "unwinding"
    /\ UNCHANGED <<server, request, code, line, traced>>
    /\ SameDisk

\* The number of warm-ups that succeeded.
WarmedUp == Cardinality({j \in WarmUpJobs : submit[j] = "value"})
NoWarmUpInFlight == \A j \in WarmUpJobs : submit[j] \in {"new"} \cup Answers
WarmUpRefused == \E j \in WarmUpJobs : submit[j] \in Answers \ {"value"}

\* The next turn of the loop over _WARMUP_MODELS.
WarmUp ==
    /\ life = "starting"
    /\ NoWarmUpInFlight
    /\ RunLogWorks
    /\ \E i \in 1..Len(WarmUps) :
          /\ i = WarmedUp + 1
          /\ Enqueue(WarmUps[i]) \/ RefuseFull(WarmUps[i]) \/ RefuseNotRunning(WarmUps[i])
    /\ UNCHANGED webVars
    /\ KeepLogs /\ SameDisk

\* A warm-up raised: the finally clause closes the scheduler.
WarmUpFails ==
    /\ life = "starting"
    /\ WarmUpRefused
    /\ RunLogWorks
    /\ Close
    /\ life' = "unwinding"
    /\ UNCHANGED <<server, request, code, line, traced>>
    /\ KeepLogs /\ SameDisk

\* The yield; Uvicorn begins to serve.
BugReady ==
    /\ life = "starting"
    /\ LoopFree /\ LoopRuns
    /\ NoWarmUpInFlight
    /\ RunLogWorks
    /\ life' = "ready"
    /\ server' = "serving"
    /\ UNCHANGED <<vars, request, code, line, traced>>
    /\ KeepLogs /\ SameDisk
Ready ==
    /\ life = "starting"
    /\ LoopFree /\ LoopRuns
    /\ WarmedUp = Len(WarmUps)
    /\ RunLogWorks
    /\ life' = "ready"
    /\ server' = "serving"
    /\ UNCHANGED <<vars, request, code, line, traced>>
    /\ KeepLogs /\ SameDisk

------------------------------------------------------------------------------
(***************************************************************************)
(* tokenizer_access_log() around token_count()                             *)
(***************************************************************************)
Serves == server = "serving" /\ LoopFree /\ LoopRuns

\* A request comes and is handed to submit.
Arrive(r) ==
    /\ Serves
    /\ request[r] = "away"
    /\ Enqueue(r) \/ RefuseFull(r) \/ RefuseNotRunning(r)
    /\ request' = [request EXCEPT ![r] = "handling"]
    /\ UNCHANGED <<life, server, code, line, traced>>
    /\ UNCHANGED logVars

\* A request that does not reach the handler has an answer already.
RefuseEarly(r) ==
    /\ Serves
    /\ request[r] = "away"
    /\ request' = [request EXCEPT ![r] = "replied"]
    /\ code' = [code EXCEPT ![r] = "unrouted"]
    /\ UNCHANGED <<vars, life, server, line, traced>>
    /\ UNCHANGED logVars

\* The except clauses of token_count: the code of what submit returned or raised.
CodesOf(answer) ==
    CASE answer = "value" -> {"ok"}
      [] answer \in Refusals -> {answer}
      [] answer = "error" -> ErrorsOfTheCall
      [] answer = "not_running" -> {"server_error"}
      [] OTHER -> {}

\* The handler returns, or raises the APIError of the reply.
Reply(r) ==
    /\ request[r] = "handling"
    /\ \E c \in CodesOf(submit[r]) :
          /\ c = "server_error" => RunLogWorks
          /\ code' = [code EXCEPT ![r] = c]
          /\ traced' = IF c = "server_error" THEN traced \cup {r} ELSE traced
    /\ request' = [request EXCEPT ![r] = "replied"]
    /\ UNCHANGED <<vars, life, server, line>>
    /\ UNCHANGED logVars

\* A lone surrogate cannot be encoded.  If bodies are logged, this is noticed before the
\* try of the handler; otherwise when api_error_handler answers with an error that quotes
\* it, an unknown model for one.  The exception passes the middleware.
Noticed(r) == IF LogBodies THEN Serves /\ request[r] = "away"
              ELSE /\ LoopFree /\ LoopRuns
                   /\ request[r] = "handling" /\ "client_error" \in CodesOf(submit[r])
Unencodable(r) ==
    /\ Noticed(r)
    /\ request' = [request EXCEPT ![r] = "failing"]
    /\ code' = [code EXCEPT ![r] = "unhandled"]
    /\ UNCHANGED <<vars, life, server, line, traced>>
    /\ UNCHANGED logVars

\* Uvicorn answers 500 and writes the exception to the run log.
ReportException(r) ==
    /\ request[r] = "failing"
    /\ RunLogWorks
    /\ request' = [request EXCEPT ![r] = "lost"]
    /\ UNCHANGED <<vars, life, server, code, line, traced>>
    /\ UNCHANGED logVars

\* log_access: the line of the request, and its response.
BugWriteLine(r) ==
    /\ request[r] = "replied"
    /\ AccessLogWorks
    /\ line' = [line EXCEPT ![r] = IF code[r] = "unrouted" THEN "ok" ELSE code[r]]
    /\ request' = [request EXCEPT ![r] = "logged"]
    /\ UNCHANGED <<vars, life, server, code, traced>>
    /\ UNCHANGED logVars
WriteLine(r) ==
    /\ request[r] = "replied"
    /\ AccessLogWorks
    /\ line' = [line EXCEPT ![r] = code[r]]
    /\ request' = [request EXCEPT ![r] = "logged"]
    /\ UNCHANGED <<vars, life, server, code, traced>>
    /\ UNCHANGED logVars

\* A lone surrogate in the model of a request that was refused before anybody looked at
\* it: the handler of the access log cannot encode the line and reports that to
\* sys.stderr, which is the run log.
Unresolved == IF LogBodies THEN {} ELSE Refusals \cup {"not_running"}
LoseLine(r) ==
    /\ request[r] = "replied"
    /\ submit[r] \in Unresolved
    /\ RunLogWorks
    /\ request' = [request EXCEPT ![r] = "logged"]
    /\ UNCHANGED <<vars, life, server, code, line, traced>>
    /\ UNCHANGED logVars

\* submit raised CancelledError, which no clause catches: call_next raises.
Lose(r) ==
    /\ request[r] = "handling"
    /\ submit[r] = "cancelled"
    /\ request' = [request EXCEPT ![r] = "lost"]
    /\ UNCHANGED <<vars, life, server, code, line, traced>>
    /\ UNCHANGED logVars

\* Uvicorn left and the task of the request is cancelled behind the handler.
DropReply(r) ==
    /\ server = "killed"
    /\ request[r] \in {"replied", "failing"}
    /\ request' = [request EXCEPT ![r] = "lost"]
    /\ UNCHANGED <<vars, life, server, code, line, traced>>
    /\ UNCHANGED logVars

------------------------------------------------------------------------------
(***************************************************************************)
(* The end: lifespan() behind its yield                                    *)
(***************************************************************************)
\* A signal: no new requests.
Signal ==
    /\ Serves
    /\ server' = "draining"
    /\ UNCHANGED <<vars, life, request, code, line, traced>>
    /\ UNCHANGED logVars

\* A second signal (or one during the warm-up, seen when it is over).
Kill ==
    /\ server \in {"serving", "draining"}
    /\ life = "ready"
    /\ server' = "killed"
    /\ UNCHANGED <<vars, life, request, code, line, traced>>
    /\ UNCHANGED logVars

InFlight == {r \in Requests : request[r] \in {"handling", "replied", "failing"}}

\* Uvicorn ends the lifespan when every request is answered.
BugEndLife ==
    /\ life = "ready"
    /\ server = "draining"
    /\ RunLogWorks
    /\ Close
    /\ life' = "closing"
    /\ UNCHANGED <<server, request, code, line, traced>>
    /\ UNCHANGED logVars
EndLife ==
    /\ life = "ready"
    /\ server = "draining"
    /\ InFlight = {}
    /\ RunLogWorks
    /\ Close
    /\ life' = "closing"
    /\ UNCHANGED <<server, request, code, line, traced>>
    /\ UNCHANGED logVars

\* CancelledError is raised at the yield.
CancelLife ==
    /\ life = "ready"
    /\ server = "killed"
    /\ RunLogWorks
    /\ Close
    /\ life' = "unwinding"
    /\ UNCHANGED <<server, request, code, line, traced>>
    /\ UNCHANGED logVars

\* scheduler.close() returned, and what raised is raised again.
Released ==
    /\ life \in {"closing", "unwinding"}
    /\ Joined
    /\ ReleaseAccessLog
    /\ life' = IF life = "closing" THEN "ended" ELSE "failed"
    /\ UNCHANGED <<server, request, code, line, traced>>
    /\ SameDisk

\* scheduler.close() raised: the access handlers are left.
Unreleased ==
    /\ life \in {"closing", "unwinding"}
    /\ CloseFails
    /\ life' = "failed"
    /\ UNCHANGED <<server, request, code, line, traced>>
    /\ KeepLogs /\ SameDisk

------------------------------------------------------------------------------
(***************************************************************************)
(* The disk                                                                *)
(***************************************************************************)
DiskFills == disk = "writable" /\ disk' = "full"
DiskFreed == disk = "full" /\ disk' = "freed"
DiskStep == (DiskFills \/ DiskFreed) /\ UNCHANGED <<vars, webVars, handler, open, blocked>>

\* What the loop is about to log in the run log.
RunLogDue ==
    \/ life = "off"
    \/ life = "starting" /\ NoWarmUpInFlight
    \/ life = "ready" /\ (server = "killed" \/ (server = "draining" /\ InFlight = {}))
    \/ \E r \in Requests :
          \/ request[r] = "handling" /\ "server_error" \in CodesOf(submit[r])
          \/ request[r] = "replied" /\ submit[r] \in Unresolved
          \/ request[r] = "failing"

AccessLogDue == \E r \in Requests : request[r] = "replied"

LoopBlocks ==
    /\ LoopFree /\ LoopRuns
    /\ \/ ~RunLogWorks /\ RunLogDue
       \/ ~AccessLogWorks /\ AccessLogDue
    /\ blocked' = blocked \cup {"loop"}
    /\ UNCHANGED <<vars, webVars, handler, open, disk>>

\* The thread prints, or a library it runs warns.
ThreadBlocks ==
    /\ thread # None
    /\ ~RunLogWorks
    /\ "thread" \notin blocked
    /\ blocked' = blocked \cup {"thread"}
    /\ UNCHANGED <<vars, webVars, handler, open, disk>>

------------------------------------------------------------------------------
LifespanStep ==
    \/ Startup \/ RunLogFails \/ StartupFails \/ AccessLogFails \/ ReportFailure
    \/ WarmUp \/ WarmUpFails \/ Ready
    \/ EndLife \/ CancelLife \/ Released \/ Unreleased

Continue(r) ==
    /\ LoopFree /\ LoopRuns
    /\ \/ Reply(r) \/ ReportException(r)
       \/ WriteLine(r) \/ LoseLine(r)
       \/ Lose(r) \/ DropReply(r)

RequestStep(r) == Arrive(r) \/ RefuseEarly(r) \/ Unencodable(r) \/ Continue(r)

UvicornStep == LoopFree /\ LoopRuns /\ (Signal \/ Kill)

\* The steps of the scheduler that no step above is part of.
Resume(j) == ObserveStart(j) \/ RaiseTimeout(j) \/ RaiseAbort(j) \/ ObserveClose(j) \/ Deliver(j)

\* asyncio.run cancels the tasks of the requests and the consumer task.
Teardown ==
    /\ server = "killed"
    /\ \/ \E r \in Requests : Abort(r) \/ AbortExecuting(r)
       \/ CancelIdle
       \/ CancelExecuting

SchedulerStep ==
    /\ LoopRuns
    /\ \/ \E j \in Jobs : Resume(j) \/ Expire(j)
       \/ Wake \/ Finish \/ Shutdown
       \/ Teardown
    /\ UNCHANGED <<webVars, logVars>>

ExecutorStep == "thread" \notin blocked /\ ThreadStep /\ UNCHANGED <<webVars, logVars>>

\* Nothing is left to do, or nothing can be done.
LifeQuiet ==
    /\ blocked # {} \/ (life \in {"ended", "failed"} /\ InFlight = {} /\ thread = None)
    /\ UNCHANGED lifeVars

LifeNext ==
    \/ LoopRuns /\ LifespanStep
    \/ \E r \in Requests : RequestStep(r)
    \/ UvicornStep
    \/ SchedulerStep
    \/ ExecutorStep
    \/ DiskStep
    \/ LoopBlocks
    \/ ThreadBlocks
    \/ LifeQuiet

LifeSpec == LifeInit /\ [][LifeNext]_lifeVars

\* What is due: the steps that wait for nothing outside the process.
LoopDue ==
    \/ LoopRuns /\ LifespanStep
    \/ \E r \in Requests : Continue(r)
    \/ SchedulerStep /\ (Wake \/ Finish \/ Shutdown \/ \E j \in Jobs : Resume(j))
    \/ LoopBlocks

\* Uvicorn starts the lifespan, the loop does not rest while something is due, and
\* the thread ends its calls (or blocks).  Nothing is assumed of requests,
\* signals, timers, the disk and the cancellations at the end, nor of the order
\* in which the loop takes what is due: every call needs finitely many steps.
LifeFairness == WF_lifeVars(LoopDue) /\ WF_lifeVars(ExecutorStep)

FairLifeSpec == LifeSpec /\ LifeFairness

------------------------------------------------------------------------------
\* The status of /health.
HealthStatus(overrun) ==
    CASE HealthFailureReason(overrun) = "ok" -> 200
      [] HealthFailureReason(overrun) = "execution_timeout" -> 504
      [] OTHER -> 503

------------------------------------------------------------------------------
(***************************************************************************)
(* Properties                                                              *)
(***************************************************************************)
\* The state has the expected shape.
LifeTypeOK ==
    /\ TypeOK
    /\ life \in LifeStates
    /\ server \in {"down", "serving", "draining", "killed"}
    /\ request \in [Requests -> RequestStates]
    /\ code \in [Requests -> Codes]
    /\ line \in [Requests -> Codes]
    /\ traced \subseteq Requests
    /\ handler \in [Loggers -> {"none", "main", "run", "access"}]
    /\ open \subseteq {"main", "run", "access"}
    /\ disk \in {"writable", "full", "freed"}
    /\ blocked \subseteq {"loop", "thread"}

\* While Uvicorn hands out requests every warm-up has succeeded and /health answers
\* 200 as long as no call runs too long: 503 is never seen by a client that is
\* served (api.py:82-103, 283-298; README.md:39).
ServingIsHealthy ==
    server = "serving" =>
        /\ \A j \in WarmUpJobs : submit[j] = "value"
        /\ HealthStatus(FALSE) = 200
        /\ HealthStatus(TRUE) # 503

\* The end of the service never meets a request, unless a second signal cuts it
\* short: no request finds the scheduler closed or is cancelled by close, and
\* no other request goes without its answer (api.py:107-110, 190).
EndMeetsNobody ==
    server # "killed" =>
        \A r \in Requests :
            /\ submit[r] \notin {"not_running", "cancelled"}
            /\ request[r] = "lost" => code[r] = "unhandled"

\* The line of a request tells what became of it: a count only if the call
\* returned one, queue_full and queue_timeout for the calls the scheduler refused
\* for that reason, an error of the handler only for a call that raised or found
\* no scheduler; and exactly the answers 500 have a traceback in run.log
\* (api.py:240-280, README.md:108).
LineIsTrue ==
    \A r \in Requests : line[r] # "none" =>
        /\ line[r] = "ok" <=> (submit[r] = "value" /\ work[r] = "value")
        /\ line[r] \in Refusals \/ submit[r] \in Refusals => line[r] = submit[r]
        /\ line[r] \in ErrorsOfTheCall => submit[r] \in {"error", "not_running"}
        /\ line[r] = "unrouted" <=> submit[r] = "new"
        /\ line[r] = "server_error" <=> r \in traced

\* However the lifespan ends, a scheduler it made is closed; unless its close
\* raised, which takes a second signal, no thread and no access handler is left.
\* No logger has a handler that was closed but when the run log could not be opened
\* again at the start: then there is no scheduler and nothing was served, and only the
\* root and Uvicorn's loggers have it (api.py:65, 104-114, run_logging.py:67-112).
EverythingReleased ==
    /\ \/ \A l \in Loggers : handler[l] \in open \cup {"none"}
       \/ /\ life = "failed" /\ server = "down" /\ consumer = "none"
          /\ \A j \in Jobs : submit[j] = "new"
          /\ \A l \in {"run", "access"} : handler[l] = "none"
    /\ life \in {"ended", "failed"} /\ consumer # "none" => closed
    /\ life \in {"ended", "failed"} /\ closed =>
          \/ closer = "closed" /\ handler["access"] = "none" /\ thread = None /\ backlog = <<>>
          \/ closer = "failed" /\ server = "killed"

\* Start-up ends (ready or failed) and so does shutdown, or a log blocks for ever
\* (api.py:63-114).
LifespanMovesOn ==
    life \in {"starting", "closing", "unwinding"} ~>
        life \in {"ready", "ended", "failed"} \/ blocked # {}

\* A request that came in is answered, or is lost to a second signal, or a log blocks
\* for ever (api.py:175-214).
EveryRequestEnds ==
    \A r \in Requests :
        request[r] \in {"handling", "replied", "failing"} ~>
            request[r] \in {"logged", "lost"} \/ blocked # {}

------------------------------------------------------------------------------
(***************************************************************************)
(* What the documentation says and the code does not do.                   *)
(***************************************************************************)
\* README.md, GET /health: the route only reads the scheduler and answers, so
\* that the loop can always serve it.
HealthAnswers == server = "serving" => LoopRuns
=============================================================================
