---------------------------- MODULE ModelRouter ----------------------------
(***************************************************************************)
(* The local model router (packages/model_router/app.py): a threaded HTTP  *)
(* server whose request threads share one configuration object, which each *)
(* of them loads again from the file before it routes.  And the commands   *)
(* that start and stop it (service.py), which know it by a pid file.       *)
(*                                                                         *)
(* A configuration is the version of the file it was read from; its        *)
(* upstream, key and models are fields of that version.                    *)
(***************************************************************************)
EXTENDS Integers, FiniteSets, Sequences

CONSTANTS
    Requests,        \* request threads, one request each
    Operators,       \* who runs the commands of service.py
    Orderly,         \* TRUE: routers boot while start waits, and run comes when nothing is at work
    MaxEdits,        \* bound: edits of the configuration file
    MaxRouterFaults, \* bound: failing audits, clients gone, routers that die or hang
    MaxPids          \* bound: router processes ever spawned

ASSUME RouterAssumption ==
    MaxEdits \in Nat /\ MaxRouterFaults \in Nat /\ MaxPids \in Nat /\ Orderly \in BOOLEAN

VARIABLES
    configFile,  \* config.yaml: a version, or unreadable
    loaded,      \* RouterConfig.data
    edits,
    req,         \* request threads
    rows,        \* audit rows of each request
    answers,     \* history: the answers each client received
    routerFaults,
    proc,        \* router processes, [pid -> state]
    pidfile,
    op,          \* commands at work
    reported     \* history: what start has reported

requestVars == <<configFile, loaded, edits, req, rows, answers>>
serviceVars == <<proc, pidfile, op, reported>>
routerVars == <<requestVars, routerFaults, serviceVars>>

None == 0
Unreadable == [version |-> -1]

\* Version n of the file; the second leaves default_model out, the third switches routing off.
Version(n) == [version |-> n, base |-> n, key |-> n, enabled |-> n # 3,
               default |-> IF n = 2 THEN None ELSE n, work |-> n]

-----------------------------------------------------------------------------
(* decide_route *)

Payloads == [model : {"virtual", "explicit"}, bucket : {"none", "task", "daily", "sex", "other"}]

\* The bucket of the state machine decides; without one, an explicit model stays.
DecideRoute(p, c) ==
    LET default == [route |-> "default", model |-> c.default] IN
    IF ~c.enabled THEN default
    ELSE CASE p.bucket = "task"  -> [route |-> "technical", model |-> c.work]
           [] p.bucket = "daily" -> default
           [] p.bucket = "sex"   -> [route |-> "sex", model |-> c.default]
           [] p.bucket \in {"none", "other"} /\ p.model = "virtual" -> default
           [] OTHER -> [route |-> "explicit", model |-> p.model]

-----------------------------------------------------------------------------
(* do_POST and _forward, one thread *)

NewRequest(p) == [pc |-> "start", payload |-> p, text |-> Unreadable, base |-> None, key |-> None,
                  decision |-> [route |-> "none", model |-> None], status |-> None,
                  gone |-> FALSE, called |-> FALSE]

RouterInit ==
    /\ configFile = Version(1) /\ loaded = configFile /\ edits = 0
    /\ \E p \in Payloads : req = [t \in Requests |-> NewRequest(p)]
    /\ rows = [t \in Requests |-> <<>>] /\ answers = [t \in Requests |-> <<>>]
    /\ routerFaults = 0
    /\ proc = <<>> /\ pidfile = None
    /\ op = [o \in Operators |-> [pc |-> "idle", pid |-> None]]
    /\ reported = {}

RouterFault == routerFaults < MaxRouterFaults /\ routerFaults' = routerFaults + 1

EditConfig ==
    /\ edits < MaxEdits
    /\ edits' = edits + 1
    /\ configFile' \in {Version(1 + edits'), Unreadable}
    /\ UNCHANGED <<loaded, req, rows, answers, routerFaults, serviceVars>>

ClientGone(t) ==
    /\ RouterFault
    /\ ~req[t].gone
    /\ req' = [req EXCEPT ![t].gone = TRUE]
    /\ UNCHANGED <<configFile, loaded, edits, rows, answers, serviceVars>>

Goto(t, pc) == req' = [req EXCEPT ![t].pc = pc]

\* RouterConfig.reload reads the file and then sets the shared object.
ReadConfig(t) ==
    /\ req[t].pc = "start"
    /\ IF configFile = Unreadable THEN Goto(t, "outer")
                            ELSE req' = [req EXCEPT ![t].pc = "set", ![t].text = configFile]
    /\ UNCHANGED <<configFile, loaded, edits, rows, answers, routerFaults, serviceVars>>

SetConfig(t) ==
    /\ req[t].pc = "set"
    /\ loaded' = req[t].text
    /\ Goto(t, "upstream")
    /\ UNCHANGED <<configFile, edits, rows, answers, routerFaults, serviceVars>>

\* Fault: the section is taken once for the base and once more for the key.
UpstreamTwice(t) ==
    /\ \/ req[t].pc = "upstream" /\ req' = [req EXCEPT ![t].pc = "key", ![t].base = loaded.base]
       \/ req[t].pc = "key" /\ req' = [req EXCEPT ![t].pc = "decide", ![t].key = loaded.key]
    /\ UNCHANGED <<configFile, loaded, edits, rows, answers, routerFaults, serviceVars>>

\* upstream() takes the section once: base and key of one version.
Upstream(t) ==
    /\ req[t].pc = "upstream"
    /\ req' = [req EXCEPT ![t].pc = "decide", ![t].base = loaded.base, ![t].key = loaded.key]
    /\ UNCHANGED <<configFile, loaded, edits, rows, answers, routerFaults, serviceVars>>

\* A configuration without default_model cannot route at all.
Decide(t) ==
    /\ req[t].pc = "decide"
    /\ IF loaded.default = None THEN Goto(t, "outer")
       ELSE req' = [req EXCEPT ![t].pc = "call", ![t].decision = DecideRoute(req[t].payload, loaded)]
    /\ UNCHANGED <<configFile, loaded, edits, rows, answers, routerFaults, serviceVars>>

\* An HTTP error of the upstream is its answer; a timeout or lost connection is not.
CallUpstream(t) ==
    /\ req[t].pc = "call"
    /\ \/ \E code \in {200, 429} :
            req' = [req EXCEPT ![t].pc = "audit", ![t].status = code, ![t].called = TRUE]
       \/ req' = [req EXCEPT ![t].pc = "inner"]
    /\ UNCHANGED <<configFile, loaded, edits, rows, answers, routerFaults, serviceVars>>

Row(t, code) == [model |-> req[t].decision.model, status |-> code]

\* A row is appended and the thread goes on, or the file cannot be written.
Audit(t, row, onward, onFailure) ==
    \/ /\ rows' = [rows EXCEPT ![t] = Append(@, row)]
       /\ Goto(t, onward)
       /\ UNCHANGED <<configFile, loaded, edits, answers, routerFaults, serviceVars>>
    \/ /\ RouterFault
       /\ Goto(t, onFailure)
       /\ UNCHANGED <<configFile, loaded, edits, rows, answers, serviceVars>>

\* Fault: a row that cannot be written does not keep the answer back.
AuditCallLoose(t) == req[t].pc = "audit" /\ Audit(t, Row(t, req[t].status), "send", "send")

AuditCall(t) == req[t].pc = "audit" /\ Audit(t, Row(t, req[t].status), "send", "inner")
AuditInner(t) == req[t].pc = "inner" /\ Audit(t, Row(t, None), "sendError", "outer")
AuditOuter(t) == req[t].pc = "outer" /\ Audit(t, [model |-> None, status |-> None], "sendLast", "closed")

\* To a client that is gone nothing can be sent.
Send(t, pc, code, onFailure) ==
    /\ req[t].pc = pc
    /\ IF req[t].gone
         THEN Goto(t, onFailure) /\ UNCHANGED answers
         ELSE Goto(t, "done") /\ answers' = [answers EXCEPT ![t] = Append(@, code)]
    /\ UNCHANGED <<configFile, loaded, edits, rows, routerFaults, serviceVars>>

SendAnswer(t) == Send(t, "send", req[t].status, "outer")
SendError(t) == Send(t, "sendError", 502, "outer")
SendLast(t) == Send(t, "sendLast", 502, "closed")

\* /health and /v1/models load the configuration as well.
Health ==
    /\ configFile # Unreadable /\ loaded # configFile
    /\ loaded' = configFile
    /\ UNCHANGED <<configFile, edits, req, rows, answers, routerFaults, serviceVars>>

RequestNext ==
    \/ EditConfig \/ Health
    \/ \E t \in Requests :
         \/ ClientGone(t) \/ ReadConfig(t) \/ SetConfig(t) \/ Upstream(t) \/ Decide(t) \/ CallUpstream(t)
         \/ AuditCall(t) \/ AuditInner(t) \/ AuditOuter(t) \/ SendAnswer(t) \/ SendError(t) \/ SendLast(t)

-----------------------------------------------------------------------------
(* service.py *)

Serving == {p \in DOMAIN proc : proc[p] = "serving"}
OpTo(o, pc, pid) == op' = [op EXCEPT ![o] = [pc |-> pc, pid |-> pid]]

\* A process that finds the port taken ends; a router may also die or hang for a while.
Boot(p) ==
    /\ proc[p] = "booting"
    /\ proc' = [proc EXCEPT ![p] = IF Serving = {} THEN "serving" ELSE "dead"]
    /\ UNCHANGED <<requestVars, routerFaults, pidfile, op, reported>>

Die(p) ==
    /\ RouterFault
    /\ proc[p] # "dead"
    /\ proc' = [proc EXCEPT ![p] = "dead"]
    /\ UNCHANGED <<requestVars, pidfile, op, reported>>

\* Fault: the health of a router that runs already is not asked first.
StartBlind(o) ==
    /\ op[o].pc = "idle"
    /\ Len(proc) < MaxPids
    /\ pidfile' = None
    /\ OpTo(o, "spawn", None)
    /\ UNCHANGED <<requestVars, routerFaults, proc, reported>>

StartRouter(o) ==
    /\ op[o].pc = "idle" /\ Serving = {}
    /\ Len(proc) < MaxPids
    /\ pidfile' = None
    /\ OpTo(o, "spawn", None)
    /\ UNCHANGED <<requestVars, routerFaults, proc, reported>>

Spawn(o) ==
    /\ op[o].pc = "spawn" /\ Len(proc) < MaxPids
    /\ proc' = Append(proc, "booting")
    /\ pidfile' = Len(proc')
    /\ OpTo(o, "wait", Len(proc'))
    /\ UNCHANGED <<requestVars, routerFaults, reported>>

\* Some router answers: the one just spawned is reported to have started.
StartSeen(o) ==
    /\ op[o].pc = "wait" /\ Serving # {}
    /\ reported' = reported \cup {[pid |-> op[o].pid, serves |-> op[o].pid \in Serving, file |-> pidfile]}
    /\ OpTo(o, "idle", None)
    /\ UNCHANGED <<requestVars, routerFaults, proc, pidfile>>

\* It has ended, or has not answered in fifty tries: the pid file goes.
StartGivenUp(o) ==
    /\ op[o].pc = "wait" /\ Serving = {}
    /\ Orderly => proc[op[o].pid] = "dead"
    /\ pidfile' = None
    /\ OpTo(o, "idle", None)
    /\ UNCHANGED <<requestVars, routerFaults, proc, reported>>

\* kill fails on a process that is gone, and the file stays.
StopRouter(o) ==
    /\ op[o].pc = "idle" /\ pidfile # None
    /\ IF proc[pidfile] # "dead"
         THEN proc' = [proc EXCEPT ![pidfile] = "dead"] /\ pidfile' = None
         ELSE UNCHANGED <<proc, pidfile>>
    /\ UNCHANGED <<requestVars, routerFaults, op, reported>>

\* run: the process of the scheduled task writes its own pid, and its end removes the file.
RunForeground ==
    /\ Len(proc) < MaxPids
    /\ Orderly => (\A p \in DOMAIN proc : proc[p] = "dead") /\ (\A o \in Operators : op[o].pc = "idle")
    /\ proc' = Append(proc, IF Serving = {} THEN "serving" ELSE "dead")
    /\ pidfile' = IF Serving = {} THEN Len(proc') ELSE None
    /\ UNCHANGED <<requestVars, routerFaults, op, reported>>

ServiceNext ==
    \/ \E p \in DOMAIN proc : Boot(p) \/ Die(p)
    \/ \E o \in Operators : StartRouter(o) \/ Spawn(o) \/ StartSeen(o) \/ StartGivenUp(o) \/ StopRouter(o)
    \/ RunForeground

RouterNext == RequestNext \/ ServiceNext

RouterSpec == RouterInit /\ [][RouterNext]_routerVars

-----------------------------------------------------------------------------
(* Properties *)

RouterTypeOK ==
    /\ routerFaults \in 0..MaxRouterFaults /\ edits \in 0..MaxEdits
    /\ pidfile \in 0..MaxPids /\ Len(proc) <= MaxPids
    /\ \A t \in Requests : Len(rows[t]) <= 3

(***************************************************************************)
(* A key is only ever sent to the upstream that the same version of the    *)
(* configuration names, whatever other threads load meanwhile              *)
(* (RouterConfig.upstream).                                                *)
(***************************************************************************)
KeyGoesHome == \A t \in Requests : req[t].called => req[t].base = req[t].key

(***************************************************************************)
(* A client gets at most one answer, and the answer it gets is the one     *)
(* that the last row of its request records: the upstream's status with    *)
(* the model it was forwarded to, or an error, through every combination   *)
(* of failing audits, calls and sends (do_POST, _forward).                 *)
(***************************************************************************)
AnswerIsAudited ==
    \A t \in Requests :
        /\ Len(answers[t]) <= 1
        /\ answers[t] # <<>> =>
             LET row == rows[t][Len(rows[t])] IN
               /\ rows[t] # <<>>
               /\ answers[t][1] = 502 <=> row.status = None
               /\ answers[t][1] # 502 => row = [model |-> req[t].decision.model, status |-> answers[t][1]]

\* The process that start reports is the router that serves, and the pid file names
\* it: with one operator, when Orderly (service.start, stop, run_foreground).
OneOperator == \A o, u \in Operators : o = u
StartedIsOurs == Orderly /\ OneOperator => \A r \in reported : r.serves /\ r.file = r.pid

(***************************************************************************)
(* Not kept.  "every chat/completions request is routed fresh" (app.py:7): *)
(* a thread that read an older file may set the shared object last.  And   *)
(* an upstream's success whose audit row cannot be written is answered     *)
(* with 502.                                                               *)
(***************************************************************************)
RoutedFresh ==
    \A t \in Requests :
        req[t].pc = "call" /\ req[t].decision.route = "technical" => req[t].decision.model >= req[t].text.version
SuccessIsAnswered == \A t \in Requests : answers[t] = <<502>> => ~req[t].called
=============================================================================
