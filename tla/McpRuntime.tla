----------------------------- MODULE McpRuntime -----------------------------
(***************************************************************************)
(* One MCP source of the runtime (src/app/mcp_runtime.py) and its clients  *)
(* (src/app/tools/mcp_client.py).  A client owns a task that takes         *)
(* commands from a queue and talks to the server; health probes, the       *)
(* application's start and stop, and tool calls send it commands and give  *)
(* up on them after a time-out, while the task may go on.  The tools an    *)
(* agent was handed keep referring to the client that listed them, also    *)
(* after the runtime has replaced it.                                      *)
(*                                                                         *)
(* The server and the network are external: until calm they may refuse,    *)
(* break a session with the answer to a request lost, or never answer.     *)
(***************************************************************************)
EXTENDS Naturals, Sequences, FiniteSets

CONSTANTS
    Clients,    \* identities of HyruleMCPClient objects, reused once unreferenced
    Calls,      \* tool calls, each made at most once
    Probers,    \* tasks that run live_health
    Boot,       \* the lifespan task: connect_tools, later disconnect
    NoClient, Nobody

ASSUME RolesAreDistinct ==
    /\ Calls \cap Probers = {}
    /\ Boot \notin Calls \cup Probers
    /\ NoClient \notin Clients
    /\ Nobody \notin Calls \cup Probers \cup {Boot}

VARIABLES
    client,     \* the client objects
    source,     \* clients[source], tools_by_source[source], states[source]
    lock,       \* holder of the source's lock
    ask,        \* what each task is doing, the client it asked, the reply
    execs,      \* times the server executed a call
    calm,       \* the server and the network behave from now on
    healthUrl   \* a health_url is configured

vars == <<client, source, lock, ask, execs, calm, healthUrl>>

Askers == Calls \cup Probers \cup {Boot}

\* What a task may be waiting for an owner to reply to.
Commands == {"CONNECT", "LIST_TOOLS", "CALL_TOOL", "HEALTH", "RECONNECT", "SHUTDOWN"}

NoCommand == [kind |-> "none", by |-> Nobody]

NewClient ==
    [running |-> FALSE, ending |-> FALSE, session |-> FALSE, backoff |-> FALSE,
     step |-> "idle", again |-> FALSE, cmd |-> NoCommand, queue |-> <<>>]

NotConnected == [client |-> NoClient, tools |-> NoClient, ready |-> FALSE, count |-> 0]

At(place) == [at |-> place, on |-> NoClient, reply |-> "none"]

Asking(kind, c) == [at |-> kind, on |-> c, reply |-> "none"]

\* Where a task rests when it holds no lock and waits for nothing.
Rest(a) == At(IF a = Boot THEN "up" ELSE "idle")

Init ==
    /\ client = [c \in Clients |-> NewClient]
    /\ source = NotConnected
    /\ lock = Nobody
    /\ ask = [a \in Askers |-> At(IF a = Boot THEN "boot" ELSE "idle")]
    /\ execs = [k \in Calls |-> 0]
    /\ calm = FALSE
    /\ healthUrl \in BOOLEAN

-----------------------------------------------------------------------------
(* The owner task of a client. *)

\* An abandoned command is answered into a closed stream: nobody notices.
Answered(asks, cmd, c, reply) ==
    IF cmd.by \in Askers /\ asks[cmd.by] = Asking(cmd.kind, c)
    THEN [asks EXCEPT ![cmd.by].reply = reply]
    ELSE asks

Reply(c, reply) == ask' = Answered(ask, client[c].cmd, c, reply)

Send(c, kind, a) ==
    [client[c] EXCEPT !.queue = Append(@, [kind |-> kind, by |-> a])]

\* connect(): a new owner task whose first command is CONNECT.
Opened(record, a) ==
    [record EXCEPT !.running = TRUE, !.step = "idle", !.cmd = NoCommand, !.session = FALSE,
                   !.queue = <<[kind |-> "CONNECT", by |-> a]>>]

\* The owner is cancelled, or left its loop; its last act is still to come.
\* Commands left in its queue are never answered, and what it was retrying is
\* not taken up by the next owner.
Cancelled(record) ==
    [record EXCEPT !.running = FALSE, !.ending = TRUE, !.step = "idle", !.again = FALSE,
                   !.cmd = NoCommand, !.queue = <<>>, !.session = FALSE]

Finished(record) == [record EXCEPT !.step = "idle", !.cmd = NoCommand, !.again = FALSE]

Idling(c) ==
    /\ client[c].running
    /\ client[c].step = "idle"
    /\ client[c].queue # <<>>

\* SHUTDOWN closes the client to new commands and fails the pending ones; the
\* session is closed a little later, by EndOwner.
TakeShutdown(c) ==
    /\ Idling(c)
    /\ Head(client[c].queue).kind = "SHUTDOWN"
    /\ ask' = [a \in Askers |->
                 IF ask[a].on # c \/ ask[a].at \notin Commands \/ ask[a].reply # "none" THEN ask[a]
                 ELSE [ask[a] EXCEPT !.reply = IF a = Head(client[c].queue).by THEN "ok" ELSE "error"]]
    /\ client' = [client EXCEPT ![c] = [Cancelled(@) EXCEPT !.session = client[c].session,
                                                           !.backoff = FALSE]]
    /\ UNCHANGED <<source, lock, execs, calm, healthUrl>>

\* During the reconnect back-off a request is refused without being tried.
Refuse(c) ==
    /\ Idling(c)
    /\ Head(client[c].queue).kind \in {"LIST_TOOLS", "CALL_TOOL", "HEALTH"}
    /\ client[c].backoff
    /\ ask' = Answered(ask, Head(client[c].queue), c, "error")
    /\ client' = [client EXCEPT ![c].queue = Tail(@)]
    /\ UNCHANGED <<source, lock, execs, calm, healthUrl>>

\* CONNECT and RECONNECT close the session and do not look at the back-off; a
\* request without a session connects first.
Take(c) ==
    /\ Idling(c)
    /\ LET cmd     == Head(client[c].queue)
           connect == cmd.kind \in {"CONNECT", "RECONNECT"}
       IN  /\ cmd.kind # "SHUTDOWN"
           /\ connect \/ ~client[c].backoff
           /\ client' = [client EXCEPT
                ![c].cmd = cmd,
                ![c].queue = Tail(@),
                ![c].session = @ /\ ~connect,
                ![c].backoff = FALSE,
                ![c].step = IF connect \/ ~client[c].session THEN "connect" ELSE "request"]
    /\ UNCHANGED <<source, lock, ask, execs, calm, healthUrl>>

Connects(c) ==
    /\ client[c].step = "connect"
    /\ IF client[c].cmd.kind \in {"CONNECT", "RECONNECT"}
         THEN /\ Reply(c, "ok")
              /\ client' = [client EXCEPT ![c] = [Finished(@) EXCEPT !.session = TRUE]]
         ELSE /\ client' = [client EXCEPT ![c].session = TRUE, ![c].step = "request"]
              /\ UNCHANGED ask
    /\ UNCHANGED <<source, lock, execs, calm, healthUrl>>

\* The connection fails: back-off, and the error goes to the caller, also when
\* this was the reconnect of a retried request.
ConnectFails(c) ==
    /\ ~calm
    /\ client[c].step = "connect"
    /\ Reply(c, "error")
    /\ client' = [client EXCEPT ![c] = [Finished(@) EXCEPT !.session = FALSE, !.backoff = TRUE]]
    /\ UNCHANGED <<source, lock, execs, calm, healthUrl>>

\* Whether the server did what the request asks, when the request is a call.
Executed(c, done) ==
    LET cmd == client[c].cmd
    IN  execs' = IF done /\ cmd.kind = "CALL_TOOL" THEN [execs EXCEPT ![cmd.by] = @ + 1] ELSE execs

\* The server answers; a list of tools may be empty.
RequestAnswered(c, reply) ==
    /\ client[c].step = "request"
    /\ client[c].session
    /\ reply = "ok" \/ (~calm /\ client[c].cmd.kind # "CALL_TOOL")
    /\ Executed(c, TRUE)
    /\ Reply(c, reply)
    /\ client' = [client EXCEPT ![c] = [Finished(@) EXCEPT !.backoff = FALSE]]
    /\ UNCHANGED <<source, lock, calm, healthUrl>>

\* Mutant: a stale session is retried as often as it breaks.
RequestBreaksForever(c, done) ==
    /\ ~calm
    /\ client[c].step = "request"
    /\ done => client[c].session
    /\ Executed(c, done)
    /\ client' = [client EXCEPT ![c].step = "connect", ![c].session = FALSE]
    /\ UNCHANGED <<source, lock, ask, calm, healthUrl>>

\* The session turns out stale: connect again and try once more; the second
\* failure goes to the caller.
RequestBreaks(c, done) ==
    /\ client[c].step = "request"
    /\ ~calm \/ ~client[c].session
    /\ done => client[c].session
    /\ Executed(c, done)
    /\ IF client[c].again
         THEN /\ Reply(c, "error")
              /\ client' = [client EXCEPT ![c] = Finished(@)]
         ELSE /\ client' = [client EXCEPT ![c].again = TRUE, ![c].step = "connect",
                                          ![c].session = FALSE]
              /\ UNCHANGED ask
    /\ UNCHANGED <<source, lock, calm, healthUrl>>

\* Any other error is passed on at once.
RequestFails(c, done) ==
    /\ ~calm
    /\ client[c].step = "request"
    /\ client[c].session
    /\ Executed(c, done)
    /\ Reply(c, "error")
    /\ client' = [client EXCEPT ![c] = Finished(@)]
    /\ UNCHANGED <<source, lock, calm, healthUrl>>

\* Nothing comes back any more, and the owner waits without a time-out.
Hangs(c, done) ==
    /\ ~calm
    /\ client[c].step \in {"connect", "request"}
    /\ done => (client[c].step = "request" /\ client[c].session)
    /\ Executed(c, done)
    /\ client' = [client EXCEPT ![c].step = "hung"]
    /\ UNCHANGED <<source, lock, ask, calm, healthUrl>>

\* The finally block of an owner: it closes whatever session the client has by
\* then, which may be one that a newer owner opened.
EndOwner(c) ==
    /\ client[c].ending
    /\ client' = [client EXCEPT ![c].ending = FALSE, ![c].session = FALSE, ![c].backoff = FALSE]
    /\ UNCHANGED <<source, lock, ask, execs, calm, healthUrl>>

BackoffEnds(c) ==
    /\ client[c].backoff
    /\ client' = [client EXCEPT ![c].backoff = FALSE]
    /\ UNCHANGED <<source, lock, ask, execs, calm, healthUrl>>

OwnerStep(c) ==
    \/ TakeShutdown(c)
    \/ Refuse(c)
    \/ Take(c)
    \/ Connects(c)
    \/ ConnectFails(c)
    \/ \E reply \in {"ok", "empty"} : RequestAnswered(c, reply)
    \/ \E done \in BOOLEAN : RequestBreaks(c, done) \/ RequestFails(c, done)
    \/ EndOwner(c)

-----------------------------------------------------------------------------
(* The runtime: one lock, one registered client. *)

\* Client objects nothing refers to.
Unreferenced ==
    {c \in Clients : c \notin {source.client, source.tools} /\ \A a \in Askers : ask[a].on # c}

\* The runtime lets go of client c.  Unless a call holds one of its tools, the
\* object may be collected; a task that it left behind is not followed.
Released(c) ==
    IF \E k \in Calls : ask[k].on = c
    THEN [client EXCEPT ![c] = Cancelled(@)]
    ELSE [client EXCEPT ![c] = NewClient]

\* The reply cannot come: the owner is stuck, or the command was dropped.
Stalled(a) ==
    LET c   == ask[a].on
        cmd == [kind |-> ask[a].at, by |-> a]
    IN  \/ client[c].step = "hung"
        \/ client[c].cmd # cmd /\ \A i \in DOMAIN client[c].queue : client[c].queue[i] # cmd

MayTimeOut(a) ==
    /\ ask[a].reply = "none"
    /\ ~calm \/ (ask[a].on \in Clients /\ Stalled(a))

\* _connect_source_unlocked with a new client.
ConnectSource(a) ==
    LET c == CHOOSE free \in Unreferenced : TRUE
    IN  /\ Unreferenced # {}
        /\ client' = [client EXCEPT ![c] = Opened(NewClient, a)]
        /\ ask' = [ask EXCEPT ![a] = Asking("CONNECT", c)]

BootConnect ==
    /\ ask[Boot].at = "boot"
    /\ lock = Nobody
    /\ lock' = Boot
    /\ ConnectSource(Boot)
    /\ UNCHANGED <<source, execs, calm, healthUrl>>

StartProbe(p) ==
    /\ ask[p].at = "idle"
    /\ ask[Boot].at = "up"
    /\ ask' = [ask EXCEPT ![p] = At("lock")]
    /\ UNCHANGED <<client, source, lock, execs, calm, healthUrl>>

\* The full probe: the registered client is asked, a missing one connected.
FullProbe(p) ==
    IF source.client = NoClient
    THEN ConnectSource(p)
    ELSE /\ client' = [client EXCEPT ![source.client] = Send(source.client, "HEALTH", p)]
         /\ ask' = [ask EXCEPT ![p] = Asking("HEALTH", source.client)]

RefreshSource(p) ==
    /\ ask[p].at = "lock"
    /\ lock = Nobody
    /\ lock' = p
    /\ IF healthUrl /\ source.count > 0
         THEN /\ ask' = [ask EXCEPT ![p] = At("url")]
              /\ UNCHANGED client
         ELSE FullProbe(p)
    /\ UNCHANGED <<source, execs, calm, healthUrl>>

\* The gateway's health endpoint says nothing about the client or its session.
UrlAnswers(p) ==
    /\ ask[p].at = "url"
    /\ source' = [source EXCEPT !.ready = TRUE]
    /\ ask' = [ask EXCEPT ![p] = Rest(p)]
    /\ lock' = Nobody
    /\ UNCHANGED <<client, execs, calm, healthUrl>>

UrlFails(p) ==
    /\ ~calm
    /\ ask[p].at = "url"
    /\ FullProbe(p)
    /\ UNCHANGED <<source, lock, execs, calm, healthUrl>>

Failed == [source EXCEPT !.ready = FALSE, !.count = 0]

ConnectedThenList(a) ==
    /\ a \notin Calls
    /\ ask[a].at = "CONNECT" /\ ask[a].reply = "ok"
    /\ client' = [client EXCEPT ![ask[a].on] = Send(ask[a].on, "LIST_TOOLS", a)]
    /\ ask' = [ask EXCEPT ![a] = Asking("LIST_TOOLS", ask[a].on)]
    /\ UNCHANGED <<source, lock, execs, calm, healthUrl>>

\* Registered: the tools refer to this client.
Register(a) ==
    /\ ask[a].at = "LIST_TOOLS"
    /\ ask[a].reply \in {"ok", "empty"}
    /\ source' = [client |-> ask[a].on, ready |-> TRUE,
                  tools |-> IF ask[a].reply = "ok" THEN ask[a].on ELSE NoClient,
                  count |-> IF ask[a].reply = "ok" THEN 1 ELSE 0]
    /\ ask' = [ask EXCEPT ![a] = Rest(a)]
    /\ lock' = Nobody
    /\ UNCHANGED <<client, execs, calm, healthUrl>>

\* An error, or at start-up the connect time-out: the new client is closed.
ConnectGivesUp(a) ==
    /\ a \notin Calls
    /\ ask[a].at \in {"CONNECT", "LIST_TOOLS"}
    /\ ask[a].reply = "error" \/ (a = Boot /\ MayTimeOut(a))
    /\ client' = Released(ask[a].on)
    /\ source' = Failed
    /\ ask' = [ask EXCEPT ![a] = Rest(a)]
    /\ lock' = Nobody
    /\ UNCHANGED <<execs, calm, healthUrl>>

\* A failed probe drops the tools and keeps the client; a successful one sets
\* the count and leaves the tools as they are.
HealthReplied(p) ==
    /\ ask[p].at = "HEALTH"
    /\ ask[p].reply # "none"
    /\ source' = CASE ask[p].reply = "ok"    -> [source EXCEPT !.ready = TRUE, !.count = 1]
                   [] ask[p].reply = "empty" -> Failed
                   [] ask[p].reply = "error" -> [Failed EXCEPT !.tools = NoClient]
    /\ ask' = [ask EXCEPT ![p] = Rest(p)]
    /\ lock' = Nobody
    /\ UNCHANGED <<client, execs, calm, healthUrl>>

\* Mutant: the time-out leaves the source locked.
ProbeTimesOutLocked(p) ==
    /\ ask[p].at \in {"lock", "url", "CONNECT", "LIST_TOOLS", "HEALTH"}
    /\ MayTimeOut(p)
    /\ ask' = [ask EXCEPT ![p] = At("reset")]
    /\ UNCHANGED <<client, source, lock, execs, calm, healthUrl>>

\* live_health gives up, also while it waits for the lock.  A client it was
\* connecting is dropped as it is.
ProbeTimesOut(p) ==
    /\ ask[p].at \in {"lock", "url", "CONNECT", "LIST_TOOLS", "HEALTH"}
    /\ MayTimeOut(p)
    /\ ask' = [ask EXCEPT ![p] = At("reset")]
    /\ lock' = IF lock = p THEN Nobody ELSE lock
    /\ client' = IF ask[p].at \in {"CONNECT", "LIST_TOOLS"} THEN Released(ask[p].on) ELSE client
    /\ UNCHANGED <<source, execs, calm, healthUrl>>

\* It then drops whatever client is registered by now and cancels its owner.
ResetTimedOutSource(p) ==
    /\ ask[p].at = "reset"
    /\ lock = Nobody
    /\ client' = IF source.client = NoClient THEN client
                 ELSE Released(source.client)
    /\ source' = NotConnected
    /\ ask' = [ask EXCEPT ![p] = Rest(p)]
    /\ UNCHANGED <<lock, execs, calm, healthUrl>>

\* Lifespan shutdown, after the last request has been served.
Disconnect ==
    /\ ask[Boot].at = "up"
    /\ \A p \in Probers : ask[p].at = "idle"
    /\ lock = Nobody
    /\ IF source.client = NoClient
         THEN /\ ask' = [ask EXCEPT ![Boot] = At("down")]
              /\ source' = NotConnected
              /\ UNCHANGED <<client, lock>>
         ELSE /\ client' = [client EXCEPT ![source.client] = Send(source.client, "SHUTDOWN", Boot)]
              /\ ask' = [ask EXCEPT ![Boot] = Asking("SHUTDOWN", source.client)]
              /\ source' = [source EXCEPT !.client = NoClient]
              /\ lock' = Boot
    /\ UNCHANGED <<execs, calm, healthUrl>>

Disconnected ==
    /\ ask[Boot].at = "SHUTDOWN"
    /\ ask[Boot].reply # "none" \/ MayTimeOut(Boot)
    /\ client' = Released(ask[Boot].on)
    /\ source' = NotConnected
    /\ ask' = [ask EXCEPT ![Boot] = At("down")]
    /\ lock' = Nobody
    /\ UNCHANGED <<execs, calm, healthUrl>>

ProbeStep(p) ==
    \/ StartProbe(p)
    \/ RefreshSource(p)
    \/ UrlAnswers(p)
    \/ UrlFails(p)
    \/ HealthReplied(p)
    \/ ProbeTimesOut(p)
    \/ ResetTimedOutSource(p)

SourceStep(a) ==
    \/ ConnectedThenList(a)
    \/ Register(a)
    \/ ConnectGivesUp(a)

-----------------------------------------------------------------------------
(* Tool calls. *)

\* An agent takes the tools that are registered, a direct caller the client.
TakeTool(k) ==
    /\ ask[k].at = "idle"
    /\ \E c \in {source.tools, source.client} \ {NoClient} :
          ask' = [ask EXCEPT ![k] = Asking("held", c)]
    /\ UNCHANGED <<client, source, lock, execs, calm, healthUrl>>

\* reconnect() of a caller that found no running owner: the client is opened
\* again, registered or not.
Revive(c, k) ==
    IF client[c].running
    THEN /\ client' = [client EXCEPT ![c] = Send(c, "RECONNECT", k)]
         /\ ask' = [ask EXCEPT ![k] = Asking("RECONNECT", c)]
    ELSE /\ client' = [client EXCEPT ![c] = Opened(@, k)]
         /\ ask' = [ask EXCEPT ![k] = Asking("CONNECT", c)]

CallTool(k) ==
    /\ ask[k].at = "held"
    /\ LET c == ask[k].on
       IN  CASE client[c].running ->
                  /\ client' = [client EXCEPT ![c] = Send(c, "CALL_TOOL", k)]
                  /\ ask' = [ask EXCEPT ![k] = Asking("CALL_TOOL", c)]
             [] ~client[c].running /\ client[c].session ->
                  /\ ask' = [ask EXCEPT ![k] = Asking("direct", c)]
                  /\ UNCHANGED client
             [] OTHER -> Revive(c, k)
    /\ UNCHANGED <<source, lock, execs, calm, healthUrl>>

\* A call ends and drops its reference; objects is the clients by then.
Ends(k, how, objects) ==
    LET c == ask[k].on
    IN  /\ ask' = [ask EXCEPT ![k] = At(how)]
        /\ client' = IF source.client = c \/ \E a \in Askers \ {k} : ask[a].on = c
                     THEN objects
                     ELSE [client EXCEPT ![c] = NewClient]

\* Mutant: a caller that gives up closes the client it shares.
ClosedAlways(k) == [client EXCEPT ![ask[k].on] = Cancelled(@)]

Closed(k) ==
    IF ask[k].at = "CONNECT" THEN [client EXCEPT ![ask[k].on] = Cancelled(@)] ELSE client

CallReplied(k) ==
    /\ ask[k].at = "CALL_TOOL"
    /\ ask[k].reply # "none"
    /\ Ends(k, IF ask[k].reply = "error" THEN "failed" ELSE "done", client)
    /\ UNCHANGED <<source, lock, execs, calm, healthUrl>>

\* Mutant: the reply is awaited without a time-out.
CallNeverTimesOut(k) == FALSE

\* The caller gives up; its command stays with the owner.
CallTimesOut(k) ==
    /\ ask[k].at \in {"CALL_TOOL", "RECONNECT", "CONNECT"}
    /\ MayTimeOut(k)
    /\ Ends(k, "failed", Closed(k))
    /\ UNCHANGED <<source, lock, execs, calm, healthUrl>>

Revived(k) ==
    /\ ask[k].at \in {"RECONNECT", "CONNECT"}
    /\ ask[k].reply # "none"
    /\ IF ask[k].reply = "ok"
         THEN /\ ask' = [ask EXCEPT ![k] = Asking("retry", @.on)]
              /\ UNCHANGED client
         ELSE Ends(k, "failed", Closed(k))
    /\ UNCHANGED <<source, lock, execs, calm, healthUrl>>

\* The call made past the owner, without a time-out.
DirectCall(k, done) ==
    /\ ask[k].at \in {"direct", "retry"}
    /\ done => client[ask[k].on].session
    /\ execs' = IF done THEN [execs EXCEPT ![k] = @ + 1] ELSE execs
    /\ \/ done /\ Ends(k, "done", client)
       \/ /\ ~calm \/ ~client[ask[k].on].session
          /\ Ends(k, "failed", client) \/ (ask[k].at = "direct" /\ Revive(ask[k].on, k))
       \/ ~calm /\ Ends(k, "stuck", client)
    /\ UNCHANGED <<source, lock, calm, healthUrl>>

CallStep(k) ==
    \/ CallReplied(k)
    \/ CallTimesOut(k)
    \/ Revived(k)
    \/ \E done \in BOOLEAN : DirectCall(k, done)

-----------------------------------------------------------------------------
CalmDown ==
    /\ ~calm
    /\ calm' = TRUE
    /\ UNCHANGED <<client, source, lock, ask, execs, healthUrl>>

Next ==
    \/ \E c \in Clients : OwnerStep(c) \/ BackoffEnds(c) \/ (\E done \in BOOLEAN : Hangs(c, done))
    \/ BootConnect
    \/ \E p \in Probers : ProbeStep(p)
    \/ \E a \in Probers \cup {Boot} : SourceStep(a)
    \/ Disconnect
    \/ Disconnected
    \/ \E k \in Calls : TakeTool(k) \/ CallTool(k) \/ CallStep(k)
    \/ CalmDown

\* The event loop runs every task that can go on, the lock is handed out in
\* order, time passes, and the monitoring keeps asking for the health.
Fairness ==
    /\ \A c \in Clients : WF_vars(OwnerStep(c)) /\ WF_vars(BackoffEnds(c))
    /\ WF_vars(BootConnect)
    /\ WF_vars(Disconnected)
    /\ \A p \in Probers : WF_vars(ProbeStep(p)) /\ SF_vars(RefreshSource(p) \/ ResetTimedOutSource(p))
    /\ \A a \in Probers \cup {Boot} : WF_vars(SourceStep(a))
    /\ \A k \in Calls : WF_vars(CallStep(k))

Spec == Init /\ [][Next]_vars /\ Fairness

-----------------------------------------------------------------------------
Places == Commands \cup {"boot", "up", "down", "idle", "lock", "url", "reset", "held",
                         "direct", "retry", "stuck", "done", "failed"}

CommandRecord == [kind : Commands, by : Askers]

ClientType ==
    [running : BOOLEAN, ending : BOOLEAN, session : BOOLEAN, backoff : BOOLEAN,
     step : {"idle", "connect", "request", "hung"}, again : BOOLEAN,
     cmd : CommandRecord \cup {NoCommand}, queue : Seq(CommandRecord)]

SourceType ==
    [client : Clients \cup {NoClient}, tools : Clients \cup {NoClient}, ready : BOOLEAN, count : 0..1]

AskType ==
    [at : Places, on : Clients \cup {NoClient}, reply : {"none", "ok", "empty", "error"}]

(* Every variable has its type (the fields of MCPRuntime and                *)
(* HyruleMCPClient).                                                        *)
TypeOK ==
    /\ client \in [Clients -> ClientType]
    /\ source \in SourceType
    /\ lock \in Probers \cup {Boot, Nobody}
    /\ ask \in [Askers -> AskType]
    /\ execs \in [Calls -> Nat]
    /\ calm \in BOOLEAN
    /\ healthUrl \in BOOLEAN

(* A tool call is executed at most twice by the server, whatever breaks,    *)
(* times out, is abandoned or is retried past the owner                     *)
(* (_owner_run_with_reconnect_once, _run_with_reconnect_once).              *)
ExecutedAtMostTwice == \A k \in Calls : execs[k] <= 2

(* No caller is given the outcome of a call that the server did not         *)
(* execute, although commands are abandoned, owners cancelled and clients   *)
(* revived under it (_reply, _drain_pending).                               *)
DoneWasExecuted == \A k \in Calls : ask[k].at = "done" => execs[k] >= 1

(* The client the runtime has registered runs its owner task: clients that  *)
(* are closed, cancelled or given up are unregistered first                 *)
(* (_reset_timed_out_source, disconnect, _connect_source_unlocked).         *)
RegisteredRuns ==
    source.client # NoClient => client[source.client].running

(* The registry, the clients behind it and the outcomes they give agree:    *)
(* the three invariants together.                                           *)
RegistryInv == TypeOK /\ DoneWasExecuted /\ RegisteredRuns

Serving ==
    /\ source.client # NoClient
    /\ source.ready /\ source.count > 0
    /\ client[source.client].session
    /\ client[source.client].step # "hung"

(* Without the shortcut of a health_url, once the server behaves the source *)
(* comes back for good, whatever was stuck, abandoned or in back-off then   *)
(* (live_health, _reset_timed_out_source, _schedule_reconnect_backoff).     *)
Recovers ==
    <>[](calm /\ ~healthUrl) => <>[](Serving \/ ask[Boot].at \in {"SHUTDOWN", "down"})

(* A call or probe that waits for an owner's reply gets on with it, also    *)
(* when the owner never replies (_send_command's time-out, live_health's).  *)
WaitEnds ==
    \A a \in Askers : ask[a].at \in Commands ~> ask[a].at \notin Commands

=============================================================================
