--------------------------- MODULE McpRuntimeProofs ---------------------------
(***************************************************************************)
(* Theorems of McpRuntime, for any clients, calls and probers: a call is   *)
(* executed at most twice and reported done only when it was, and the      *)
(* registered client runs its owner.                                       *)
(***************************************************************************)
EXTENDS McpRuntime, TLAPS

Runtime == Probers \cup {Boot}

\* The places of each kind of task.
Roles ==
    /\ \A k \in Calls :
         ask[k].at \in {"idle", "held", "direct", "retry", "CALL_TOOL", "RECONNECT", "CONNECT",
                        "done", "failed", "stuck"}
    /\ \A p \in Probers :
         ask[p].at \in {"idle", "lock", "url", "reset", "CONNECT", "LIST_TOOLS", "HEALTH"}
    /\ ask[Boot].at \in {"boot", "CONNECT", "LIST_TOOLS", "up", "SHUTDOWN", "down"}
    /\ \A a \in Askers :
         ask[a].at \in Commands \cup {"held", "direct", "retry"} => ask[a].on \in Clients

\* The runtime holds the source's lock while it waits for a client.
LockHeld ==
    \A a \in Runtime :
      ask[a].at \in {"url", "HEALTH", "CONNECT", "LIST_TOOLS", "SHUTDOWN"} => lock = a

\* A client that is being connected runs, and nobody else knows of it.
ConnectsAlone ==
    \A a \in Runtime : ask[a].at \in {"CONNECT", "LIST_TOOLS"} =>
      /\ source.client = NoClient
      /\ source.tools # ask[a].on
      /\ client[ask[a].on].running
      /\ \A b \in Askers \ {a} : ask[b].on # ask[a].on

\* Before the start and from the shutdown on no client is registered and no
\* probe runs.
OutOfService ==
    ask[Boot].at \in {"boot", "SHUTDOWN", "down"} =>
      source.client = NoClient /\ \A p \in Probers : ask[p].at = "idle"

\* A call opens only a client that is not registered.
RevivesOthers ==
    \A k \in Calls : ask[k].at = "CONNECT" => source.client # ask[k].on

\* Calls are commands of calls, and a shutdown is the one of the end.
Fits(cmd, boot) ==
    /\ cmd.kind = "CALL_TOOL" => cmd.by \in Calls
    /\ cmd.kind = "SHUTDOWN" => cmd.by = Boot /\ boot \in {"SHUTDOWN", "down"}

QueuesFit ==
    \A c \in Clients :
      /\ Fits(client[c].cmd, ask[Boot].at) /\ client[c].cmd.kind # "SHUTDOWN"
      /\ \A i \in DOMAIN client[c].queue : Fits(client[c].queue[i], ask[Boot].at)

\* An owner that is idle or gone retries nothing.
IdleOwners ==
    \A c \in Clients :
      /\ ~client[c].running => client[c].step = "idle"
      /\ client[c].step = "idle" => ~client[c].again

RegistryIInv ==
    /\ TypeOK /\ Roles /\ LockHeld /\ ConnectsAlone /\ OutOfService
    /\ RevivesOthers /\ QueuesFit /\ IdleOwners /\ RegisteredRuns

-----------------------------------------------------------------------------
CallOf(k) == [kind |-> "CALL_TOOL", by |-> k]

\* The command of a call is with the owner of a client (at place 0), or at a
\* place in its queue.
Holds(clients, c, i, k) ==
    \/ i = 0 /\ clients[c].cmd = CallOf(k)
    \/ i \in DOMAIN clients[c].queue /\ clients[c].queue[i] = CallOf(k)

NowhereIn(clients, k) == \A c \in Clients, i \in Nat : ~Holds(clients, c, i, k)

\* What the server did of call k by now, e executions, is bounded by where the
\* call has come to; there is one place at most that holds its command.
CallBudget(clients, e, at, k) ==
    /\ e <= 2
    /\ at \in {"idle", "held", "direct"} => NowhereIn(clients, k) /\ e = 0
    /\ at \in {"RECONNECT", "CONNECT", "retry"} => NowhereIn(clients, k) /\ e <= 1
    /\ \A c, d \in Clients, i, j \in Nat :
         Holds(clients, c, i, k) /\ Holds(clients, d, j, k) => c = d /\ i = j
    /\ \A c \in Clients, i \in Nat : Holds(clients, c, i, k) =>
         /\ i # 0 => e = 0
         /\ i = 0 /\ clients[c].step # "hung" => e <= IF clients[c].again THEN 1 ELSE 0

Budget == \A k \in Calls : CallBudget(client, execs[k], ask[k].at, k)

\* A call that was answered or is done was executed.
Answers ==
    \A k \in Calls :
      ask[k].at = "done" \/ (ask[k].at = "CALL_TOOL" /\ ask[k].reply \in {"ok", "empty"}) => execs[k] >= 1

RuntimeInv == RegistryIInv /\ Budget /\ Answers

-----------------------------------------------------------------------------
(* The operators. *)

\* A client that is new, cancelled, opened, or done with a command.
LEMMA ClientRecords ==
    /\ NewClient \in ClientType
    /\ \A r \in ClientType :
         /\ Cancelled(r) \in ClientType
         /\ Cancelled(r).running = FALSE /\ Cancelled(r).step = "idle" /\ Cancelled(r).again = FALSE
         /\ Cancelled(r).cmd = NoCommand /\ Cancelled(r).queue = <<>>
    /\ \A r \in ClientType :
         /\ Finished(r) \in ClientType
         /\ Finished(r).running = r.running /\ Finished(r).step = "idle" /\ Finished(r).again = FALSE
         /\ Finished(r).cmd = NoCommand /\ Finished(r).queue = r.queue
    /\ \A r \in ClientType, a \in Askers :
         /\ Opened(r, a) \in ClientType
         /\ Opened(r, a).running = TRUE /\ Opened(r, a).step = "idle" /\ Opened(r, a).again = r.again
         /\ Opened(r, a).cmd = NoCommand /\ Opened(r, a).queue = <<[kind |-> "CONNECT", by |-> a]>>
<1>1. NewClient \in ClientType
  BY DEF NewClient, ClientType
<1>2. ASSUME NEW r \in ClientType
      PROVE  /\ Cancelled(r) \in ClientType
             /\ Cancelled(r).running = FALSE /\ Cancelled(r).step = "idle" /\ Cancelled(r).again = FALSE
             /\ Cancelled(r).cmd = NoCommand /\ Cancelled(r).queue = <<>>
  <2> DEFINE half == [r EXCEPT !.running = FALSE, !.ending = TRUE, !.step = "idle", !.again = FALSE]
  <2>1. half \in ClientType
    BY DEF ClientType
  <2>2. NoCommand \in CommandRecord \cup {NoCommand} /\ <<>> \in Seq(CommandRecord)
    OBVIOUS
  <2>3. Cancelled(r) = [half EXCEPT !.cmd = NoCommand, !.queue = <<>>, !.session = FALSE]
    BY DEF ClientType, Cancelled
  <2>4. half.running = FALSE /\ half.step = "idle" /\ half.again = FALSE
    BY DEF ClientType
  <2> HIDE DEF half
  <2>5. Cancelled(r) \in ClientType
    BY <2>1, <2>2, <2>3 DEF ClientType
  <2> QED BY <2>1, <2>3, <2>4, <2>5 DEF ClientType
<1>3. ASSUME NEW r \in ClientType
      PROVE  /\ Finished(r) \in ClientType
             /\ Finished(r).running = r.running /\ Finished(r).step = "idle" /\ Finished(r).again = FALSE
             /\ Finished(r).cmd = NoCommand /\ Finished(r).queue = r.queue
  BY DEF ClientType, Finished
<1>4. ASSUME NEW r \in ClientType, NEW a \in Askers
      PROVE  /\ Opened(r, a) \in ClientType
             /\ Opened(r, a).running = TRUE /\ Opened(r, a).step = "idle" /\ Opened(r, a).again = r.again
             /\ Opened(r, a).cmd = NoCommand /\ Opened(r, a).queue = <<[kind |-> "CONNECT", by |-> a]>>
  <2>1. <<[kind |-> "CONNECT", by |-> a]>> \in Seq(CommandRecord)
    BY DEF CommandRecord, Commands
  <2> QED BY <2>1 DEF ClientType, Opened
<1> QED BY <1>1, <1>2, <1>3, <1>4

\* A client with another command in its queue.
LEMMA SendRecord ==
    ASSUME TypeOK, NEW c \in Clients, NEW kind \in Commands, NEW a \in Askers
    PROVE  /\ Send(c, kind, a) \in ClientType
           /\ Send(c, kind, a).queue = Append(client[c].queue, [kind |-> kind, by |-> a])
           /\ Send(c, kind, a).running = client[c].running /\ Send(c, kind, a).step = client[c].step
           /\ Send(c, kind, a).again = client[c].again /\ Send(c, kind, a).cmd = client[c].cmd
<1>1. client[c] \in ClientType
  BY DEF TypeOK
<1>2. [kind |-> kind, by |-> a] \in CommandRecord
  BY DEF CommandRecord
<1>3. Append(client[c].queue, [kind |-> kind, by |-> a]) \in Seq(CommandRecord)
  BY <1>1, <1>2 DEF ClientType
<1> QED BY <1>1, <1>3 DEF Send, ClientType

\* What a task asks, and where it rests.
LEMMA AskRecords ==
    /\ \A place \in Places : At(place) \in AskType /\ At(place).at = place /\ At(place).on = NoClient
    /\ \A kind \in Places, c \in Clients :
         Asking(kind, c) \in AskType /\ Asking(kind, c).at = kind /\ Asking(kind, c).on = c
         /\ Asking(kind, c).reply = "none"
    /\ \A a \in Askers : Rest(a) \in AskType /\ Rest(a).at = (IF a = Boot THEN "up" ELSE "idle") /\ Rest(a).on = NoClient
  BY DEF At, Asking, Rest, AskType, Places

-----------------------------------------------------------------------------
(* What a step does to a client. *)

\* It is new, or closed: what was in it is dropped.
Drops(d) ==
    /\ client'[d].running = FALSE /\ client'[d].step = "idle" /\ client'[d].again = FALSE
    /\ client'[d].cmd = NoCommand /\ client'[d].queue = <<>>

\* A new owner starts with a command to connect.
Opens(d) ==
    /\ client'[d].running = TRUE /\ client'[d].step = "idle" /\ client'[d].again = FALSE
    /\ client'[d].cmd = NoCommand
    /\ \E a \in Askers : client'[d].queue = <<[kind |-> "CONNECT", by |-> a]>>

\* Its owner is sent a command.
Sends(d, kind, a) ==
    /\ client'[d].queue = Append(client[d].queue, [kind |-> kind, by |-> a])
    /\ client'[d].running = client[d].running /\ client'[d].step = client[d].step
    /\ client'[d].again = client[d].again /\ client'[d].cmd = client[d].cmd

\* Its owner takes a command, or refuses it.
Takes(d) ==
    /\ client[d].running /\ client[d].step = "idle" /\ client[d].queue # <<>>
    /\ client'[d].queue = Tail(client[d].queue)
    /\ client'[d].running = client[d].running /\ client'[d].again = client[d].again
    /\ \/ /\ client'[d].cmd = Head(client[d].queue) /\ Head(client[d].queue).kind # "SHUTDOWN"
          /\ client'[d].step # "idle" /\ client'[d].step # "hung"
       \/ client'[d].cmd = client[d].cmd /\ client'[d].step = client[d].step

\* Its owner finishes a command, or goes on with it.
Works(d) ==
    /\ client'[d].queue = client[d].queue /\ client'[d].running = client[d].running
    /\ \/ /\ client'[d].cmd = client[d].cmd /\ client'[d].step = client[d].step
          /\ client'[d].again = client[d].again
       \/ /\ client[d].step # "idle"
          /\ client'[d].cmd = NoCommand /\ client'[d].step = "idle" /\ client'[d].again = FALSE
       \/ /\ client[d].step \notin {"idle", "hung"}
          /\ client'[d].cmd = client[d].cmd /\ client'[d].step # "idle"
          /\ client'[d].again = client[d].again \/ (client[d].again = FALSE /\ client'[d].again = TRUE)

\* The server may have executed the call its owner works on: then the owner is
\* done with it, tries it for the second time from now on, or hangs.
Executes(d) ==
    \/ execs' = execs
    \/ /\ client[d].step = "request" /\ client[d].cmd.kind = "CALL_TOOL"
       /\ execs' = [execs EXCEPT ![client[d].cmd.by] = @ + 1]
       /\ \/ client'[d].cmd = NoCommand
          \/ client'[d].step = "hung"
          \/ client'[d].again /\ ~client[d].again

\* A call is told something else than an error only when it was executed.
Tells ==
    \A k \in Calls :
      \/ ask'[k].reply = ask[k].reply
      \/ ask'[k].reply = "error"
      \/ ask[k].at # "CALL_TOOL"
      \/ execs'[k] >= 1

\* The tasks stay where they are.
AsksStay == \A a \in Askers : ask'[a].at = ask[a].at /\ ask'[a].on = ask[a].on

\* One client becomes another record.
LEMMA OneClient ==
    ASSUME TypeOK, NEW c \in Clients, NEW r \in ClientType, client' = [client EXCEPT ![c] = r]
    PROVE  /\ client' \in [Clients -> ClientType] /\ client'[c] = r
           /\ \A d \in Clients \ {c} : client'[d] = client[d]
  BY DEF TypeOK

LEMMA ExecutedType ==
    ASSUME TypeOK, NEW c \in Clients, NEW done, Executed(c, done)
    PROVE  execs' \in [Calls -> Nat]
<1>1. execs \in [Calls -> Nat] /\ (execs' = execs \/ \E b : execs' = [execs EXCEPT ![b] = @ + 1])
  BY DEF TypeOK, Executed
<1>2. ASSUME NEW b, execs' = [execs EXCEPT ![b] = @ + 1]
      PROVE  execs' \in [Calls -> Nat]
  <2>1. \A k \in Calls : execs'[k] \in Nat
    BY <1>1, <1>2
  <2>2. execs' = [k \in Calls |-> execs'[k]]
    BY <1>1, <1>2
  <2> QED BY <2>1, <2>2
<1> QED BY <1>1, <1>2

\* An answer changes only what a task got for a reply.
LEMMA AnswerStep ==
    ASSUME TypeOK, NEW c \in Clients, NEW cmd, NEW reply \in {"ok", "empty", "error"},
           ask' = Answered(ask, cmd, c, reply)
    PROVE  /\ ask' \in [Askers -> AskType] /\ AsksStay
           /\ \A a \in Askers :
                \/ ask'[a].reply = ask[a].reply
                \/ cmd.by = a /\ ask[a] = Asking(cmd.kind, c) /\ ask'[a].reply = reply
<1>0. ask \in [Askers -> AskType]
  BY DEF TypeOK
<1>1. CASE cmd.by \in Askers /\ ask[cmd.by] = Asking(cmd.kind, c)
  <2> DEFINE new == [ask[cmd.by] EXCEPT !.reply = reply]
  <2>1. ask' = [ask EXCEPT ![cmd.by] = new]
    BY <1>0, <1>1 DEF Answered
  <2>2. new \in AskType /\ new.at = ask[cmd.by].at /\ new.on = ask[cmd.by].on /\ new.reply = reply
    BY <1>0, <1>1 DEF AskType
  <2> HIDE DEF new
  <2>3. ask' \in [Askers -> AskType] /\ ask'[cmd.by] = new /\ \A a \in Askers \ {cmd.by} : ask'[a] = ask[a]
    BY <1>0, <1>1, <2>1, <2>2
  <2> QED BY <1>1, <2>2, <2>3 DEF AsksStay
<1>2. CASE ~(cmd.by \in Askers /\ ask[cmd.by] = Asking(cmd.kind, c))
  <2>1. ask' = ask
    BY <1>2 DEF Answered
  <2> QED BY <1>0, <2>1 DEF AsksStay
<1> QED BY <1>1, <1>2

LEMMA TakeForms ==
    ASSUME TypeOK, QueuesFit, NEW c \in Clients, Take(c) \/ Refuse(c)
    PROVE  TypeOK' /\ AsksStay /\ Takes(c) /\ \A d \in Clients \ {c} : client'[d] = client[d]
<1> DEFINE r == client[c]
           q == client[c].queue
<1>1. r \in ClientType /\ q \in Seq(CommandRecord) /\ q # <<>> /\ r.running /\ r.step = "idle"
  BY DEF TypeOK, ClientType, Take, Refuse, Idling
<1>2. Head(q) \in CommandRecord /\ Tail(q) \in Seq(CommandRecord)
  BY <1>1
<1>3. CASE Take(c)
  <2> DEFINE connect == Head(q).kind \in {"CONNECT", "RECONNECT"}
             step == IF connect \/ ~r.session THEN "connect" ELSE "request"
             new == [r EXCEPT !.cmd = Head(q), !.queue = Tail(q), !.session = r.session /\ ~connect,
                              !.backoff = FALSE, !.step = step]
  <2>1. client' = [client EXCEPT ![c] = new]
    BY <1>3 DEF Take, TypeOK
  <2>2. (r.session /\ ~connect) \in BOOLEAN /\ step \in {"connect", "request"}
    OBVIOUS
  <2> HIDE DEF step, connect
  <2>3. new \in ClientType
    BY <1>1, <1>2, <2>2 DEF ClientType
  <2>4. /\ new.queue = Tail(q) /\ new.running = r.running /\ new.again = r.again
        /\ new.cmd = Head(q) /\ new.step = step
    BY <1>1 DEF ClientType
  <2> HIDE DEF new
  <2>5. client' \in [Clients -> ClientType] /\ client'[c] = new /\ \A d \in Clients \ {c} : client'[d] = client[d]
    BY <2>1, <2>3, OneClient
  <2>6. Head(q).kind # "SHUTDOWN" /\ UNCHANGED <<source, lock, ask, execs, calm, healthUrl>>
    BY <1>3 DEF Take
  <2>7. Takes(c)
    BY <1>1, <2>2, <2>4, <2>5, <2>6 DEF Takes
  <2> QED BY <2>5, <2>6, <2>7 DEF TypeOK, AsksStay
<1>4. CASE Refuse(c)
  <2> DEFINE new == [r EXCEPT !.queue = Tail(q)]
  <2>1. client' = [client EXCEPT ![c] = new]
    BY <1>4 DEF Refuse, TypeOK
  <2>2. new \in ClientType
    BY <1>1, <1>2 DEF ClientType
  <2>3. new.queue = Tail(q) /\ new.running = r.running /\ new.again = r.again /\ new.cmd = r.cmd /\ new.step = r.step
    BY <1>1 DEF ClientType
  <2> HIDE DEF new
  <2>4. client' \in [Clients -> ClientType] /\ client'[c] = new /\ \A d \in Clients \ {c} : client'[d] = client[d]
    BY <2>1, <2>2, OneClient
  <2>5. ask' = Answered(ask, Head(q), c, "error") /\ UNCHANGED <<source, lock, execs, calm, healthUrl>>
    BY <1>4 DEF Refuse
  <2>6. ask' \in [Askers -> AskType] /\ AsksStay
    BY <2>5, AnswerStep
  <2>7. Takes(c)
    BY <1>1, <2>3, <2>4 DEF Takes
  <2> QED BY <2>4, <2>5, <2>6, <2>7 DEF TypeOK
<1> QED BY <1>3, <1>4

\* What the server did for a request, when the owner has gone on from it.
LEMMA ExecutedForm ==
    ASSUME NEW c \in Clients, NEW done, Executed(c, done), client[c].step = "request" \/ ~done,
           client'[c].cmd = NoCommand \/ client'[c].step = "hung" \/ (client'[c].again /\ ~client[c].again)
    PROVE  Executes(c)
  BY DEF Executed, Executes

\* The steps that finish a command with a reply.
LEMMA FinishForms ==
    ASSUME RegistryIInv, NEW c \in Clients, NEW reply \in {"ok", "empty", "error"}, NEW r \in ClientType,
           client[c].step \in {"connect", "request"}, Reply(c, reply),
           client' = [client EXCEPT ![c] = r], r.queue = client[c].queue, r.running = client[c].running,
           r.step = "idle", r.again = FALSE, r.cmd = NoCommand,
           execs' = execs \/ (\E done \in BOOLEAN : Executed(c, done) /\ (done => client[c].step = "request")),
           reply = "error" \/ client[c].cmd.kind # "CALL_TOOL" \/ Executed(c, TRUE),
           UNCHANGED <<source, lock, calm, healthUrl>>
    PROVE  /\ TypeOK' /\ AsksStay /\ Works(c) /\ Executes(c) /\ Tells
           /\ \A d \in Clients \ {c} : client'[d] = client[d]
<1>1. TypeOK /\ QueuesFit
  BY DEF RegistryIInv
<1>2. client' \in [Clients -> ClientType] /\ client'[c] = r /\ \A d \in Clients \ {c} : client'[d] = client[d]
  BY <1>1, OneClient
<1>3. /\ ask' \in [Askers -> AskType] /\ AsksStay
      /\ \A a \in Askers :
           \/ ask'[a].reply = ask[a].reply
           \/ client[c].cmd.by = a /\ ask[a] = Asking(client[c].cmd.kind, c) /\ ask'[a].reply = reply
  BY <1>1, AnswerStep DEF Reply
<1>4. execs' \in [Calls -> Nat]
  BY <1>1, ExecutedType DEF TypeOK
<1>5. Works(c) /\ Executes(c)
  <2>1. Works(c)
    BY <1>2 DEF Works
  <2>2. CASE execs' = execs
    BY <2>1, <2>2 DEF Executes
  <2>3. ASSUME NEW done \in BOOLEAN, Executed(c, done), done => client[c].step = "request"
        PROVE  Executes(c)
    BY <1>2, <2>3, ExecutedForm
  <2> QED BY <2>1, <2>2, <2>3
<1>6. Tells
  <2> SUFFICES ASSUME NEW k \in Calls, ask'[k].reply # ask[k].reply, ask'[k].reply # "error",
                      ask[k].at = "CALL_TOOL"
               PROVE  execs'[k] >= 1
    BY DEF Tells
  <2>1. client[c].cmd.by = k /\ ask[k] = Asking(client[c].cmd.kind, c) /\ ask'[k].reply = reply
    BY <1>3 DEF Askers
  <2>2. client[c].cmd.kind = "CALL_TOOL" /\ reply # "error"
    BY <2>1 DEF Asking
  <2>3. execs' = [execs EXCEPT ![k] = @ + 1]
    BY <2>1, <2>2 DEF Executed
  <2>4. execs'[k] = execs[k] + 1 /\ execs[k] \in Nat
    BY <1>1, <2>3 DEF TypeOK
  <2> QED BY <2>4
<1> QED BY <1>1, <1>2, <1>3, <1>4, <1>5, <1>6 DEF TypeOK

\* What an owner's step on with its command may do.
WorkForms(c) ==
    /\ TypeOK' /\ AsksStay /\ Works(c) /\ Executes(c) /\ Tells
    /\ \A d \in Clients \ {c} : client'[d] = client[d]
    /\ UNCHANGED <<source, lock, calm, healthUrl>>

LEMMA FinishSteps ==
    ASSUME RegistryIInv, NEW c \in Clients,
           \/ Connects(c) /\ client[c].cmd.kind \in {"CONNECT", "RECONNECT"}
           \/ ConnectFails(c)
           \/ \E reply \in {"ok", "empty"} : RequestAnswered(c, reply)
           \/ \E done \in BOOLEAN : RequestBreaks(c, done) /\ client[c].again
           \/ \E done \in BOOLEAN : RequestFails(c, done)
    PROVE  WorkForms(c)
<1> DEFINE f == Finished(client[c])
<1>1. client[c] \in ClientType /\ client \in [Clients -> ClientType]
  BY DEF RegistryIInv, TypeOK
<1>2. f \in ClientType /\ f.queue = client[c].queue /\ f.running = client[c].running
      /\ f.step = "idle" /\ f.again = FALSE /\ f.cmd = NoCommand
  BY <1>1, ClientRecords
<1> HIDE DEF f
<1>3. \A s, b \in BOOLEAN :
        LET r == [f EXCEPT !.session = s, !.backoff = b]
        IN  r \in ClientType /\ r.queue = client[c].queue /\ r.running = client[c].running
            /\ r.step = "idle" /\ r.again = FALSE /\ r.cmd = NoCommand
  BY <1>2 DEF ClientType
<1>4. f.session \in BOOLEAN /\ f.backoff \in BOOLEAN
      /\ \A s, b \in BOOLEAN : /\ [f EXCEPT !.session = s] = [f EXCEPT !.session = s, !.backoff = f.backoff]
                               /\ [f EXCEPT !.backoff = b] = [f EXCEPT !.session = f.session, !.backoff = b]
  BY <1>2 DEF ClientType
<1>5. CASE Connects(c) /\ client[c].cmd.kind \in {"CONNECT", "RECONNECT"}
  <2> DEFINE r == [f EXCEPT !.session = TRUE, !.backoff = f.backoff]
  <2>1. client' = [client EXCEPT ![c] = r]
    BY <1>1, <1>4, <1>5 DEF Connects, f
  <2>2. r \in ClientType /\ r.queue = client[c].queue /\ r.running = client[c].running
        /\ r.step = "idle" /\ r.again = FALSE /\ r.cmd = NoCommand
    BY <1>3, <1>4
  <2> HIDE DEF r
  <2>3. /\ client[c].step \in {"connect", "request"} /\ Reply(c, "ok") /\ client[c].cmd.kind # "CALL_TOOL"
        /\ UNCHANGED <<source, lock, execs, calm, healthUrl>>
    BY <1>5 DEF Connects
  <2> QED BY <2>1, <2>2, <2>3, FinishForms DEF WorkForms
<1>6. CASE ConnectFails(c)
  <2> DEFINE r == [f EXCEPT !.session = FALSE, !.backoff = TRUE]
  <2>1. client' = [client EXCEPT ![c] = r]
    BY <1>1, <1>6 DEF ConnectFails, f
  <2>2. r \in ClientType /\ r.queue = client[c].queue /\ r.running = client[c].running
        /\ r.step = "idle" /\ r.again = FALSE /\ r.cmd = NoCommand
    BY <1>3
  <2> HIDE DEF r
  <2>3. /\ client[c].step \in {"connect", "request"} /\ Reply(c, "error")
        /\ UNCHANGED <<source, lock, execs, calm, healthUrl>>
    BY <1>6 DEF ConnectFails
  <2> QED BY <2>1, <2>2, <2>3, FinishForms DEF WorkForms
<1>7. ASSUME NEW reply \in {"ok", "empty"}, RequestAnswered(c, reply)
      PROVE  WorkForms(c)
  <2> DEFINE r == [f EXCEPT !.session = f.session, !.backoff = FALSE]
  <2>1. client' = [client EXCEPT ![c] = r]
    BY <1>1, <1>4, <1>7 DEF RequestAnswered, f
  <2>2. r \in ClientType /\ r.queue = client[c].queue /\ r.running = client[c].running
        /\ r.step = "idle" /\ r.again = FALSE /\ r.cmd = NoCommand
    BY <1>3, <1>4
  <2> HIDE DEF r
  <2>3. /\ client[c].step = "request" /\ Reply(c, reply) /\ Executed(c, TRUE)
        /\ UNCHANGED <<source, lock, calm, healthUrl>>
    BY <1>7 DEF RequestAnswered
  <2> QED BY <2>1, <2>2, <2>3, FinishForms DEF WorkForms
<1>8. ASSUME NEW done \in BOOLEAN, RequestFails(c, done) \/ (RequestBreaks(c, done) /\ client[c].again)
      PROVE  WorkForms(c)
  <2>1. client' = [client EXCEPT ![c] = f]
    BY <1>1, <1>8 DEF RequestFails, RequestBreaks, f
  <2>2. /\ client[c].step = "request" /\ Reply(c, "error") /\ Executed(c, done)
        /\ UNCHANGED <<source, lock, calm, healthUrl>>
    BY <1>8 DEF RequestFails, RequestBreaks
  <2> QED BY <1>2, <2>1, <2>2, FinishForms DEF WorkForms
<1> QED BY <1>5, <1>6, <1>7, <1>8

\* The steps that go on with a command, or touch the session only.
LEMMA GoOnSteps ==
    ASSUME RegistryIInv, NEW c \in Clients,
           \/ Connects(c) /\ client[c].cmd.kind \notin {"CONNECT", "RECONNECT"}
           \/ \E done \in BOOLEAN : RequestBreaks(c, done) /\ ~client[c].again
           \/ \E done \in BOOLEAN : Hangs(c, done)
           \/ EndOwner(c) \/ BackoffEnds(c)
    PROVE  WorkForms(c)
<1>1. TypeOK /\ client[c] \in ClientType /\ client \in [Clients -> ClientType]
  BY DEF RegistryIInv, TypeOK
<1>2. ASSUME NEW r \in ClientType, client' = [client EXCEPT ![c] = r],
             r.queue = client[c].queue, r.running = client[c].running, r.cmd = client[c].cmd,
             \/ r.step = client[c].step /\ r.again = client[c].again
             \/ /\ client[c].step \in {"connect", "request"} /\ r.step # "idle"
                /\ r.again = client[c].again \/ (client[c].again = FALSE /\ r.again = TRUE),
             UNCHANGED <<source, lock, ask, calm, healthUrl>>,
             execs' = execs \/ (\E done \in BOOLEAN : Executed(c, done) /\ (done => client[c].step = "request")
                                  /\ (r.step = "hung" \/ (r.again /\ ~client[c].again)))
      PROVE  WorkForms(c)
  <2>1. client' \in [Clients -> ClientType] /\ client'[c] = r /\ \A d \in Clients \ {c} : client'[d] = client[d]
    BY <1>1, <1>2, OneClient
  <2>2. Works(c)
    BY <1>2, <2>1 DEF Works
  <2>3. execs' \in [Calls -> Nat]
    BY <1>1, <1>2, ExecutedType DEF TypeOK
  <2>4. Executes(c)
    <3>1. CASE execs' = execs
      BY <3>1 DEF Executes
    <3>2. ASSUME NEW done \in BOOLEAN, Executed(c, done), done => client[c].step = "request",
                 r.step = "hung" \/ (r.again /\ ~client[c].again)
          PROVE  Executes(c)
      BY <2>1, <3>2, ExecutedForm
    <3> QED BY <1>2, <3>1, <3>2
  <2>5. Tells /\ AsksStay
    BY <1>2 DEF Tells, AsksStay
  <2> QED BY <1>1, <1>2, <2>1, <2>2, <2>3, <2>4, <2>5 DEF WorkForms, TypeOK
<1>3. CASE Connects(c) /\ client[c].cmd.kind \notin {"CONNECT", "RECONNECT"}
  <2> DEFINE r == [client[c] EXCEPT !.session = TRUE, !.step = "request"]
  <2>1. client' = [client EXCEPT ![c] = r] /\ client[c].step = "connect"
        /\ UNCHANGED <<source, lock, ask, calm, healthUrl, execs>>
    BY <1>1, <1>3 DEF Connects
  <2>2. r \in ClientType /\ r.queue = client[c].queue /\ r.running = client[c].running
        /\ r.cmd = client[c].cmd /\ r.step # "idle" /\ r.again = client[c].again
    BY <1>1 DEF ClientType
  <2> HIDE DEF r
  <2> QED BY <1>2, <2>1, <2>2
<1>4. ASSUME NEW done \in BOOLEAN, RequestBreaks(c, done), ~client[c].again
      PROVE  WorkForms(c)
  <2> DEFINE r == [client[c] EXCEPT !.again = TRUE, !.step = "connect", !.session = FALSE]
  <2>1. client' = [client EXCEPT ![c] = r] /\ client[c].step = "request" /\ Executed(c, done)
        /\ UNCHANGED <<source, lock, ask, calm, healthUrl>>
    BY <1>1, <1>4 DEF RequestBreaks
  <2>2. r \in ClientType /\ r.queue = client[c].queue /\ r.running = client[c].running
        /\ r.cmd = client[c].cmd /\ r.step # "idle" /\ r.again = TRUE /\ client[c].again = FALSE
    BY <1>1, <1>4 DEF ClientType
  <2> HIDE DEF r
  <2> QED BY <1>2, <2>1, <2>2
<1>5. ASSUME NEW done \in BOOLEAN, Hangs(c, done)
      PROVE  WorkForms(c)
  <2> DEFINE r == [client[c] EXCEPT !.step = "hung"]
  <2>1. client' = [client EXCEPT ![c] = r] /\ client[c].step \in {"connect", "request"} /\ Executed(c, done)
        /\ (done => client[c].step = "request") /\ UNCHANGED <<source, lock, ask, calm, healthUrl>>
    BY <1>1, <1>5 DEF Hangs
  <2>2. r \in ClientType /\ r.queue = client[c].queue /\ r.running = client[c].running
        /\ r.cmd = client[c].cmd /\ r.step = "hung" /\ r.again = client[c].again
    BY <1>1 DEF ClientType
  <2> HIDE DEF r
  <2> QED BY <1>2, <2>1, <2>2
<1>6. CASE EndOwner(c) \/ BackoffEnds(c)
  <2> DEFINE r == [client[c] EXCEPT !.ending = FALSE, !.session = FALSE, !.backoff = FALSE]
             s == [client[c] EXCEPT !.backoff = FALSE]
  <2>1. (client' = [client EXCEPT ![c] = r] \/ client' = [client EXCEPT ![c] = s])
        /\ UNCHANGED <<source, lock, ask, execs, calm, healthUrl>>
    BY <1>1, <1>6 DEF EndOwner, BackoffEnds
  <2>2. \A t \in {r, s} :
          t \in ClientType /\ t.queue = client[c].queue /\ t.running = client[c].running
          /\ t.cmd = client[c].cmd /\ t.step = client[c].step /\ t.again = client[c].again
    BY <1>1 DEF ClientType
  <2> HIDE DEF r, s
  <2> QED BY <1>2, <2>1, <2>2
<1> QED BY <1>3, <1>4, <1>5, <1>6

-----------------------------------------------------------------------------
(* The clients keep in order. *)

\* A fitting command is sent to the owner.
SendsFitting(d) ==
    \E kind \in Commands, a \in Askers :
      Sends(d, kind, a) /\ Fits([kind |-> kind, by |-> a], ask'[Boot].at)

Moves(d) ==
    client'[d] = client[d] \/ Drops(d) \/ Opens(d) \/ Takes(d) \/ Works(d) \/ SendsFitting(d)

LEMMA ClientsKept ==
    ASSUME TypeOK, QueuesFit, IdleOwners, \A d \in Clients : Moves(d),
           ask[Boot].at \in {"SHUTDOWN", "down"} => ask'[Boot].at \in {"SHUTDOWN", "down"}
    PROVE  QueuesFit' /\ IdleOwners'
<1> DEFINE boot == ask'[Boot].at
<1> SUFFICES ASSUME NEW d \in Clients
             PROVE  /\ Fits(client'[d].cmd, boot) /\ client'[d].cmd.kind # "SHUTDOWN"
                    /\ \A i \in DOMAIN client'[d].queue : Fits(client'[d].queue[i], boot)
                    /\ ~client'[d].running => client'[d].step = "idle"
                    /\ client'[d].step = "idle" => ~client'[d].again
  BY DEF QueuesFit, IdleOwners
<1>1. \A cmd : Fits(cmd, ask[Boot].at) => Fits(cmd, boot)
  BY DEF Fits
<1>2. /\ Fits(client[d].cmd, boot) /\ client[d].cmd.kind # "SHUTDOWN"
      /\ \A i \in DOMAIN client[d].queue : Fits(client[d].queue[i], boot)
  BY <1>1 DEF QueuesFit
<1>3. /\ ~client[d].running => client[d].step = "idle"
      /\ client[d].step = "idle" => ~client[d].again
  BY DEF IdleOwners
<1>4. client[d].queue \in Seq(CommandRecord)
  BY DEF TypeOK, ClientType
<1>5. Fits(NoCommand, boot) /\ NoCommand.kind # "SHUTDOWN"
  BY DEF Fits, NoCommand
<1> HIDE DEF boot
<1>6. CASE client'[d] = client[d]
  BY <1>2, <1>3, <1>6
<1>7. CASE Drops(d)
  BY <1>5, <1>7 DEF Drops
<1>8. CASE Opens(d)
  <2>1. \A a : Fits([kind |-> "CONNECT", by |-> a], boot)
    BY DEF Fits
  <2> QED BY <1>5, <1>8, <2>1 DEF Opens
<1>9. CASE Takes(d)
  <2>1. Len(client[d].queue) >= 1
        /\ Head(client[d].queue) = client[d].queue[1]
        /\ \A i \in DOMAIN Tail(client[d].queue) :
             i + 1 \in DOMAIN client[d].queue /\ Tail(client[d].queue)[i] = client[d].queue[i + 1]
    BY <1>4, <1>9 DEF Takes
  <2>2. /\ client'[d].queue = Tail(client[d].queue) /\ client'[d].running /\ client'[d].again = client[d].again
        /\ \/ /\ client'[d].cmd = Head(client[d].queue) /\ Head(client[d].queue).kind # "SHUTDOWN"
              /\ client'[d].step # "idle"
           \/ client'[d].cmd = client[d].cmd /\ client'[d].step = client[d].step
    BY <1>9 DEF Takes
  <2>3. 1 \in DOMAIN client[d].queue
    BY <1>4, <2>1
  <2>4. Fits(Head(client[d].queue), boot)
    BY <1>2, <2>1, <2>3
  <2> QED BY <1>2, <1>3, <2>1, <2>2, <2>4
<1>10. CASE Works(d)
  BY <1>2, <1>3, <1>5, <1>10 DEF Works
<1>11. CASE SendsFitting(d)
  <2>1. PICK kind \in Commands, a \in Askers :
          Sends(d, kind, a) /\ Fits([kind |-> kind, by |-> a], boot)
    BY <1>11 DEF SendsFitting, boot
  <2>2. \A x : \A i \in DOMAIN Append(client[d].queue, x) :
          Append(client[d].queue, x)[i] = x
          \/ (i \in DOMAIN client[d].queue /\ Append(client[d].queue, x)[i] = client[d].queue[i])
    BY <1>4
  <2> QED BY <1>2, <1>3, <2>1, <2>2 DEF Sends
<1> QED BY <1>6, <1>7, <1>8, <1>9, <1>10, <1>11 DEF Moves

-----------------------------------------------------------------------------
(* The steps of the owners. *)

\* Every pending request is answered when the owner leaves.
LEMMA ShutdownForms ==
    ASSUME RegistryIInv, NEW c \in Clients, TakeShutdown(c)
    PROVE  /\ TypeOK' /\ AsksStay /\ Drops(c) /\ Tells
           /\ \A d \in Clients \ {c} : client'[d] = client[d]
           /\ ask[Boot].at \in {"SHUTDOWN", "down"}
           /\ UNCHANGED <<source, lock, execs, calm, healthUrl>>
<1> DEFINE q == client[c].queue
           r == Cancelled(client[c])
           new == [r EXCEPT !.session = client[c].session, !.backoff = FALSE]
<1>1. TypeOK /\ QueuesFit /\ client \in [Clients -> ClientType] /\ client[c] \in ClientType
      /\ ask \in [Askers -> AskType]
  BY DEF RegistryIInv, TypeOK
<1>2. q # <<>> /\ q \in Seq(CommandRecord) /\ Head(q).kind = "SHUTDOWN"
  BY <1>1 DEF TakeShutdown, Idling, ClientType
<1>3. Head(q).by = Boot /\ ask[Boot].at \in {"SHUTDOWN", "down"}
  <2>1. 1 \in DOMAIN q /\ Head(q) = q[1]
    BY <1>2
  <2> QED BY <1>1, <1>2, <2>1 DEF QueuesFit, Fits
<1>4. client' = [client EXCEPT ![c] = new] /\ UNCHANGED <<source, lock, execs, calm, healthUrl>>
  BY <1>1 DEF TakeShutdown
<1>5. r \in ClientType /\ r.running = FALSE /\ r.step = "idle" /\ r.again = FALSE
      /\ r.cmd = NoCommand /\ r.queue = <<>>
  BY <1>1, ClientRecords
<1> HIDE DEF r
<1>6. new \in ClientType /\ new.running = FALSE /\ new.step = "idle" /\ new.again = FALSE
      /\ new.cmd = NoCommand /\ new.queue = <<>>
  BY <1>1, <1>5 DEF ClientType
<1> HIDE DEF new
<1>7. client' \in [Clients -> ClientType] /\ client'[c] = new /\ \A d \in Clients \ {c} : client'[d] = client[d]
  BY <1>1, <1>4, <1>6, OneClient
<1>8. Drops(c)
  BY <1>6, <1>7 DEF Drops
<1>9. \A a \in Askers :
        \/ ask'[a] = ask[a]
        \/ ask'[a] = [ask[a] EXCEPT !.reply = IF a = Head(q).by THEN "ok" ELSE "error"]
  BY DEF TakeShutdown
<1>10. \A a \in Askers :
         /\ ask'[a] \in AskType /\ ask'[a].at = ask[a].at /\ ask'[a].on = ask[a].on
         /\ ask'[a].reply = ask[a].reply \/ ask'[a].reply = (IF a = Boot THEN "ok" ELSE "error")
  <2> TAKE a \in Askers
  <2>1. ask[a] \in AskType
    BY <1>1
  <2>2. CASE ask'[a] = ask[a]
    BY <2>1, <2>2
  <2>3. CASE ask'[a] = [ask[a] EXCEPT !.reply = IF a = Head(q).by THEN "ok" ELSE "error"]
    BY <1>3, <2>1, <2>3 DEF AskType
  <2> QED BY <1>9, <2>2, <2>3
<1>11. ask' \in [Askers -> AskType]
  <2>1. ask' = [a \in Askers |-> ask'[a]]
    BY DEF TakeShutdown
  <2> QED BY <1>10, <2>1
<1>12. Tells
  <2>1. \A k \in Calls : k # Boot /\ k \in Askers
    BY RolesAreDistinct DEF Askers
  <2> QED BY <1>10, <2>1 DEF Tells
<1> QED BY <1>1, <1>3, <1>4, <1>7, <1>8, <1>10, <1>11, <1>12 DEF TypeOK, AsksStay

\* Where the tasks are, who holds the lock and what is registered stay as they
\* are, and no owner ends but in a shutdown.
LEMMA OwnerKeeps ==
    ASSUME RegistryIInv, TypeOK', AsksStay, UNCHANGED <<source, lock>>, \A d \in Clients : Moves(d),
           \/ \A d \in Clients : client'[d].running = client[d].running
           \/ ask[Boot].at \in {"SHUTDOWN", "down"}
    PROVE  RegistryIInv'
<1> USE DEF RegistryIInv
<1>1. \A a \in Askers : ask'[a].at = ask[a].at /\ ask'[a].on = ask[a].on
  BY DEF AsksStay
<1>2. Boot \in Askers /\ Calls \subseteq Askers /\ Probers \subseteq Askers /\ Runtime \subseteq Askers
  BY DEF Askers, Runtime
<1>3. QueuesFit' /\ IdleOwners'
  BY <1>1, <1>2, ClientsKept
<1>4. Roles'
  BY <1>1, <1>2 DEF Roles
<1>5. LockHeld'
  BY <1>1, <1>2 DEF LockHeld
<1>6. OutOfService'
  BY <1>1, <1>2 DEF OutOfService
<1>7. RevivesOthers'
  BY <1>1, <1>2 DEF RevivesOthers
<1>8. ConnectsAlone' /\ RegisteredRuns'
  <2>1. CASE \A d \in Clients : client'[d].running = client[d].running
    <3>1. RegisteredRuns'
      BY <2>1 DEF RegisteredRuns, TypeOK, SourceType
    <3>2. \A a \in Runtime : ask[a].at \in {"CONNECT", "LIST_TOOLS"} => ask[a].on \in Clients
      BY <1>2 DEF Roles, Commands
    <3> QED BY <1>1, <1>2, <2>1, <3>1, <3>2 DEF ConnectsAlone
  <2>2. CASE ask[Boot].at \in {"SHUTDOWN", "down"}
    <3>1. source.client = NoClient /\ \A p \in Probers : ask[p].at = "idle"
      BY <2>2 DEF OutOfService
    <3>2. \A a \in Runtime : ask[a].at \notin {"CONNECT", "LIST_TOOLS"}
      BY <2>2, <3>1 DEF Runtime
    <3> QED BY <1>1, <1>2, <3>1, <3>2 DEF ConnectsAlone, RegisteredRuns
  <2> QED BY <2>1, <2>2
<1> QED BY <1>3, <1>4, <1>5, <1>6, <1>7, <1>8

\* What a step of an owner does.
OwnerForm(c) ==
    /\ AsksStay /\ Tells
    /\ \A d \in Clients \ {c} : client'[d] = client[d]
    /\ \/ (Drops(c) \/ Takes(c)) /\ execs' = execs
       \/ Works(c) /\ Executes(c)

LEMMA OwnerSteps ==
    ASSUME RegistryIInv, NEW c \in Clients,
           OwnerStep(c) \/ BackoffEnds(c) \/ (\E done \in BOOLEAN : Hangs(c, done))
    PROVE  RegistryIInv' /\ OwnerForm(c)
<1>1. CASE TakeShutdown(c)
  <2>1. /\ TypeOK' /\ AsksStay /\ Drops(c) /\ Tells
        /\ \A d \in Clients \ {c} : client'[d] = client[d]
        /\ ask[Boot].at \in {"SHUTDOWN", "down"}
        /\ UNCHANGED <<source, lock, execs, calm, healthUrl>>
    BY <1>1, ShutdownForms
  <2>2. \A d \in Clients : Moves(d)
    BY <2>1 DEF Moves
  <2> QED BY <2>1, <2>2, OwnerKeeps DEF OwnerForm
<1>2. CASE Take(c) \/ Refuse(c)
  <2>1. TypeOK' /\ AsksStay /\ Takes(c) /\ \A d \in Clients \ {c} : client'[d] = client[d]
    BY <1>2, TakeForms DEF RegistryIInv
  <2>2. UNCHANGED <<source, lock, execs, calm, healthUrl>>
    BY <1>2 DEF Take, Refuse
  <2>3. \A d \in Clients : Moves(d)
    BY <2>1 DEF Moves
  <2>4. \A d \in Clients : client'[d].running = client[d].running
    BY <2>1 DEF Takes
  <2>5. Tells
    <3>1. CASE Take(c)
      BY <3>1 DEF Take, Tells
    <3>2. CASE Refuse(c)
      <4>1. \A a \in Askers : ask'[a].reply = ask[a].reply \/ ask'[a].reply = "error"
        <5>1. TypeOK /\ ask' = Answered(ask, Head(client[c].queue), c, "error")
          BY <3>2 DEF Refuse, RegistryIInv
        <5> QED BY <5>1, AnswerStep
      <4> QED BY <4>1 DEF Tells, Askers
    <3> QED BY <1>2, <3>1, <3>2
  <2> QED BY <2>1, <2>2, <2>3, <2>4, <2>5, OwnerKeeps DEF OwnerForm
<1>3. CASE ~TakeShutdown(c) /\ ~(Take(c) \/ Refuse(c))
  <2>1. WorkForms(c)
    BY <1>3, FinishSteps, GoOnSteps DEF OwnerStep
  <2>2. \A d \in Clients : Moves(d)
    BY <2>1 DEF Moves, WorkForms
  <2>3. \A d \in Clients : client'[d].running = client[d].running
    BY <2>1 DEF Works, WorkForms
  <2> QED BY <2>1, <2>2, <2>3, OwnerKeeps DEF OwnerForm, WorkForms
<1> QED BY <1>1, <1>2, <1>3

-----------------------------------------------------------------------------
(* The steps of the runtime. *)

Waiting == {"url", "HEALTH", "CONNECT", "LIST_TOOLS", "SHUTDOWN"}

\* The clients of a step that sends no tool call.
SendsOther(d) ==
    \E kind \in Commands \ {"CALL_TOOL"}, a \in Askers :
      Sends(d, kind, a) /\ Fits([kind |-> kind, by |-> a], ask'[Boot].at)

Quiet(d) == client'[d] = client[d] \/ Drops(d) \/ Opens(d) \/ SendsOther(d)

\* One task of the runtime moves.
LEMMA RuntimeKeeps ==
    ASSUME RegistryIInv, TypeOK', NEW a \in Runtime, \A b \in Askers \ {a} : ask'[b] = ask[b],
           \A d \in Clients : Quiet(d),
           \/ \A b \in Runtime \ {a} : ask[b].at \notin Waiting
           \/ UNCHANGED <<client, source, lock>> /\ ask'[a].on = NoClient,
           a \in Probers => ask'[a].at \in {"idle", "lock", "url", "reset", "CONNECT", "LIST_TOOLS", "HEALTH"},
           a = Boot => ask'[a].at \in {"CONNECT", "LIST_TOOLS", "up", "SHUTDOWN", "down"},
           ask'[a].at \in Commands => ask'[a].on \in Clients,
           ask'[a].at \in Waiting => lock' = a,
           ask'[a].at \in {"CONNECT", "LIST_TOOLS"} =>
             /\ source'.client = NoClient /\ source'.tools # ask'[a].on /\ client'[ask'[a].on].running
             /\ \A b \in Askers \ {a} : ask[b].on # ask'[a].on,
           ask[Boot].at \in {"SHUTDOWN", "down"} => ask'[Boot].at \in {"SHUTDOWN", "down"},
           OutOfService', RegisteredRuns',
           \A k \in Calls : ask[k].at = "CONNECT" => source'.client # ask[k].on
    PROVE  RegistryIInv'
<1> USE DEF RegistryIInv
<1>1. Boot \in Askers /\ Calls \subseteq Askers /\ Probers \subseteq Askers /\ Runtime \subseteq Askers
      /\ a \notin Calls /\ (a \in Probers => a # Boot) /\ (a \notin Probers => a = Boot)
  BY RolesAreDistinct DEF Askers, Runtime
<1>2. QueuesFit' /\ IdleOwners'
  <2>1. \A d \in Clients : Moves(d)
    BY DEF Quiet, Moves, SendsOther, SendsFitting
  <2> QED BY <2>1, ClientsKept
<1>3. Roles'
  <2>1. \A k \in Calls :
         ask'[k].at \in {"idle", "held", "direct", "retry", "CALL_TOOL", "RECONNECT", "CONNECT",
                        "done", "failed", "stuck"}
    BY <1>1 DEF Roles
  <2>2. \A p \in Probers :
         ask'[p].at \in {"idle", "lock", "url", "reset", "CONNECT", "LIST_TOOLS", "HEALTH"}
    BY <1>1 DEF Roles
  <2>3. ask'[Boot].at \in {"boot", "CONNECT", "LIST_TOOLS", "up", "SHUTDOWN", "down"}
    BY <1>1 DEF Roles
  <2>4. \A b \in Askers :
         ask'[b].at \in Commands \cup {"held", "direct", "retry"} => ask'[b].on \in Clients
    <3>1. ask'[a].at \notin {"held", "direct", "retry"}
      BY <1>1
    <3> QED BY <3>1 DEF Roles
  <2> QED BY <2>1, <2>2, <2>3, <2>4 DEF Roles
<1>4. LockHeld'
  BY <1>1 DEF LockHeld, Waiting
<1>5. ConnectsAlone'
  <2> SUFFICES ASSUME NEW b \in Runtime, ask'[b].at \in {"CONNECT", "LIST_TOOLS"}
               PROVE  /\ source'.client = NoClient /\ source'.tools # ask'[b].on
                      /\ client'[ask'[b].on].running
                      /\ \A e \in Askers \ {b} : ask'[e].on # ask'[b].on
    BY DEF ConnectsAlone
  <2>1. CASE b = a
    BY <2>1
  <2>2. CASE b # a
    <3>1. ask'[b] = ask[b] /\ ask[b].at \in Waiting
      BY <1>1, <2>2 DEF Waiting
    <3>2. UNCHANGED <<client, source, lock>> /\ ask'[a].on = NoClient
      BY <2>2, <3>1
    <3>3. ask[b].on \in Clients /\ ask[b].on # NoClient
      BY <1>1, <3>1, RolesAreDistinct DEF Roles, Commands
    <3>4. /\ source.client = NoClient /\ source.tools # ask[b].on
          /\ client[ask[b].on].running
          /\ \A e \in Askers \ {b} : ask[e].on # ask[b].on
      BY <3>1 DEF ConnectsAlone
    <3> QED BY <1>1, <3>1, <3>2, <3>3, <3>4
  <2> QED BY <2>1, <2>2
<1>6. RevivesOthers'
  BY <1>1 DEF RevivesOthers
<1> QED BY <1>2, <1>3, <1>4, <1>5, <1>6

LEMMA AskChange ==
    ASSUME TypeOK, NEW a \in Askers, NEW rec \in AskType, ask' = [ask EXCEPT ![a] = rec]
    PROVE  ask' \in [Askers -> AskType] /\ ask'[a] = rec /\ \A b \in Askers \ {a} : ask'[b] = ask[b]
  BY DEF TypeOK

LEMMA ReleasedForm ==
    ASSUME TypeOK, NEW c \in Clients, client' = Released(c)
    PROVE  client' \in [Clients -> ClientType] /\ Drops(c) /\ \A d \in Clients \ {c} : client'[d] = client[d]
<1>1. client[c] \in ClientType /\ client \in [Clients -> ClientType]
  BY DEF TypeOK
<1>2. PICK r \in {Cancelled(client[c]), NewClient} : client' = [client EXCEPT ![c] = r]
  BY <1>1 DEF Released
<1>3. r \in ClientType /\ r.running = FALSE /\ r.step = "idle" /\ r.again = FALSE
      /\ r.cmd = NoCommand /\ r.queue = <<>>
  <2>1. CASE r = NewClient
    BY <2>1, ClientRecords DEF NewClient
  <2>2. CASE r = Cancelled(client[c])
    BY <1>1, <2>2, ClientRecords
  <2> QED BY <2>1, <2>2
<1>4. client' \in [Clients -> ClientType] /\ client'[c] = r /\ \A d \in Clients \ {c} : client'[d] = client[d]
  BY <1>2, <1>3, OneClient
<1> QED BY <1>3, <1>4 DEF Drops

LEMMA OpenedForm ==
    ASSUME TypeOK, NEW c \in Clients, NEW r \in ClientType, ~r.again, NEW a \in Askers,
           client' = [client EXCEPT ![c] = Opened(r, a)]
    PROVE  client' \in [Clients -> ClientType] /\ Opens(c) /\ \A d \in Clients \ {c} : client'[d] = client[d]
<1>1. /\ Opened(r, a) \in ClientType
      /\ Opened(r, a).running = TRUE /\ Opened(r, a).step = "idle" /\ Opened(r, a).again = r.again
      /\ Opened(r, a).cmd = NoCommand /\ Opened(r, a).queue = <<[kind |-> "CONNECT", by |-> a]>>
  BY ClientRecords
<1>2. client' \in [Clients -> ClientType] /\ client'[c] = Opened(r, a)
      /\ \A d \in Clients \ {c} : client'[d] = client[d]
  BY <1>1, OneClient
<1>3. r.again = FALSE
  BY DEF ClientType
<1> QED BY <1>1, <1>2, <1>3 DEF Opens

LEMMA SentForm ==
    ASSUME TypeOK, NEW c \in Clients, NEW kind \in Commands, NEW a \in Askers,
           client' = [client EXCEPT ![c] = Send(c, kind, a)]
    PROVE  client' \in [Clients -> ClientType] /\ Sends(c, kind, a)
           /\ \A d \in Clients \ {c} : client'[d] = client[d]
<1>1. /\ Send(c, kind, a) \in ClientType
      /\ Send(c, kind, a).queue = Append(client[c].queue, [kind |-> kind, by |-> a])
      /\ Send(c, kind, a).running = client[c].running /\ Send(c, kind, a).step = client[c].step
      /\ Send(c, kind, a).again = client[c].again /\ Send(c, kind, a).cmd = client[c].cmd
  BY SendRecord
<1>2. client' \in [Clients -> ClientType] /\ client'[c] = Send(c, kind, a)
      /\ \A d \in Clients \ {c} : client'[d] = client[d]
  BY <1>1, OneClient
<1> QED BY <1>1, <1>2 DEF Sends

\* A new client is connected by a task of the runtime.
LEMMA ConnectForm ==
    ASSUME TypeOK, NEW a \in Askers, ConnectSource(a)
    PROVE  /\ ask' \in [Askers -> AskType] /\ client' \in [Clients -> ClientType]
           /\ \A b \in Askers \ {a} : ask'[b] = ask[b]
           /\ ask'[a].at = "CONNECT" /\ ask'[a].on \in Unreferenced /\ client'[ask'[a].on].running
           /\ \A d \in Clients : Quiet(d)
<1>1. PICK c \in Unreferenced :
        client' = [client EXCEPT ![c] = Opened(NewClient, a)] /\ ask' = [ask EXCEPT ![a] = Asking("CONNECT", c)]
  BY DEF ConnectSource
<1>2. c \in Clients
  BY DEF Unreferenced
<1>3. NewClient \in ClientType /\ ~NewClient.again
  BY ClientRecords DEF NewClient
<1>4. client' \in [Clients -> ClientType] /\ Opens(c) /\ \A d \in Clients \ {c} : client'[d] = client[d]
  BY <1>1, <1>2, <1>3, OpenedForm
<1>5. Asking("CONNECT", c) \in AskType /\ Asking("CONNECT", c).at = "CONNECT" /\ Asking("CONNECT", c).on = c
  BY <1>2, AskRecords DEF Places, Commands
<1>6. ask' \in [Askers -> AskType] /\ ask'[a] = Asking("CONNECT", c) /\ \A b \in Askers \ {a} : ask'[b] = ask[b]
  BY <1>1, <1>5, AskChange
<1> QED BY <1>4, <1>5, <1>6 DEF Quiet, Opens

\* What a step of the runtime does.
RuntimeForm ==
    /\ \A d \in Clients : Quiet(d)
    /\ \A k \in Calls : ask'[k] = ask[k]
    /\ execs' = execs

LEMMA RolesApart ==
    /\ Boot \in Askers /\ Calls \subseteq Askers /\ Probers \subseteq Askers
    /\ Boot \notin Probers /\ Boot \notin Calls /\ Probers \cap Calls = {}
    /\ Runtime \subseteq Askers /\ Runtime \cap Calls = {} /\ Nobody \notin Askers /\ NoClient \notin Clients
    /\ Runtime = Probers \cup {Boot}
  BY RolesAreDistinct DEF Askers, Runtime

\* The one that has the lock, or takes it, is the only one that waits.
LEMMA OneWaits ==
    ASSUME RegistryIInv, NEW a \in Runtime, lock = Nobody \/ lock = a
    PROVE  \A b \in Runtime \ {a} : ask[b].at \notin Waiting
  BY RolesApart DEF RegistryIInv, LockHeld, Waiting

LEMMA BootConnectKeeps ==
    ASSUME RegistryIInv, BootConnect
    PROVE  RegistryIInv' /\ RuntimeForm
<1>1. /\ ask[Boot].at = "boot" /\ lock = Nobody /\ lock' = Boot /\ ConnectSource(Boot)
      /\ UNCHANGED <<source, execs, calm, healthUrl>>
  BY DEF BootConnect
<1>2. TypeOK
  BY DEF RegistryIInv
<1>3. /\ ask' \in [Askers -> AskType] /\ client' \in [Clients -> ClientType]
      /\ \A b \in Askers \ {Boot} : ask'[b] = ask[b]
      /\ ask'[Boot].at = "CONNECT" /\ ask'[Boot].on \in Unreferenced /\ client'[ask'[Boot].on].running
      /\ \A d \in Clients : Quiet(d)
  BY <1>1, <1>2, RolesApart, ConnectForm
<1>4. source.client = NoClient
  BY <1>1 DEF RegistryIInv, OutOfService
<1>5. TypeOK'
  BY <1>1, <1>2, <1>3 DEF TypeOK
<1>6. OutOfService' /\ RegisteredRuns'
  BY <1>1, <1>3, <1>4 DEF OutOfService, RegisteredRuns
<1>7. ask'[Boot].on \in Clients /\ source.tools # ask'[Boot].on /\ \A b \in Askers : ask[b].on # ask'[Boot].on
  BY <1>3 DEF Unreferenced
<1>8. \A b \in Runtime \ {Boot} : ask[b].at \notin Waiting
  BY <1>1, RolesApart, OneWaits
<1>9. \A k \in Calls : ask[k].at = "CONNECT" => source'.client # ask[k].on
  BY <1>1 DEF RegistryIInv, RevivesOthers
<1>10. Boot \in Runtime /\ Boot \notin Probers
  BY RolesApart
<1>11. RegistryIInv'
  BY <1>1, <1>3, <1>4, <1>5, <1>6, <1>7, <1>8, <1>9, <1>10, RuntimeKeeps
<1> QED BY <1>1, <1>3, <1>11, RolesApart DEF RuntimeForm

LEMMA ProbeRests ==
    ASSUME NEW p \in Probers
    PROVE  /\ Rest(p) = At("idle") /\ p \in Runtime /\ p \in Askers /\ p # Boot /\ p # Nobody /\ p \notin Calls
           /\ \A place \in Places : At(place) \in AskType /\ At(place).at = place /\ At(place).on = NoClient
  BY RolesApart, AskRecords DEF Rest

\* A probe that is not idle runs while the application is up.
LEMMA ProbesInService ==
    ASSUME RegistryIInv, NEW p \in Probers, ask[p].at # "idle"
    PROVE  ask[Boot].at \notin {"boot", "SHUTDOWN", "down"}
  BY DEF RegistryIInv, OutOfService

LEMMA StartProbeKeeps ==
    ASSUME RegistryIInv, NEW p \in Probers, StartProbe(p)
    PROVE  RegistryIInv' /\ RuntimeForm
<1>1. TypeOK /\ ask[Boot].at = "up" /\ UNCHANGED <<client, source, lock, execs, calm, healthUrl>>
  BY DEF RegistryIInv, StartProbe
<1>2. At("lock") \in AskType /\ At("lock").at = "lock" /\ At("lock").on = NoClient
      /\ p \in Askers /\ p \in Runtime /\ p # Boot /\ Boot \in Askers /\ p \notin Calls
  BY AskRecords, RolesApart DEF Places
<1>3. ask' \in [Askers -> AskType] /\ ask'[p] = At("lock") /\ \A b \in Askers \ {p} : ask'[b] = ask[b]
  BY <1>1, <1>2, AskChange DEF StartProbe
<1>4. TypeOK'
  BY <1>1, <1>3 DEF TypeOK
<1>5. ask'[p].at = "lock" /\ ask'[p].on = NoClient /\ ask'[Boot].at = "up"
  BY <1>1, <1>2, <1>3
<1>6. OutOfService' /\ RegisteredRuns'
  BY <1>1, <1>5 DEF OutOfService, RegisteredRuns, RegistryIInv
<1>7. \A d \in Clients : Quiet(d)
  BY <1>1 DEF Quiet
<1>8. \A k \in Calls : ask[k].at = "CONNECT" => source'.client # ask[k].on
  BY <1>1 DEF RegistryIInv, RevivesOthers
<1>9. "lock" \notin Commands /\ "lock" \notin Waiting
  BY DEF Commands, Waiting
<1>10. RegistryIInv'
  BY <1>1, <1>2, <1>3, <1>4, <1>5, <1>6, <1>7, <1>8, <1>9, RuntimeKeeps
<1> QED BY <1>1, <1>2, <1>3, <1>7, <1>10, RolesApart DEF RuntimeForm

\* A full probe, whoever makes it.
LEMMA FullProbeKeeps ==
    ASSUME RegistryIInv, NEW p \in Probers, ask[p].at # "idle", lock = Nobody \/ lock = p, lock' = p,
           FullProbe(p), UNCHANGED <<source, execs, calm, healthUrl>>
    PROVE  RegistryIInv' /\ RuntimeForm
<1>1. TypeOK /\ p \in Askers /\ p \in Runtime /\ p # Boot /\ Boot \in Askers /\ p \notin Calls
      /\ ask[Boot].at \notin {"boot", "SHUTDOWN", "down"}
  BY RolesApart, ProbesInService DEF RegistryIInv
<1>2. \A b \in Runtime \ {p} : ask[b].at \notin Waiting
  BY <1>1, OneWaits
<1>3. \A k \in Calls : ask[k].at = "CONNECT" => source'.client # ask[k].on
  BY DEF RegistryIInv, RevivesOthers
<1>4. CASE source.client = NoClient
  <2>1. /\ ask' \in [Askers -> AskType] /\ client' \in [Clients -> ClientType]
        /\ \A b \in Askers \ {p} : ask'[b] = ask[b]
        /\ ask'[p].at = "CONNECT" /\ ask'[p].on \in Unreferenced /\ client'[ask'[p].on].running
        /\ \A d \in Clients : Quiet(d)
    BY <1>1, <1>4, ConnectForm DEF FullProbe
  <2>2. ask'[p].on \in Clients /\ source.tools # ask'[p].on /\ \A b \in Askers : ask[b].on # ask'[p].on
    BY <2>1 DEF Unreferenced
  <2>3. TypeOK'
    BY <1>1, <2>1 DEF TypeOK
  <2>4. OutOfService' /\ RegisteredRuns'
    BY <1>1, <1>4, <2>1 DEF OutOfService, RegisteredRuns
  <2>5. RegistryIInv'
    BY <1>1, <1>2, <1>3, <1>4, <2>1, <2>2, <2>3, <2>4, RuntimeKeeps
  <2> QED BY <1>1, <2>1, <2>5, RolesApart DEF RuntimeForm
<1>5. CASE source.client # NoClient
  <2> DEFINE c == source.client
  <2>1. c \in Clients
    BY <1>1, <1>5 DEF TypeOK, SourceType
  <2>2. /\ client' = [client EXCEPT ![c] = Send(c, "HEALTH", p)]
        /\ ask' = [ask EXCEPT ![p] = Asking("HEALTH", c)]
    BY <1>5 DEF FullProbe
  <2>3. client' \in [Clients -> ClientType] /\ Sends(c, "HEALTH", p) /\ \A d \in Clients \ {c} : client'[d] = client[d]
    BY <1>1, <2>1, <2>2, SentForm DEF Commands
  <2>4. Asking("HEALTH", c) \in AskType /\ Asking("HEALTH", c).at = "HEALTH" /\ Asking("HEALTH", c).on = c
    BY <2>1, AskRecords DEF Places, Commands
  <2>5. ask' \in [Askers -> AskType] /\ ask'[p] = Asking("HEALTH", c) /\ \A b \in Askers \ {p} : ask'[b] = ask[b]
    BY <1>1, <2>2, <2>4, AskChange
  <2>6. TypeOK'
    BY <1>1, <1>5, <2>3, <2>5, RolesApart DEF TypeOK
  <2>7. \A d \in Clients : Quiet(d)
    BY <1>1, <2>3 DEF Quiet, SendsOther, Fits, Commands
  <2>8. OutOfService' /\ RegisteredRuns'
    BY <1>1, <2>1, <2>3, <2>5 DEF OutOfService, RegisteredRuns, RegistryIInv, Sends
  <2>9. ask'[p].at = "HEALTH" /\ ask'[p].on \in Clients
    BY <2>1, <2>4, <2>5
  <2>10. RegistryIInv'
    BY <1>1, <1>2, <1>3, <2>5, <2>6, <2>7, <2>8, <2>9, RuntimeKeeps
  <2> QED BY <1>1, <2>5, <2>7, <2>10, RolesApart DEF RuntimeForm
<1> QED BY <1>4, <1>5

\* The task comes to rest and gives the lock back.
LEMMA RestKeeps ==
    ASSUME RegistryIInv, TypeOK', NEW a \in Runtime, NEW rec \in AskType, ask' = [ask EXCEPT ![a] = rec],
           rec.on = NoClient, a \in Probers => rec.at \in {"idle", "reset"},
           a = Boot => rec.at = "up" \/ (rec.at = "down" /\ source'.client = NoClient /\ \A p \in Probers : ask[p].at = "idle"),
           a = Boot => ask[Boot].at \notin {"SHUTDOWN", "down"} \/ rec.at = "down",
           lock = a \/ lock = Nobody, execs' = execs,
           \A d \in Clients : Quiet(d),
           a \in Probers => ask[a].at # "idle", RegisteredRuns',
           \A k \in Calls : ask[k].at = "CONNECT" => source'.client # ask[k].on
    PROVE  RegistryIInv' /\ RuntimeForm
<1>1. TypeOK /\ a \in Askers /\ Boot \in Askers /\ a \notin Calls /\ (a \notin Probers => a = Boot) /\ Boot \notin Probers
      /\ Probers \subseteq Askers
  BY RolesApart DEF RegistryIInv
<1>2. ask' \in [Askers -> AskType] /\ ask'[a] = rec /\ \A b \in Askers \ {a} : ask'[b] = ask[b]
  BY <1>1, AskChange
<1>3. \A b \in Runtime \ {a} : ask[b].at \notin Waiting
  BY OneWaits
<1>4. OutOfService'
  <2>1. CASE a = Boot
    BY <1>1, <1>2, <2>1 DEF OutOfService
  <2>2. CASE a \in Probers
    <3>1. ask'[Boot] = ask[Boot]
      BY <1>1, <1>2, <2>2
    <3> QED BY <2>2, <3>1, ProbesInService DEF OutOfService
  <2> QED BY <1>1, <2>1, <2>2
<1>5. rec.at \notin Commands /\ rec.at \notin Waiting
  BY <1>1 DEF Commands, Waiting
<1>6. RegistryIInv'
  BY <1>1, <1>2, <1>3, <1>4, <1>5, RuntimeKeeps
<1> QED BY <1>1, <1>2, <1>6, RolesApart DEF RuntimeForm

\* What a reply to a health probe, or none, makes of the registry.
LEMMA SourceRecords ==
    ASSUME source \in SourceType
    PROVE  /\ [source EXCEPT !.ready = TRUE, !.count = 1] \in SourceType
           /\ [source EXCEPT !.ready = TRUE, !.count = 1].client = source.client
           /\ Failed \in SourceType /\ Failed.client = source.client
           /\ [Failed EXCEPT !.tools = NoClient] \in SourceType
           /\ [Failed EXCEPT !.tools = NoClient].client = source.client
<1>1. 0 \in 0..1 /\ 1 \in 0..1 /\ TRUE \in BOOLEAN /\ FALSE \in BOOLEAN
  OBVIOUS
<1>2. [source EXCEPT !.ready = TRUE, !.count = 1] \in SourceType
      /\ [source EXCEPT !.ready = TRUE, !.count = 1].client = source.client
  BY <1>1 DEF SourceType
<1>3. Failed \in SourceType
  BY <1>1 DEF SourceType, Failed
<1>4. Failed.client = source.client
  BY DEF SourceType, Failed
<1>5. [Failed EXCEPT !.tools = NoClient] \in SourceType /\ [Failed EXCEPT !.tools = NoClient].client = Failed.client
  BY <1>3 DEF SourceType
<1> QED BY <1>2, <1>3, <1>4, <1>5

LEMMA ProbeKeeps ==
    ASSUME RegistryIInv, NEW p \in Probers, ProbeStep(p)
    PROVE  RegistryIInv' /\ RuntimeForm
<1> USE DEF RegistryIInv
<1>0. TypeOK /\ p \in Askers /\ p \in Runtime /\ p # Boot /\ p \notin Calls /\ Rest(p) = At("idle")
      /\ p # Nobody /\ Boot # Nobody /\ Boot \in Askers
  BY RolesApart, ProbeRests
<1>1. \A place \in {"idle", "reset", "url"} :
        At(place) \in AskType /\ At(place).at = place /\ At(place).on = NoClient
  BY AskRecords DEF Places
<1>2. CASE StartProbe(p)
  BY <1>2, StartProbeKeeps
<1>3. CASE RefreshSource(p)
  <2>1. ask[p].at = "lock" /\ lock = Nobody /\ lock' = p /\ UNCHANGED <<source, execs, calm, healthUrl>>
    BY <1>3 DEF RefreshSource
  <2>2. CASE FullProbe(p)
    BY <2>1, <2>2, FullProbeKeeps
  <2>3. CASE ask' = [ask EXCEPT ![p] = At("url")] /\ UNCHANGED client
    <3>1. ask' \in [Askers -> AskType] /\ ask'[p] = At("url") /\ \A b \in Askers \ {p} : ask'[b] = ask[b]
      BY <1>0, <1>1, <2>3, AskChange
    <3>2. TypeOK'
      BY <1>0, <2>1, <2>3, <3>1 DEF TypeOK
    <3>3. ask[Boot].at \notin {"boot", "SHUTDOWN", "down"}
      BY <2>1, ProbesInService
    <3>4. OutOfService' /\ RegisteredRuns'
      BY <1>0, <2>1, <2>3, <3>1, <3>3 DEF OutOfService, RegisteredRuns
    <3>5. \A d \in Clients : Quiet(d)
      BY <2>3 DEF Quiet
    <3>6. \A k \in Calls : ask[k].at = "CONNECT" => source'.client # ask[k].on
      BY <2>1 DEF RevivesOthers
    <3>7. \A b \in Runtime \ {p} : ask[b].at \notin Waiting
      BY <1>0, <2>1, OneWaits
    <3>8. ask'[p].at = "url" /\ "url" \notin Commands
      BY <1>1, <3>1 DEF Commands
    <3>9. RegistryIInv'
      BY <1>0, <2>1, <3>1, <3>2, <3>3, <3>4, <3>5, <3>6, <3>7, <3>8, RuntimeKeeps
    <3> QED BY <1>0, <2>1, <3>1, <3>5, <3>9, RolesApart DEF RuntimeForm
  <2> QED BY <1>3, <2>2, <2>3 DEF RefreshSource
<1>4. CASE UrlFails(p)
  <2>1. ask[p].at = "url" /\ FullProbe(p) /\ UNCHANGED <<source, lock, execs, calm, healthUrl>>
    BY <1>4 DEF UrlFails
  <2>2. lock = p
    BY <1>0, <2>1 DEF LockHeld
  <2> QED BY <2>1, <2>2, FullProbeKeeps
<1>5. CASE UrlAnswers(p) \/ HealthReplied(p)
  <2>1. /\ ask[p].at \in {"url", "HEALTH"} /\ lock' = Nobody /\ ask' = [ask EXCEPT ![p] = At("idle")]
        /\ UNCHANGED <<client, execs, calm, healthUrl>>
    BY <1>0, <1>5 DEF UrlAnswers, HealthReplied
  <2>2. source' \in SourceType /\ source'.client = source.client
    <3>1. source \in SourceType /\ ask[p] \in AskType
      BY <1>0 DEF TypeOK
    <3>2. CASE UrlAnswers(p)
      BY <3>1, <3>2 DEF UrlAnswers, SourceType
    <3>3. CASE HealthReplied(p)
      <4>1. ask[p].reply \in {"ok", "empty", "error"}
        BY <3>1, <3>3 DEF HealthReplied, AskType
      <4>2. source' = [source EXCEPT !.ready = TRUE, !.count = 1] \/ source' = Failed
            \/ source' = [Failed EXCEPT !.tools = NoClient]
        BY <3>3, <4>1 DEF HealthReplied
      <4> QED BY <3>1, <4>2, SourceRecords
    <3> QED BY <1>5, <3>2, <3>3
  <2>3. lock = p
    BY <1>0, <2>1 DEF LockHeld
  <2>4. ask' \in [Askers -> AskType]
    BY <1>0, <1>1, <2>1, AskChange
  <2>5. TypeOK'
    BY <1>0, <2>1, <2>2, <2>4 DEF TypeOK
  <2>6. RegisteredRuns'
    BY <2>1, <2>2 DEF RegisteredRuns
  <2>7. \A d \in Clients : Quiet(d)
    BY <2>1 DEF Quiet
  <2>8. \A k \in Calls : ask[k].at = "CONNECT" => source'.client # ask[k].on
    BY <2>2 DEF RevivesOthers
  <2> QED BY <1>0, <1>1, <2>1, <2>3, <2>5, <2>6, <2>7, <2>8, RestKeeps
<1>6. CASE ProbeTimesOut(p)
  <2>1. /\ ask[p].at \in {"lock", "url", "CONNECT", "LIST_TOOLS", "HEALTH"}
        /\ ask' = [ask EXCEPT ![p] = At("reset")]
        /\ lock' = (IF lock = p THEN Nobody ELSE lock)
        /\ client' = (IF ask[p].at \in {"CONNECT", "LIST_TOOLS"} THEN Released(ask[p].on) ELSE client)
        /\ UNCHANGED <<source, execs, calm, healthUrl>>
    BY <1>6 DEF ProbeTimesOut
  <2>2. ask' \in [Askers -> AskType] /\ ask'[p] = At("reset") /\ \A b \in Askers \ {p} : ask'[b] = ask[b]
    BY <1>0, <1>1, <2>1, AskChange
  <2>3. CASE ask[p].at \in {"CONNECT", "LIST_TOOLS"}
    <3>1. lock = p /\ source.client = NoClient /\ ask[p].on \in Clients
      BY <1>0, <2>3 DEF LockHeld, ConnectsAlone, Roles, Commands
    <3>2. client' \in [Clients -> ClientType] /\ Drops(ask[p].on) /\ \A d \in Clients \ {ask[p].on} : client'[d] = client[d]
      BY <1>0, <2>1, <2>3, <3>1, ReleasedForm
    <3>3. TypeOK'
      BY <1>0, <2>1, <2>2, <3>1, <3>2 DEF TypeOK
    <3>4. RegisteredRuns'
      BY <2>1, <3>1 DEF RegisteredRuns
    <3>5. \A d \in Clients : Quiet(d)
      BY <3>2 DEF Quiet
    <3>6. \A k \in Calls : ask[k].at = "CONNECT" => source'.client # ask[k].on
      BY <2>1 DEF RevivesOthers
    <3> QED BY <1>0, <1>1, <2>1, <2>3, <3>1, <3>3, <3>4, <3>5, <3>6, RestKeeps
  <2>4. CASE ask[p].at \in {"lock", "url", "HEALTH"}
    <3>1. client' = client
      BY <2>1, <2>4
    <3>2. TypeOK'
      BY <1>0, <2>1, <2>2, <3>1 DEF TypeOK
    <3>3. RegisteredRuns'
      BY <2>1, <3>1 DEF RegisteredRuns
    <3>4. \A d \in Clients : Quiet(d)
      BY <3>1 DEF Quiet
    <3>5. \A k \in Calls : ask[k].at = "CONNECT" => source'.client # ask[k].on
      BY <2>1 DEF RevivesOthers
    <3>6. CASE lock = p
      BY <1>0, <1>1, <2>1, <2>4, <3>2, <3>3, <3>4, <3>5, <3>6, RestKeeps
    <3>7. CASE lock # p
      <4>1. UNCHANGED <<client, source, lock>> /\ ask'[p].on = NoClient /\ ask'[p].at = "reset"
        BY <1>1, <2>1, <2>2, <3>1, <3>7
      <4>2. ask[Boot].at \notin {"boot", "SHUTDOWN", "down"}
        BY <2>4, ProbesInService
      <4>3. OutOfService'
        BY <1>0, <2>2, <4>2 DEF OutOfService
      <4>4. "reset" \notin Commands /\ "reset" \notin Waiting
        BY DEF Commands, Waiting
      <4>5. RegistryIInv'
        BY <1>0, <2>2, <3>2, <3>3, <3>4, <3>5, <4>1, <4>2, <4>3, <4>4, RuntimeKeeps
      <4> QED BY <1>0, <2>1, <2>2, <3>4, <4>5, RolesApart DEF RuntimeForm
    <3> QED BY <3>6, <3>7
  <2> QED BY <2>1, <2>3, <2>4
<1>7. CASE ResetTimedOutSource(p)
  <2>1. /\ ask[p].at = "reset" /\ lock = Nobody /\ source' = NotConnected
        /\ ask' = [ask EXCEPT ![p] = At("idle")] /\ UNCHANGED <<lock, execs, calm, healthUrl>>
        /\ client' = (IF source.client = NoClient THEN client ELSE Released(source.client))
    BY <1>0, <1>7 DEF ResetTimedOutSource
  <2>2. ask' \in [Askers -> AskType]
    BY <1>0, <1>1, <2>1, AskChange
  <2>3. source' \in SourceType /\ source'.client = NoClient
    BY <2>1 DEF NotConnected, SourceType
  <2>4. client' \in [Clients -> ClientType] /\ \A d \in Clients : Quiet(d)
    <3>1. CASE source.client = NoClient
      BY <1>0, <2>1, <3>1 DEF Quiet, TypeOK
    <3>2. CASE source.client # NoClient
      <4>1. source.client \in Clients
        BY <1>0, <3>2 DEF TypeOK, SourceType
      <4>2. client' = Released(source.client)
        BY <2>1, <3>2
      <4> QED BY <1>0, <4>1, <4>2, ReleasedForm DEF Quiet
    <3> QED BY <3>1, <3>2
  <2>5. TypeOK'
    BY <1>0, <2>1, <2>2, <2>3, <2>4 DEF TypeOK
  <2>6. RegisteredRuns'
    BY <2>3 DEF RegisteredRuns
  <2>7. \A k \in Calls : ask[k].at = "CONNECT" => source'.client # ask[k].on
    BY <2>3, RolesApart DEF Roles, Commands
  <2> QED BY <1>0, <1>1, <2>1, <2>4, <2>5, <2>6, <2>7, RestKeeps
<1> QED BY <1>2, <1>3, <1>4, <1>5, <1>6, <1>7 DEF ProbeStep

\* A task that connects has the lock, and the source has no client.
LEMMA Connecting ==
    ASSUME RegistryIInv, NEW a \in Runtime, ask[a].at \in {"CONNECT", "LIST_TOOLS"}
    PROVE  /\ lock = a /\ source.client = NoClient /\ ask[a].on \in Clients
           /\ source.tools # ask[a].on /\ client[ask[a].on].running
           /\ \A b \in Askers \ {a} : ask[b].on # ask[a].on
  BY RolesApart DEF RegistryIInv, LockHeld, ConnectsAlone, Roles, Commands

LEMMA RestRecord ==
    ASSUME NEW a \in Runtime
    PROVE  /\ Rest(a) \in AskType /\ Rest(a).on = NoClient
           /\ a \in Probers => Rest(a).at = "idle"
           /\ a = Boot => Rest(a).at = "up"
  BY AskRecords, RolesApart

LEMMA SourceKeeps ==
    ASSUME RegistryIInv, NEW a \in Runtime, SourceStep(a)
    PROVE  RegistryIInv' /\ RuntimeForm
<1> USE DEF RegistryIInv
<1> DEFINE c == ask[a].on
<1>1. TypeOK /\ a \in Askers /\ a \notin Calls /\ Boot \in Askers /\ (a \notin Probers => a = Boot)
  BY RolesApart
<1>2. ask[a].at \in {"CONNECT", "LIST_TOOLS"}
  BY DEF SourceStep, ConnectedThenList, Register, ConnectGivesUp
<1>3. /\ lock = a /\ source.client = NoClient /\ c \in Clients
      /\ source.tools # c /\ client[c].running
      /\ \A b \in Askers \ {a} : ask[b].on # c
  BY <1>2, Connecting
<1> HIDE DEF c
<1>4. CASE ConnectedThenList(a)
  <2>1. /\ client' = [client EXCEPT ![c] = Send(c, "LIST_TOOLS", a)]
        /\ ask' = [ask EXCEPT ![a] = Asking("LIST_TOOLS", c)]
        /\ UNCHANGED <<source, lock, execs, calm, healthUrl>>
    BY <1>4 DEF ConnectedThenList, c
  <2>2. client' \in [Clients -> ClientType] /\ Sends(c, "LIST_TOOLS", a) /\ \A d \in Clients \ {c} : client'[d] = client[d]
    BY <1>1, <1>3, <2>1, SentForm DEF Commands
  <2>3. Asking("LIST_TOOLS", c) \in AskType /\ Asking("LIST_TOOLS", c).at = "LIST_TOOLS" /\ Asking("LIST_TOOLS", c).on = c
    BY <1>3, AskRecords DEF Places, Commands
  <2>4. ask' \in [Askers -> AskType] /\ ask'[a] = Asking("LIST_TOOLS", c) /\ \A b \in Askers \ {a} : ask'[b] = ask[b]
    BY <1>1, <2>1, <2>3, AskChange
  <2>5. TypeOK'
    BY <1>1, <2>1, <2>2, <2>4 DEF TypeOK
  <2>6. \A d \in Clients : Quiet(d)
    BY <1>1, <2>2 DEF Quiet, SendsOther, Fits, Commands
  <2>7. ask'[a].at = "LIST_TOOLS" /\ ask'[a].on = c /\ client'[c].running
    BY <1>3, <2>2, <2>3, <2>4 DEF Sends
  <2>8. OutOfService' /\ RegisteredRuns'
    <3>1. ask'[Boot].at \in {"boot", "SHUTDOWN", "down"} =>
            a # Boot /\ ask[Boot].at \in {"boot", "SHUTDOWN", "down"}
      BY <1>1, <2>4, <2>7
    <3>2. ~(a # Boot /\ ask[Boot].at \in {"boot", "SHUTDOWN", "down"})
      BY <1>1, <1>2, ProbesInService
    <3> QED BY <1>3, <2>1, <3>1, <3>2 DEF OutOfService, RegisteredRuns
  <2>9. \A k \in Calls : ask[k].at = "CONNECT" => source'.client # ask[k].on
    BY <2>1 DEF RevivesOthers
  <2>10. \A b \in Runtime \ {a} : ask[b].at \notin Waiting
    BY <1>3, OneWaits
  <2>11. ask[Boot].at \in {"SHUTDOWN", "down"} => ask'[Boot].at \in {"SHUTDOWN", "down"}
    BY <1>1, <1>2, <2>4
  <2>12. RegistryIInv'
    BY <1>1, <1>3, <2>1, <2>4, <2>5, <2>6, <2>7, <2>8, <2>9, <2>10, <2>11, RuntimeKeeps
  <2> QED BY <1>1, <2>1, <2>4, <2>6, <2>12, RolesApart DEF RuntimeForm
<1>5. CASE Register(a)
  <2>1. /\ source'.client = c /\ ask' = [ask EXCEPT ![a] = Rest(a)] /\ lock' = Nobody
        /\ UNCHANGED <<client, execs, calm, healthUrl>>
    BY <1>5 DEF Register, c
  <2>2. source' \in SourceType
    <3> DEFINE t == IF ask[a].reply = "ok" THEN c ELSE NoClient
               n == IF ask[a].reply = "ok" THEN 1 ELSE 0
    <3>1. source' = [client |-> c, ready |-> TRUE, tools |-> t, count |-> n]
      BY <1>5 DEF Register, c
    <3>2. t \in {c, NoClient} /\ n \in 0..1
      OBVIOUS
    <3> HIDE DEF t, n
    <3> QED BY <1>3, <3>1, <3>2 DEF SourceType
  <2>3. ask' \in [Askers -> AskType]
    BY <1>1, <2>1, RestRecord, AskChange
  <2>4. TypeOK'
    BY <1>1, <2>1, <2>2, <2>3 DEF TypeOK
  <2>5. RegisteredRuns'
    BY <1>3, <2>1 DEF RegisteredRuns
  <2>6. \A d \in Clients : Quiet(d)
    BY <2>1 DEF Quiet
  <2>7. \A k \in Calls : ask[k].at = "CONNECT" => source'.client # ask[k].on
    BY <1>1, <1>3, <2>1, RolesApart
  <2> QED BY <1>1, <1>2, <1>3, <2>1, <2>4, <2>5, <2>6, <2>7, RestRecord, RestKeeps
<1>6. CASE ConnectGivesUp(a)
  <2>1. /\ client' = Released(c) /\ source' = Failed /\ ask' = [ask EXCEPT ![a] = Rest(a)] /\ lock' = Nobody
        /\ UNCHANGED <<execs, calm, healthUrl>>
    BY <1>6 DEF ConnectGivesUp, c
  <2>2. source' \in SourceType /\ source'.client = NoClient
    <3>1. source \in SourceType
      BY <1>1 DEF TypeOK
    <3> QED BY <1>3, <2>1, <3>1, SourceRecords
  <2>3. ask' \in [Askers -> AskType]
    BY <1>1, <2>1, RestRecord, AskChange
  <2>4. client' \in [Clients -> ClientType] /\ \A d \in Clients : Quiet(d)
    BY <1>1, <1>3, <2>1, ReleasedForm DEF Quiet
  <2>5. TypeOK'
    BY <1>1, <2>1, <2>2, <2>3, <2>4 DEF TypeOK
  <2>6. RegisteredRuns'
    BY <2>2 DEF RegisteredRuns
  <2>7. \A k \in Calls : ask[k].at = "CONNECT" => source'.client # ask[k].on
    BY <2>2, RolesApart DEF Roles, Commands
  <2> QED BY <1>1, <1>2, <1>3, <2>1, <2>4, <2>5, <2>6, <2>7, RestRecord, RestKeeps
<1> QED BY <1>4, <1>5, <1>6 DEF SourceStep

LEMMA DisconnectKeeps ==
    ASSUME RegistryIInv, Disconnect
    PROVE  RegistryIInv' /\ RuntimeForm
<1> USE DEF RegistryIInv
<1> DEFINE c == source.client
<1>1. TypeOK /\ Boot \in Askers /\ Boot \in Runtime /\ Boot \notin Probers /\ Boot \notin Calls /\ Probers \subseteq Askers
  BY RolesApart
<1>2. ask[Boot].at = "up" /\ (\A p \in Probers : ask[p].at = "idle") /\ lock = Nobody
      /\ UNCHANGED <<execs, calm, healthUrl>>
  BY DEF Disconnect
<1>3. CASE c = NoClient
  <2>1. /\ ask' = [ask EXCEPT ![Boot] = At("down")] /\ source' = NotConnected /\ UNCHANGED <<client, lock>>
    BY <1>3 DEF Disconnect
  <2>2. At("down") \in AskType /\ At("down").at = "down" /\ At("down").on = NoClient
    BY AskRecords DEF Places
  <2>3. ask' \in [Askers -> AskType]
    BY <1>1, <2>1, <2>2, AskChange
  <2>4. source' \in SourceType /\ source'.client = NoClient
    BY <2>1 DEF NotConnected, SourceType
  <2>5. TypeOK'
    BY <1>1, <1>2, <2>1, <2>3, <2>4 DEF TypeOK
  <2>6. RegisteredRuns' /\ \A d \in Clients : Quiet(d)
    BY <2>1, <2>4 DEF RegisteredRuns, Quiet
  <2>7. \A k \in Calls : ask[k].at = "CONNECT" => source'.client # ask[k].on
    BY <2>4, RolesApart DEF Roles, Commands
  <2> QED BY <1>1, <1>2, <2>1, <2>2, <2>4, <2>5, <2>6, <2>7, RestKeeps
<1>4. CASE c # NoClient
  <2>1. c \in Clients
    BY <1>1, <1>4 DEF TypeOK, SourceType
  <2>2. /\ client' = [client EXCEPT ![c] = Send(c, "SHUTDOWN", Boot)]
        /\ ask' = [ask EXCEPT ![Boot] = Asking("SHUTDOWN", c)]
        /\ source' = [source EXCEPT !.client = NoClient]
        /\ lock' = Boot
    BY <1>4 DEF Disconnect
  <2>3. client' \in [Clients -> ClientType] /\ Sends(c, "SHUTDOWN", Boot) /\ \A d \in Clients \ {c} : client'[d] = client[d]
    BY <1>1, <2>1, <2>2, SentForm DEF Commands
  <2>4. Asking("SHUTDOWN", c) \in AskType /\ Asking("SHUTDOWN", c).at = "SHUTDOWN" /\ Asking("SHUTDOWN", c).on = c
    BY <2>1, AskRecords DEF Places, Commands
  <2>5. ask' \in [Askers -> AskType] /\ ask'[Boot] = Asking("SHUTDOWN", c) /\ \A b \in Askers \ {Boot} : ask'[b] = ask[b]
    BY <1>1, <2>2, <2>4, AskChange
  <2>6. source' \in SourceType /\ source'.client = NoClient
    BY <1>1, <2>2 DEF TypeOK, SourceType
  <2>7. TypeOK'
    BY <1>1, <1>2, <2>2, <2>3, <2>5, <2>6 DEF TypeOK
  <2>8. ask'[Boot].at = "SHUTDOWN" /\ ask'[Boot].on \in Clients
    BY <2>1, <2>4, <2>5
  <2>9. \A d \in Clients : Quiet(d)
    <3>1. SendsOther(c)
      BY <1>1, <2>3, <2>8 DEF SendsOther, Fits, Commands
    <3> QED BY <2>3, <3>1 DEF Quiet
  <2>10. OutOfService' /\ RegisteredRuns'
    BY <1>1, <1>2, <2>5, <2>6 DEF OutOfService, RegisteredRuns
  <2>11. \A k \in Calls : ask[k].at = "CONNECT" => source'.client # ask[k].on
    BY <2>6, RolesApart DEF Roles, Commands
  <2>12. \A b \in Runtime \ {Boot} : ask[b].at \notin Waiting
    BY <1>1, <1>2, OneWaits
  <2>13. RegistryIInv'
    BY <1>1, <2>2, <2>5, <2>7, <2>8, <2>9, <2>10, <2>11, <2>12, RuntimeKeeps
  <2> QED BY <1>1, <1>2, <2>5, <2>9, <2>13, RolesApart DEF RuntimeForm
<1> QED BY <1>3, <1>4

LEMMA DisconnectedKeeps ==
    ASSUME RegistryIInv, Disconnected
    PROVE  RegistryIInv' /\ RuntimeForm
<1> USE DEF RegistryIInv
<1> DEFINE c == ask[Boot].on
<1>1. TypeOK /\ Boot \in Askers /\ Boot \in Runtime /\ Boot \notin Probers /\ Boot \notin Calls
  BY RolesApart
<1>2. /\ ask[Boot].at = "SHUTDOWN" /\ client' = Released(c) /\ source' = NotConnected
      /\ ask' = [ask EXCEPT ![Boot] = At("down")] /\ lock' = Nobody
      /\ UNCHANGED <<execs, calm, healthUrl>>
  BY DEF Disconnected
<1>3. lock = Boot /\ c \in Clients /\ \A p \in Probers : ask[p].at = "idle"
  BY <1>1, <1>2 DEF LockHeld, Roles, Commands, OutOfService
<1> HIDE DEF c
<1>4. At("down") \in AskType /\ At("down").at = "down" /\ At("down").on = NoClient
  BY AskRecords DEF Places
<1>5. ask' \in [Askers -> AskType]
  BY <1>1, <1>2, <1>4, AskChange
<1>6. source' \in SourceType /\ source'.client = NoClient
  BY <1>2 DEF NotConnected, SourceType
<1>7. client' \in [Clients -> ClientType] /\ \A d \in Clients : Quiet(d)
  BY <1>1, <1>2, <1>3, ReleasedForm DEF Quiet
<1>8. TypeOK'
  BY <1>1, <1>2, <1>5, <1>6, <1>7 DEF TypeOK
<1>9. RegisteredRuns'
  BY <1>6 DEF RegisteredRuns
<1>10. \A k \in Calls : ask[k].at = "CONNECT" => source'.client # ask[k].on
  BY <1>6, RolesApart DEF Roles, Commands
<1> QED BY <1>1, <1>2, <1>3, <1>4, <1>6, <1>7, <1>8, <1>9, <1>10, RestKeeps

-----------------------------------------------------------------------------
(* The steps of the calls. *)

\* A call sends its command once, when it is made.
SendsCall(d, k) ==
    /\ Sends(d, "CALL_TOOL", k)
    /\ ask[k].at = "held" /\ ask'[k].at = "CALL_TOOL" /\ ask'[k].on = d

\* Where a call goes, and what it makes the server do past the owner.
CallMoves(k) ==
    /\ ask'[k].reply = "none"
    /\ \/ ask[k].at = "idle" /\ ask'[k].at = "held" /\ execs' = execs
       \/ /\ ask[k].at = "held" /\ ask'[k].at \in {"CALL_TOOL", "direct", "RECONNECT", "CONNECT"}
          /\ execs' = execs
       \/ /\ ask[k].at = "CALL_TOOL" /\ execs' = execs
          /\ ask'[k].at = "failed" \/ (ask'[k].at = "done" /\ ask[k].reply \in {"ok", "empty"})
       \/ /\ ask[k].at \in {"RECONNECT", "CONNECT"} /\ ask'[k].at \in {"failed", "retry"}
          /\ execs' = execs
       \/ /\ ask[k].at \in {"direct", "retry"}
          /\ ask'[k].at \in {"done", "failed", "stuck"}
             \/ (ask[k].at = "direct" /\ ask'[k].at \in {"RECONNECT", "CONNECT"})
          /\ execs' = [execs EXCEPT ![k] = @ + 1] \/ (execs' = execs /\ ask'[k].at # "done")

CallForm(k) ==
    /\ \A a \in Askers \ {k} : ask'[a] = ask[a]
    /\ \A d \in Clients : Quiet(d) \/ SendsCall(d, k)
    /\ CallMoves(k)

LEMMA CallKeeps ==
    ASSUME RegistryIInv, TypeOK', NEW k \in Calls, CallForm(k), UNCHANGED <<source, lock>>,
           ask'[k].at \in Commands \cup {"held", "direct", "retry"} => ask'[k].on \in Clients,
           ask'[k].on \in {NoClient, ask[k].on, source.client, source.tools},
           ask'[k].at = "CONNECT" => source.client # ask'[k].on,
           \A d \in Clients : \/ client'[d].running \/ client'[d].running = client[d].running
                              \/ d = ask[k].on /\ d # source.client
    PROVE  RegistryIInv'
<1> USE DEF RegistryIInv
<1>1. /\ Boot \in Askers /\ Calls \subseteq Askers /\ Probers \subseteq Askers /\ Runtime \subseteq Askers
      /\ k \notin Runtime /\ k # Boot /\ k \in Askers /\ k \notin Probers
  BY RolesApart
<1>2. \A a \in Askers \ {k} : ask'[a] = ask[a]
  BY DEF CallForm
<1>3. QueuesFit' /\ IdleOwners'
  <2>1. \A d \in Clients : Moves(d)
    <3> TAKE d \in Clients
    <3>1. CASE Quiet(d)
      BY <3>1 DEF Quiet, Moves, SendsOther, SendsFitting
    <3>2. CASE SendsCall(d, k)
      BY <1>1, <3>2 DEF Moves, SendsFitting, SendsCall, Fits, Commands
    <3> QED BY <3>1, <3>2 DEF CallForm
  <2> QED BY <1>1, <1>2, <2>1, ClientsKept
<1>4. Roles'
  <2>1. ask'[k].at \in {"idle", "held", "direct", "retry", "CALL_TOOL", "RECONNECT", "CONNECT",
                        "done", "failed", "stuck"}
    BY DEF CallForm, CallMoves
  <2> QED BY <1>1, <1>2, <2>1 DEF Roles
<1>5. LockHeld'
  BY <1>1, <1>2 DEF LockHeld
<1>6. OutOfService'
  BY <1>1, <1>2 DEF OutOfService
<1>7. RevivesOthers'
  BY <1>1, <1>2 DEF RevivesOthers
<1>8. RegisteredRuns'
  BY DEF RegisteredRuns, TypeOK, SourceType
<1>9. ConnectsAlone'
  <2> SUFFICES ASSUME NEW b \in Runtime, ask[b].at \in {"CONNECT", "LIST_TOOLS"}
               PROVE  /\ source.client = NoClient /\ source.tools # ask[b].on
                      /\ client'[ask[b].on].running
                      /\ \A e \in Askers \ {b} : ask'[e].on # ask[b].on
    BY <1>1, <1>2 DEF ConnectsAlone
  <2>1. /\ source.client = NoClient /\ ask[b].on \in Clients
        /\ source.tools # ask[b].on /\ client[ask[b].on].running
        /\ \A e \in Askers \ {b} : ask[e].on # ask[b].on
    BY Connecting
  <2>2. ask[k].on # ask[b].on /\ k # b /\ NoClient # ask[b].on
    BY <1>1, <2>1, RolesApart
  <2> QED BY <1>1, <1>2, <2>1, <2>2
<1> QED BY <1>3, <1>4, <1>5, <1>6, <1>7, <1>8, <1>9

\* A call that ends lets go of its client, and of what it was opening.
LEMMA EndsForm ==
    ASSUME TypeOK, NEW k \in Calls, ask[k].on \in Clients, NEW how \in Places,
           NEW objects \in {client, Closed(k)}, Ends(k, how, objects)
    PROVE  /\ ask' \in [Askers -> AskType] /\ ask'[k] = At(how) /\ \A a \in Askers \ {k} : ask'[a] = ask[a]
           /\ client' \in [Clients -> ClientType]
           /\ \A d \in Clients : client'[d] = client[d] \/ Drops(d)
           /\ \A d \in Clients : client'[d] = client[d] \/ (d = ask[k].on /\ (d # source.client \/ ask[k].at = "CONNECT"))
<1> DEFINE c == ask[k].on
<1>1. client \in [Clients -> ClientType] /\ k \in Askers /\ c \in Clients
  BY RolesApart DEF TypeOK
<1>2. At(how) \in AskType /\ ask' = [ask EXCEPT ![k] = At(how)]
  BY AskRecords DEF Ends
<1>3. ask' \in [Askers -> AskType] /\ ask'[k] = At(how) /\ \A a \in Askers \ {k} : ask'[a] = ask[a]
  BY <1>1, <1>2, AskChange
<1>4. \/ client' = client
      \/ client' = [client EXCEPT ![c] = Cancelled(@)] /\ ask[k].at = "CONNECT"
      \/ client' = [client EXCEPT ![c] = NewClient] /\ c # source.client
  BY DEF Ends, Closed
<1> HIDE DEF c
<1>5. ASSUME NEW r \in {NewClient, Cancelled(client[c])}, client' = [client EXCEPT ![c] = r]
      PROVE  client' \in [Clients -> ClientType] /\ Drops(c) /\ \A d \in Clients \ {c} : client'[d] = client[d]
  <2>1. r \in ClientType /\ r.running = FALSE /\ r.step = "idle" /\ r.again = FALSE
        /\ r.cmd = NoCommand /\ r.queue = <<>>
    <3>1. CASE r = NewClient
      BY <3>1, ClientRecords DEF NewClient
    <3>2. CASE r = Cancelled(client[c])
      BY <1>1, <3>2, ClientRecords
    <3> QED BY <3>1, <3>2
  <2>2. client' \in [Clients -> ClientType] /\ client'[c] = r /\ \A d \in Clients \ {c} : client'[d] = client[d]
    BY <1>1, <1>5, <2>1, OneClient
  <2> QED BY <2>1, <2>2 DEF Drops
<1>6. CASE client' = client
  BY <1>1, <1>3, <1>6
<1>7. CASE client' = [client EXCEPT ![c] = Cancelled(@)] /\ ask[k].at = "CONNECT"
  <2>1. client' = [client EXCEPT ![c] = Cancelled(client[c])]
    BY <1>7
  <2>2. client' \in [Clients -> ClientType] /\ Drops(c) /\ \A d \in Clients \ {c} : client'[d] = client[d]
    BY <1>5, <2>1
  <2> QED BY <1>3, <1>7, <2>2 DEF c
<1>8. CASE client' = [client EXCEPT ![c] = NewClient] /\ c # source.client
  <2>1. client' \in [Clients -> ClientType] /\ Drops(c) /\ \A d \in Clients \ {c} : client'[d] = client[d]
    BY <1>5, <1>8
  <2> QED BY <1>3, <1>8, <2>1 DEF c
<1> QED BY <1>4, <1>6, <1>7, <1>8

LEMMA ReviveForm ==
    ASSUME RegistryIInv, NEW k \in Calls, NEW c \in Clients, Revive(c, k)
    PROVE  /\ ask' \in [Askers -> AskType] /\ \A a \in Askers \ {k} : ask'[a] = ask[a]
           /\ ask'[k].at \in {"RECONNECT", "CONNECT"} /\ ask'[k].on = c /\ ask'[k].reply = "none"
           /\ client' \in [Clients -> ClientType] /\ \A d \in Clients : Quiet(d)
           /\ \A d \in Clients : client'[d].running \/ client'[d].running = client[d].running
           /\ ask'[k].at = "CONNECT" => ~client[c].running
<1>1. TypeOK /\ k \in Askers /\ client[c] \in ClientType /\ client \in [Clients -> ClientType]
  BY RolesApart DEF RegistryIInv, TypeOK
<1>2. \A kind \in {"RECONNECT", "CONNECT"} :
        Asking(kind, c) \in AskType /\ Asking(kind, c).at = kind /\ Asking(kind, c).on = c /\ Asking(kind, c).reply = "none"
  BY AskRecords DEF Places, Commands
<1>3. CASE client[c].running
  <2>1. client' = [client EXCEPT ![c] = Send(c, "RECONNECT", k)] /\ ask' = [ask EXCEPT ![k] = Asking("RECONNECT", c)]
    BY <1>3 DEF Revive
  <2>2. client' \in [Clients -> ClientType] /\ Sends(c, "RECONNECT", k) /\ \A d \in Clients \ {c} : client'[d] = client[d]
    BY <1>1, <2>1, SentForm DEF Commands
  <2>3. ask' \in [Askers -> AskType] /\ ask'[k] = Asking("RECONNECT", c) /\ \A a \in Askers \ {k} : ask'[a] = ask[a]
    BY <1>1, <1>2, <2>1, AskChange
  <2>4. \A d \in Clients : Quiet(d)
    BY <1>1, <2>2 DEF Quiet, SendsOther, Fits, Commands
  <2>5. \A d \in Clients : client'[d].running = client[d].running
    BY <2>2 DEF Sends
  <2> QED BY <1>2, <2>2, <2>3, <2>4, <2>5
<1>4. CASE ~client[c].running
  <2>1. client' = [client EXCEPT ![c] = Opened(client[c], k)] /\ ask' = [ask EXCEPT ![k] = Asking("CONNECT", c)]
    BY <1>1, <1>4 DEF Revive
  <2>2. ~client[c].again
    BY <1>4 DEF RegistryIInv, IdleOwners
  <2>3. client' \in [Clients -> ClientType] /\ Opens(c) /\ \A d \in Clients \ {c} : client'[d] = client[d]
    BY <1>1, <2>1, <2>2, OpenedForm
  <2>4. ask' \in [Askers -> AskType] /\ ask'[k] = Asking("CONNECT", c) /\ \A a \in Askers \ {k} : ask'[a] = ask[a]
    BY <1>1, <1>2, <2>1, AskChange
  <2>5. \A d \in Clients : Quiet(d)
    BY <2>3 DEF Quiet
  <2>6. \A d \in Clients : client'[d].running \/ client'[d].running = client[d].running
    BY <2>3 DEF Opens
  <2> QED BY <1>2, <1>4, <2>3, <2>4, <2>5, <2>6
<1> QED BY <1>3, <1>4

\* The end of a call, whatever led to it.
LEMMA EndKeeps ==
    ASSUME RegistryIInv, NEW k \in Calls, NEW how \in {"done", "failed", "stuck"},
           ask[k].at \in {"CALL_TOOL", "RECONNECT", "CONNECT", "direct", "retry"},
           NEW objects \in {client, Closed(k)}, Ends(k, how, objects),
           CallMoves(k), execs' \in [Calls -> Nat], UNCHANGED <<source, lock, calm, healthUrl>>
    PROVE  RegistryIInv' /\ CallForm(k)
<1>1. TypeOK /\ ask[k].on \in Clients /\ how \in Places
  BY RolesApart DEF RegistryIInv, Roles, Commands, Places
<1>2. /\ ask' \in [Askers -> AskType] /\ ask'[k] = At(how) /\ \A a \in Askers \ {k} : ask'[a] = ask[a]
      /\ client' \in [Clients -> ClientType]
      /\ \A d \in Clients : client'[d] = client[d] \/ Drops(d)
      /\ \A d \in Clients : client'[d] = client[d] \/ (d = ask[k].on /\ (d # source.client \/ ask[k].at = "CONNECT"))
  BY <1>1, EndsForm
<1>3. TypeOK'
  BY <1>1, <1>2 DEF TypeOK
<1>4. CallForm(k)
  BY <1>2 DEF CallForm, Quiet
<1>5. ask'[k].at = how /\ ask'[k].on = NoClient
  BY <1>1, <1>2, AskRecords
<1>6. how \notin Commands \cup {"held", "direct", "retry"}
  BY DEF Commands
<1>7. ask[k].at = "CONNECT" => source.client # ask[k].on
  BY DEF RegistryIInv, RevivesOthers
<1>8. \A d \in Clients : \/ client'[d].running \/ client'[d].running = client[d].running
                         \/ d = ask[k].on /\ d # source.client
  BY <1>2, <1>7
<1> QED BY <1>3, <1>4, <1>5, <1>6, <1>8, CallKeeps

\* A call that finds no owner, or that loses the session it used itself.
LEMMA ReviveKeeps ==
    ASSUME RegistryIInv, NEW k \in Calls, ask[k].at \in {"held", "direct"}, Revive(ask[k].on, k),
           execs' = execs \/ (ask[k].at = "direct" /\ execs' = [execs EXCEPT ![k] = @ + 1]),
           execs' \in [Calls -> Nat], UNCHANGED <<source, lock, calm, healthUrl>>
    PROVE  RegistryIInv' /\ CallForm(k)
<1> DEFINE c == ask[k].on
<1>1. TypeOK /\ c \in Clients
  BY RolesApart DEF RegistryIInv, Roles
<1>2. /\ ask' \in [Askers -> AskType] /\ \A a \in Askers \ {k} : ask'[a] = ask[a]
      /\ ask'[k].at \in {"RECONNECT", "CONNECT"} /\ ask'[k].on = c /\ ask'[k].reply = "none"
      /\ client' \in [Clients -> ClientType] /\ \A d \in Clients : Quiet(d)
      /\ \A d \in Clients : client'[d].running \/ client'[d].running = client[d].running
      /\ ask'[k].at = "CONNECT" => ~client[c].running
  BY <1>1, ReviveForm
<1>3. TypeOK'
  BY <1>1, <1>2 DEF TypeOK
<1>4. CallForm(k)
  BY <1>2 DEF CallForm, CallMoves
<1>5. ask'[k].at = "CONNECT" => source.client # c
  BY <1>1, <1>2, RolesApart DEF RegistryIInv, RegisteredRuns
<1> QED BY <1>1, <1>2, <1>3, <1>4, <1>5, CallKeeps

LEMMA CallSteps ==
    ASSUME RegistryIInv, NEW k \in Calls, TakeTool(k) \/ CallTool(k) \/ CallStep(k)
    PROVE  RegistryIInv' /\ CallForm(k)
<1> DEFINE c == ask[k].on
<1>1. /\ TypeOK /\ k \in Askers /\ NoClient \notin Clients
      /\ ask[k] \in AskType /\ execs \in [Calls -> Nat]
  BY RolesApart DEF RegistryIInv, TypeOK
<1>2. ask[k].at \in Commands \cup {"held", "direct", "retry"} => c \in Clients
  BY <1>1 DEF RegistryIInv, Roles
<1>3. ask[k].at = "CONNECT" => source.client # c
  BY DEF RegistryIInv, RevivesOthers
<1>4. \A kind \in {"held", "direct", "retry", "CALL_TOOL"}, d \in Clients :
        Asking(kind, d) \in AskType /\ Asking(kind, d).at = kind /\ Asking(kind, d).on = d /\ Asking(kind, d).reply = "none"
  BY AskRecords DEF Places, Commands
<1>5. \A how \in {"done", "failed", "stuck"} : At(how).at = how /\ At(how).reply = "none"
  BY DEF At
<1>6. \A how \in {"done", "failed", "stuck"} : \A objects : Ends(k, how, objects) => ask'[k].at = how /\ ask'[k].reply = "none"
  <2>1. ask \in [Askers -> AskType]
    BY <1>1 DEF TypeOK
  <2> QED BY <1>1, <1>5, <2>1 DEF Ends
<1>7. CASE TakeTool(k)
  <2>1. PICK d \in {source.tools, source.client} \ {NoClient} : ask' = [ask EXCEPT ![k] = Asking("held", d)]
    BY <1>7 DEF TakeTool
  <2>2. d \in Clients
    BY <1>1, <2>1 DEF TypeOK, SourceType
  <2>3. ask' \in [Askers -> AskType] /\ ask'[k] = Asking("held", d) /\ \A a \in Askers \ {k} : ask'[a] = ask[a]
    BY <1>1, <1>4, <2>1, <2>2, AskChange
  <2>4. ask[k].at = "idle" /\ UNCHANGED <<client, source, lock, execs, calm, healthUrl>>
    BY <1>7 DEF TakeTool
  <2>5. TypeOK'
    BY <1>1, <2>3, <2>4 DEF TypeOK
  <2>6. ask'[k].at = "held" /\ ask'[k].on = d /\ ask'[k].reply = "none"
    BY <1>4, <2>2, <2>3
  <2>7. CallForm(k)
    BY <2>3, <2>4, <2>6 DEF CallForm, CallMoves, Quiet
  <2>8. \A e \in Clients : client'[e].running = client[e].running
    BY <2>4
  <2> QED BY <2>1, <2>2, <2>4, <2>5, <2>6, <2>7, <2>8, CallKeeps
<1>8. CASE CallTool(k)
  <2>1. ask[k].at = "held" /\ UNCHANGED <<source, lock, execs, calm, healthUrl>> /\ c \in Clients
    BY <1>2, <1>8 DEF CallTool
  <2>2. CASE client[c].running
    <3>1. client' = [client EXCEPT ![c] = Send(c, "CALL_TOOL", k)] /\ ask' = [ask EXCEPT ![k] = Asking("CALL_TOOL", c)]
      BY <1>8, <2>2 DEF CallTool
    <3>2. client' \in [Clients -> ClientType] /\ Sends(c, "CALL_TOOL", k) /\ \A d \in Clients \ {c} : client'[d] = client[d]
      BY <1>1, <2>1, <3>1, SentForm DEF Commands
    <3>3. ask' \in [Askers -> AskType] /\ ask'[k] = Asking("CALL_TOOL", c) /\ \A a \in Askers \ {k} : ask'[a] = ask[a]
      BY <1>1, <1>4, <2>1, <3>1, AskChange
    <3>4. TypeOK'
      BY <1>1, <2>1, <3>2, <3>3 DEF TypeOK
    <3>5. ask'[k].at = "CALL_TOOL" /\ ask'[k].on = c /\ ask'[k].reply = "none"
      BY <1>4, <2>1, <3>3
    <3>6. CallForm(k)
      BY <2>1, <3>2, <3>3, <3>5 DEF CallForm, CallMoves, Quiet, SendsCall
    <3>7. \A d \in Clients : client'[d].running = client[d].running
      BY <3>2 DEF Sends
    <3> QED BY <2>1, <3>4, <3>5, <3>6, <3>7, CallKeeps
  <2>3. CASE ~client[c].running /\ client[c].session
    <3>1. UNCHANGED client /\ ask' = [ask EXCEPT ![k] = Asking("direct", c)]
      BY <1>8, <2>3 DEF CallTool
    <3>2. ask' \in [Askers -> AskType] /\ ask'[k] = Asking("direct", c) /\ \A a \in Askers \ {k} : ask'[a] = ask[a]
      BY <1>1, <1>4, <2>1, <3>1, AskChange
    <3>3. TypeOK'
      BY <1>1, <2>1, <3>1, <3>2 DEF TypeOK
    <3>4. ask'[k].at = "direct" /\ ask'[k].on = c /\ ask'[k].reply = "none"
      BY <1>4, <2>1, <3>2
    <3>5. CallForm(k)
      BY <2>1, <3>1, <3>2, <3>4 DEF CallForm, CallMoves, Quiet
    <3>6. \A d \in Clients : client'[d].running = client[d].running
      BY <3>1
    <3> QED BY <2>1, <3>3, <3>4, <3>5, <3>6, CallKeeps
  <2>4. CASE ~client[c].running /\ ~client[c].session
    <3>1. Revive(c, k)
      BY <1>8, <2>4 DEF CallTool
    <3> QED BY <1>1, <2>1, <3>1, ReviveKeeps
  <2> QED BY <2>2, <2>3, <2>4
<1>9. CASE CallReplied(k)
  <2>1. ask[k].at = "CALL_TOOL" /\ UNCHANGED <<source, lock, execs, calm, healthUrl>>
        /\ ask[k].reply \in {"ok", "empty", "error"}
    BY <1>1, <1>9 DEF CallReplied, AskType
  <2>2. PICK how \in {"done", "failed", "stuck"} :
          Ends(k, how, client) /\ how = (IF ask[k].reply = "error" THEN "failed" ELSE "done")
    BY <1>9 DEF CallReplied
  <2>3. CallMoves(k)
    BY <1>6, <2>1, <2>2 DEF CallMoves
  <2> QED BY <1>1, <2>1, <2>2, <2>3, EndKeeps
<1>10. CASE CallTimesOut(k)
  <2>1. ask[k].at \in {"CALL_TOOL", "RECONNECT", "CONNECT"} /\ Ends(k, "failed", Closed(k))
        /\ UNCHANGED <<source, lock, execs, calm, healthUrl>>
    BY <1>10 DEF CallTimesOut
  <2>2. CallMoves(k)
    BY <1>6, <2>1 DEF CallMoves
  <2> QED BY <1>1, <2>1, <2>2, EndKeeps
<1>11. CASE Revived(k)
  <2>1. ask[k].at \in {"RECONNECT", "CONNECT"} /\ UNCHANGED <<source, lock, execs, calm, healthUrl>> /\ c \in Clients
    BY <1>2, <1>11 DEF Revived, Commands
  <2>2. CASE ask[k].reply = "ok"
    <3>1. UNCHANGED client /\ ask' = [ask EXCEPT ![k] = Asking("retry", c)]
      <4>1. ask' = [ask EXCEPT ![k] = Asking("retry", @.on)] /\ UNCHANGED client
        BY <1>11, <2>2 DEF Revived
      <4>2. ask \in [Askers -> AskType]
        BY <1>1 DEF TypeOK
      <4> QED BY <1>1, <4>1, <4>2
    <3>2. ask' \in [Askers -> AskType] /\ ask'[k] = Asking("retry", c) /\ \A a \in Askers \ {k} : ask'[a] = ask[a]
      BY <1>1, <1>4, <2>1, <3>1, AskChange
    <3>3. TypeOK'
      BY <1>1, <2>1, <3>1, <3>2 DEF TypeOK
    <3>4. ask'[k].at = "retry" /\ ask'[k].on = c /\ ask'[k].reply = "none"
      BY <1>4, <2>1, <3>2
    <3>5. CallForm(k)
      BY <2>1, <3>1, <3>2, <3>4 DEF CallForm, CallMoves, Quiet
    <3>6. \A d \in Clients : client'[d].running = client[d].running
      BY <3>1
    <3> QED BY <2>1, <3>3, <3>4, <3>5, <3>6, CallKeeps
  <2>3. CASE ask[k].reply # "ok"
    <3>1. Ends(k, "failed", Closed(k))
      BY <1>11, <2>3 DEF Revived
    <3>2. CallMoves(k)
      BY <1>6, <2>1, <3>1 DEF CallMoves
    <3> QED BY <1>1, <2>1, <3>1, <3>2, EndKeeps
  <2> QED BY <2>2, <2>3
<1>12. ASSUME NEW done \in BOOLEAN, DirectCall(k, done)
       PROVE  RegistryIInv' /\ CallForm(k)
  <2>1. ask[k].at \in {"direct", "retry"} /\ UNCHANGED <<source, lock, calm, healthUrl>>
        /\ execs' = (IF done THEN [execs EXCEPT ![k] = @ + 1] ELSE execs)
    BY <1>12 DEF DirectCall
  <2>2. execs' \in [Calls -> Nat]
    <3>1. execs[k] + 1 \in Nat
      BY <1>1
    <3> QED BY <1>1, <2>1, <3>1
  <2>3. ASSUME NEW how \in {"done", "failed", "stuck"}, Ends(k, how, client), how = "done" => done
        PROVE  RegistryIInv' /\ CallForm(k)
    <3>1. CallMoves(k)
      BY <1>6, <2>1, <2>3 DEF CallMoves
    <3> QED BY <2>1, <2>2, <2>3, <3>1, EndKeeps
  <2>4. ASSUME ask[k].at = "direct", Revive(c, k)
        PROVE  RegistryIInv' /\ CallForm(k)
    BY <2>1, <2>2, <2>4, ReviveKeeps
  <2>5. \/ done /\ Ends(k, "done", client)
        \/ Ends(k, "failed", client)
        \/ ask[k].at = "direct" /\ Revive(c, k)
        \/ Ends(k, "stuck", client)
    BY <1>12 DEF DirectCall
  <2> QED BY <2>3, <2>4, <2>5
<1> QED BY <1>7, <1>8, <1>9, <1>10, <1>11, <1>12 DEF CallStep

-----------------------------------------------------------------------------
(* The executions of a call. *)

\* Wherever client d holds call k after a step, it held it before, in a place
\* of its own, and the owner is no further with it than its own step brought it.
Comes(d, k) ==
    \E f \in [Nat -> Nat] :
      /\ \A i, j \in Nat : f[i] = f[j] => i = j
      /\ \A i \in Nat : Holds(client', d, i, k) =>
           /\ Holds(client, d, f[i], k)
           /\ i # 0 => f[i] # 0
           /\ i = 0 /\ f[i] = 0 =>
                \/ client'[d].step = client[d].step /\ client'[d].again = client[d].again
                \/ Works(d) /\ client[d].step # "hung" /\ (client[d].again => client'[d].again)

LEMMA ComesBack ==
    ASSUME TypeOK, NEW k \in Calls, NEW d \in Clients,
           Quiet(d) \/ Takes(d) \/ Works(d) \/ (\E l \in Calls \ {k} : SendsCall(d, l))
    PROVE  Comes(d, k)
<1> DEFINE q == client[d].queue
           here == [i \in Nat |-> i]
<1>1. q \in Seq(CommandRecord)
  BY DEF TypeOK, ClientType
<1>2. here \in [Nat -> Nat] /\ \A i \in Nat : here[i] = i
  OBVIOUS
<1>3. ASSUME \A i \in Nat : Holds(client', d, i, k) =>
               /\ Holds(client, d, i, k)
               /\ i = 0 => \/ client'[d].step = client[d].step /\ client'[d].again = client[d].again
                           \/ Works(d) /\ client[d].step # "hung" /\ (client[d].again => client'[d].again)
      PROVE  Comes(d, k)
  <2> HIDE DEF here
  <2> QED BY <1>2, <1>3 DEF Comes
<1>4. CallOf(k) # NoCommand /\ \A a : [kind |-> "CONNECT", by |-> a] # CallOf(k)
  BY DEF CallOf, NoCommand
<1>5. CASE Drops(d) \/ Opens(d)
  <2>1. \A i \in Nat : ~Holds(client', d, i, k)
    <3>1. CASE Drops(d)
      BY <1>4, <3>1 DEF Drops, Holds
    <3>2. CASE Opens(d)
      <4>1. PICK a \in Askers : client'[d].queue = <<[kind |-> "CONNECT", by |-> a]>>
        BY <3>2 DEF Opens
      <4>2. \A i \in DOMAIN client'[d].queue : client'[d].queue[i] = [kind |-> "CONNECT", by |-> a]
        BY <4>1
      <4>3. client'[d].cmd = NoCommand
        BY <3>2 DEF Opens
      <4> QED BY <1>4, <4>2, <4>3 DEF Holds
    <3> QED BY <1>5, <3>1, <3>2
  <2> QED BY <1>3, <2>1
<1>6. CASE client'[d] = client[d]
  <2>1. \A i \in Nat : Holds(client', d, i, k) => Holds(client, d, i, k)
    BY <1>6 DEF Holds
  <2> QED BY <1>3, <1>6, <2>1
<1>7. ASSUME NEW kind, NEW a, Sends(d, kind, a), kind # "CALL_TOOL" \/ a # k
      PROVE  Comes(d, k)
  <2>1. [kind |-> kind, by |-> a] # CallOf(k)
    BY <1>7 DEF CallOf
  <2>2. \A x : \A i \in DOMAIN Append(q, x) :
          Append(q, x)[i] = x \/ (i \in DOMAIN q /\ Append(q, x)[i] = q[i])
    BY <1>1
  <2>3. client'[d].queue = Append(q, [kind |-> kind, by |-> a]) /\ client'[d].step = client[d].step
        /\ client'[d].again = client[d].again /\ client'[d].cmd = client[d].cmd
    BY <1>7 DEF Sends
  <2>4. \A i \in Nat : Holds(client', d, i, k) => Holds(client, d, i, k)
    BY <2>1, <2>2, <2>3 DEF Holds
  <2> QED BY <1>3, <2>3, <2>4
<1>8. CASE Works(d)
  <2>1. \A i \in Nat : Holds(client', d, i, k) =>
          Holds(client, d, i, k) /\ (i = 0 => client'[d].cmd = client[d].cmd \/ 0 \in DOMAIN client[d].queue)
    BY <1>4, <1>8 DEF Works, Holds
  <2>2. 0 \notin DOMAIN client[d].queue
    BY <1>1
  <2>3. client'[d].cmd = client[d].cmd \/ ~Holds(client', d, 0, k)
    BY <1>4, <1>8, <2>2 DEF Works, Holds
  <2>4. Holds(client', d, 0, k) =>
          \/ client'[d].step = client[d].step /\ client'[d].again = client[d].again
          \/ Works(d) /\ client[d].step # "hung" /\ (client[d].again => client'[d].again)
    <3>1. client[d].again \in BOOLEAN
      BY DEF TypeOK, ClientType
    <3>2. client'[d].cmd = NoCommand => ~Holds(client', d, 0, k)
      BY <1>4, <1>8, <2>2 DEF Works, Holds
    <3> QED BY <1>8, <3>1, <3>2 DEF Works
  <2> QED BY <1>3, <2>1, <2>4
<1>9. CASE Takes(d)
  <2>1. /\ q # <<>> /\ client'[d].queue = Tail(q) /\ client'[d].again = client[d].again
        /\ \/ client'[d].cmd = Head(q)
           \/ client'[d].cmd = client[d].cmd /\ client'[d].step = client[d].step
    BY <1>9 DEF Takes
  <2>2. /\ 1 \in DOMAIN q /\ Head(q) = q[1] /\ 0 \notin DOMAIN Tail(q)
        /\ \A i \in DOMAIN Tail(q) : i + 1 \in DOMAIN q /\ Tail(q)[i] = q[i + 1]
    BY <1>1, <2>1
  <2>3. CASE client'[d].cmd = Head(q)
    <3> DEFINE f == [i \in Nat |-> i + 1]
    <3>1. f \in [Nat -> Nat] /\ \A i \in Nat : f[i] = i + 1 /\ f[i] # 0
      OBVIOUS
    <3>2. \A i, j \in Nat : f[i] = f[j] => i = j
      BY <3>1
    <3>3. \A i \in Nat : Holds(client', d, i, k) => Holds(client, d, i + 1, k)
      BY <2>1, <2>2, <2>3 DEF Holds
    <3> HIDE DEF f
    <3> QED BY <3>1, <3>2, <3>3 DEF Comes
  <2>4. CASE client'[d].cmd = client[d].cmd /\ client'[d].step = client[d].step
    <3> DEFINE f == [i \in Nat |-> IF i = 0 THEN 0 ELSE i + 1]
    <3>1. f \in [Nat -> Nat] /\ \A i \in Nat : f[i] = (IF i = 0 THEN 0 ELSE i + 1)
      OBVIOUS
    <3>2. \A i, j \in Nat : f[i] = f[j] => i = j
      BY <3>1
    <3>3. \A i \in Nat : Holds(client', d, i, k) => Holds(client, d, f[i], k)
      BY <2>1, <2>2, <2>4, <3>1 DEF Holds
    <3> HIDE DEF f
    <3>4. \A i \in Nat : i # 0 => f[i] # 0
      BY <3>1
    <3> QED BY <2>1, <2>4, <3>1, <3>2, <3>3, <3>4 DEF Comes
  <2> QED BY <2>1, <2>3, <2>4
<1> QED BY <1>5, <1>6, <1>7, <1>8, <1>9 DEF Quiet, SendsOther, SendsCall

\* The copies of a call do not multiply.
LEMMA CopiesKept ==
    ASSUME TypeOK, NEW k \in Calls, \A d \in Clients : Comes(d, k), NEW e, NEW at, CallBudget(client, e, at, k)
    PROVE  /\ NowhereIn(client, k) => NowhereIn(client', k)
           /\ \A c, d \in Clients, i, j \in Nat :
                Holds(client', c, i, k) /\ Holds(client', d, j, k) => c = d /\ i = j
<1>1. \A c, d \in Clients, i, j \in Nat :
        Holds(client, c, i, k) /\ Holds(client, d, j, k) => c = d /\ i = j
  BY DEF CallBudget
<1>2. ASSUME NEW c \in Clients, NEW d \in Clients, NEW i \in Nat, NEW j \in Nat,
             Holds(client', c, i, k), Holds(client', d, j, k)
      PROVE  c = d /\ i = j
  <2>1. PICK f \in [Nat -> Nat] :
          /\ \A m, n \in Nat : f[m] = f[n] => m = n
          /\ \A m \in Nat : Holds(client', c, m, k) => Holds(client, c, f[m], k)
    BY DEF Comes
  <2>2. PICK g \in [Nat -> Nat] : \A m \in Nat : Holds(client', d, m, k) => Holds(client, d, g[m], k)
    BY DEF Comes
  <2>3. c = d
    BY <1>1, <1>2, <2>1, <2>2
  <2>4. f[i] = f[j]
    BY <1>1, <1>2, <2>1, <2>3
  <2> QED BY <2>1, <2>3, <2>4
<1>3. ASSUME NowhereIn(client, k), NEW c \in Clients, NEW i \in Nat, Holds(client', c, i, k)
      PROVE  FALSE
  <2>1. PICK f \in [Nat -> Nat] : Holds(client, c, f[i], k)
    BY <1>3 DEF Comes
  <2> QED BY <1>3, <2>1 DEF NowhereIn
<1> QED BY <1>2, <1>3 DEF NowhereIn

\* A step in which the server executes nothing of the call by way of an owner.
LEMMA BudgetStays ==
    ASSUME TypeOK, NEW k \in Calls, \A d \in Clients : Comes(d, k), NEW e \in Nat, NEW at, CallBudget(client, e, at, k)
    PROVE  CallBudget(client', e, at, k)
<1>1. /\ NowhereIn(client, k) => NowhereIn(client', k)
      /\ \A c, d \in Clients, i, j \in Nat :
           Holds(client', c, i, k) /\ Holds(client', d, j, k) => c = d /\ i = j
  BY CopiesKept
<1>2. ASSUME NEW c \in Clients, NEW i \in Nat, Holds(client', c, i, k)
      PROVE  /\ i # 0 => e = 0
             /\ i = 0 /\ client'[c].step # "hung" => e <= IF client'[c].again THEN 1 ELSE 0
  <2>1. PICK f \in [Nat -> Nat] :
          /\ Holds(client, c, f[i], k)
          /\ i # 0 => f[i] # 0
          /\ i = 0 /\ f[i] = 0 =>
                \/ client'[c].step = client[c].step /\ client'[c].again = client[c].again
                \/ Works(c) /\ client[c].step # "hung" /\ (client[c].again => client'[c].again)
    BY <1>2 DEF Comes
  <2>2. /\ f[i] # 0 => e = 0
        /\ f[i] = 0 /\ client[c].step # "hung" => e <= IF client[c].again THEN 1 ELSE 0
    BY <2>1 DEF CallBudget
  <2>3. CASE f[i] # 0
    BY <2>2, <2>3
  <2>4. CASE f[i] = 0
    <3>1. i = 0
      BY <2>1, <2>4
    <3>2. CASE client'[c].step = client[c].step /\ client'[c].again = client[c].again
      BY <2>2, <2>4, <3>1, <3>2
    <3>3. CASE client[c].step # "hung" /\ (client[c].again => client'[c].again)
      BY <2>2, <2>4, <3>1, <3>3
    <3> QED BY <2>1, <2>4, <3>1, <3>2, <3>3
  <2> QED BY <2>3, <2>4
<1> QED BY <1>1, <1>2 DEF CallBudget

\* The server executes the call that the owner of client c works on.
LEMMA BudgetSpent ==
    ASSUME TypeOK, TypeOK', NEW k \in Calls, \A d \in Clients : Comes(d, k), NEW at, NEW e \in Nat, CallBudget(client, e, at, k),
           NEW c \in Clients, client[c].step = "request", client[c].cmd = CallOf(k),
           client'[c].cmd = NoCommand \/ client'[c].step = "hung" \/ (client'[c].again /\ ~client[c].again)
    PROVE  CallBudget(client', e + 1, at, k)
<1>1. Holds(client, c, 0, k)
  BY DEF Holds
<1>2. /\ e <= IF client[c].again THEN 1 ELSE 0
      /\ at \notin {"idle", "held", "direct", "RECONNECT", "CONNECT", "retry"}
  BY <1>1 DEF CallBudget, NowhereIn
<1>3. \A d, b \in Clients, i, j \in Nat :
        Holds(client', d, i, k) /\ Holds(client', b, j, k) => d = b /\ i = j
  BY CopiesKept
<1>4. ASSUME NEW d \in Clients, NEW i \in Nat, Holds(client', d, i, k)
      PROVE  d = c /\ i = 0
  <2>1. PICK f \in [Nat -> Nat] : Holds(client, d, f[i], k) /\ (i # 0 => f[i] # 0)
    BY <1>4 DEF Comes
  <2>2. d = c /\ f[i] = 0
    BY <1>1, <2>1 DEF CallBudget
  <2> QED BY <2>1, <2>2
<1>5. ASSUME NEW d \in Clients, NEW i \in Nat, Holds(client', d, i, k), client'[d].step # "hung"
      PROVE  client'[d].again /\ e = 0
  <2>1. d = c /\ i = 0
    BY <1>4, <1>5
  <2>2. client'[c].queue \in Seq(CommandRecord)
    BY DEF TypeOK, ClientType
  <2>3. client'[c].cmd # NoCommand
    <3>1. 0 \notin DOMAIN client'[c].queue
      BY <2>2
    <3> QED BY <1>5, <2>1, <3>1 DEF Holds, CallOf, NoCommand
  <2>4. client'[c].again /\ ~client[c].again
    BY <1>5, <2>1, <2>3
  <2> QED BY <1>2, <2>1, <2>4
<1>6. e + 1 <= 2
  BY <1>2
<1> QED BY <1>2, <1>3, <1>4, <1>5, <1>6 DEF CallBudget

LEMMA OwnerBudget ==
    ASSUME RuntimeInv, TypeOK', NEW c \in Clients, OwnerForm(c)
    PROVE  Budget' /\ Answers'
<1>1. TypeOK /\ QueuesFit /\ Budget /\ Answers /\ Calls \subseteq Askers
  BY RolesApart DEF RuntimeInv, RegistryIInv
<1>2. \A a \in Askers : ask'[a].at = ask[a].at /\ ask'[a].on = ask[a].on
  BY DEF OwnerForm, AsksStay
<1>3. \A d \in Clients, k \in Calls : Comes(d, k)
  <2>1. \A d \in Clients : Quiet(d) \/ Takes(d) \/ Works(d)
    BY DEF OwnerForm, Quiet
  <2> QED BY <1>1, <2>1, ComesBack
<1>4. execs \in [Calls -> Nat]
  BY <1>1 DEF TypeOK
<1>5. execs' = execs \/ Executes(c)
  BY DEF OwnerForm
<1>6. ASSUME NEW k \in Calls, execs' # execs, client[c].cmd = CallOf(k)
      PROVE  /\ client[c].step = "request" /\ execs' = [execs EXCEPT ![k] = @ + 1]
             /\ client'[c].cmd = NoCommand \/ client'[c].step = "hung" \/ (client'[c].again /\ ~client[c].again)
  BY <1>5, <1>6 DEF Executes, CallOf
<1>7. ASSUME execs' # execs
      PROVE  \E k \in Calls : client[c].cmd = CallOf(k) /\ execs' = [execs EXCEPT ![k] = @ + 1]
  <2>1. client[c].cmd.kind = "CALL_TOOL" /\ execs' = [execs EXCEPT ![client[c].cmd.by] = @ + 1]
    BY <1>5, <1>7 DEF Executes
  <2>2. client[c].cmd \in CommandRecord \cup {NoCommand}
    BY <1>1 DEF TypeOK, ClientType
  <2>3. client[c].cmd.by \in Calls
    BY <1>1, <2>1 DEF QueuesFit, Fits
  <2>4. client[c].cmd = CallOf(client[c].cmd.by)
    BY <2>1, <2>2 DEF CommandRecord, CallOf, NoCommand
  <2> QED BY <2>1, <2>3, <2>4
<1>8. \A k \in Calls : execs'[k] = execs[k] \/ execs'[k] = execs[k] + 1
  BY <1>4, <1>7
<1>9. Budget'
  <2> SUFFICES ASSUME NEW k \in Calls
               PROVE  CallBudget(client', execs'[k], ask[k].at, k)
    BY <1>1, <1>2 DEF Budget
  <2>1. CallBudget(client, execs[k], ask[k].at, k) /\ execs[k] \in Nat
    BY <1>1, <1>4 DEF Budget
  <2>2. CASE execs'[k] = execs[k]
    BY <1>1, <1>3, <2>1, <2>2, BudgetStays
  <2>3. CASE execs'[k] # execs[k]
    <3>1. client[c].cmd = CallOf(k)
      <4>1. PICK l \in Calls : client[c].cmd = CallOf(l) /\ execs' = [execs EXCEPT ![l] = @ + 1]
        BY <1>7, <2>3
      <4>2. k = l
        BY <1>4, <2>3, <4>1
      <4> QED BY <4>1, <4>2
    <3>2. /\ client[c].step = "request" /\ execs'[k] = execs[k] + 1
          /\ client'[c].cmd = NoCommand \/ client'[c].step = "hung" \/ (client'[c].again /\ ~client[c].again)
      BY <1>6, <1>8, <2>3, <3>1
    <3>3. CallBudget(client', execs[k] + 1, ask[k].at, k)
      BY <1>1, <1>3, <2>1, <3>1, <3>2, BudgetSpent
    <3> QED BY <3>2, <3>3
  <2> QED BY <2>2, <2>3
<1>10. Answers'
  <2> SUFFICES ASSUME NEW k \in Calls,
                      ask'[k].at = "done" \/ (ask'[k].at = "CALL_TOOL" /\ ask'[k].reply \in {"ok", "empty"})
               PROVE  execs'[k] >= 1
    BY DEF Answers
  <2>1. execs[k] \in Nat /\ execs'[k] >= execs[k] /\ ask'[k].at = ask[k].at
    BY <1>1, <1>2, <1>4, <1>8
  <2>2. CASE ask[k].at = "done" \/ (ask[k].at = "CALL_TOOL" /\ ask[k].reply \in {"ok", "empty"})
    <3>1. execs[k] >= 1
      BY <1>1, <2>2 DEF Answers
    <3>2. execs'[k] \in Nat
      BY <1>8, <2>1
    <3> QED BY <2>1, <3>1, <3>2
  <2>3. CASE ~(ask[k].at = "done" \/ (ask[k].at = "CALL_TOOL" /\ ask[k].reply \in {"ok", "empty"}))
    BY <2>1, <2>3 DEF OwnerForm, Tells
  <2> QED BY <2>2, <2>3
<1> QED BY <1>9, <1>10

LEMMA RuntimeBudget ==
    ASSUME RuntimeInv, RuntimeForm
    PROVE  Budget' /\ Answers'
<1>1. TypeOK /\ Budget /\ Answers /\ execs' = execs /\ \A k \in Calls : ask'[k] = ask[k]
  BY DEF RuntimeInv, RegistryIInv, RuntimeForm
<1>2. \A d \in Clients, k \in Calls : Comes(d, k)
  BY <1>1, ComesBack DEF RuntimeForm
<1>3. \A k \in Calls : execs[k] \in Nat
  BY <1>1 DEF TypeOK
<1>4. Budget'
  <2> SUFFICES ASSUME NEW k \in Calls
               PROVE  CallBudget(client', execs[k], ask[k].at, k)
    BY <1>1 DEF Budget
  <2>1. CallBudget(client, execs[k], ask[k].at, k)
    BY <1>1 DEF Budget
  <2> QED BY <1>1, <1>2, <1>3, <2>1, BudgetStays
<1>5. Answers'
  BY <1>1 DEF Answers
<1> QED BY <1>4, <1>5

LEMMA CallsBudget ==
    ASSUME RuntimeInv, TypeOK', NEW k \in Calls, CallForm(k)
    PROVE  Budget' /\ Answers'
<1>1. TypeOK /\ Budget /\ Answers /\ CallMoves(k) /\ Calls \subseteq Askers /\ \A a \in Askers \ {k} : ask'[a] = ask[a]
  BY RolesApart DEF RuntimeInv, RegistryIInv, CallForm
<1>2. execs \in [Calls -> Nat]
  BY <1>1 DEF TypeOK
<1>3. execs' = execs \/ execs' = [execs EXCEPT ![k] = @ + 1]
  BY <1>1 DEF CallMoves
<1>4. \A l \in Calls \ {k} : execs'[l] = execs[l] /\ ask'[l] = ask[l]
  BY <1>1, <1>2, <1>3
<1>5. ASSUME NEW l \in Calls \ {k}
      PROVE  CallBudget(client', execs'[l], ask'[l].at, l)
  <2>1. \A d \in Clients : Comes(d, l)
    <3>1. \A d \in Clients : Quiet(d) \/ (\E m \in Calls \ {l} : SendsCall(d, m))
      BY <1>5 DEF CallForm
    <3> QED BY <1>1, <3>1, ComesBack
  <2>2. CallBudget(client, execs[l], ask[l].at, l) /\ execs[l] \in Nat
    BY <1>1, <1>2 DEF Budget
  <2> QED BY <1>1, <1>4, <2>1, <2>2, BudgetStays
<1>6. CallBudget(client, execs[k], ask[k].at, k) /\ execs[k] \in Nat
  BY <1>1, <1>2 DEF Budget
<1>7. CallBudget(client', execs'[k], ask'[k].at, k)
  <2>1. CASE ask[k].at = "held" /\ ask'[k].at = "CALL_TOOL"
    <3>1. NowhereIn(client, k) /\ execs[k] = 0 /\ execs'[k] = 0
      BY <1>1, <1>6, <2>1 DEF CallBudget, CallMoves
    <3>2. ASSUME NEW d \in Clients, NEW i \in Nat, Holds(client', d, i, k)
          PROVE  d = ask'[k].on /\ i = Len(client[d].queue) + 1
      <4>1. CASE Quiet(d)
        <5>1. Comes(d, k)
          BY <1>1, <4>1, ComesBack
        <5>2. PICK j \in Nat : Holds(client, d, j, k)
          BY <3>2, <5>1 DEF Comes
        <5> QED BY <3>1, <5>2 DEF NowhereIn
      <4>2. CASE SendsCall(d, k)
        <5> DEFINE q == client[d].queue
        <5>1. client'[d].queue = Append(q, CallOf(k)) /\ client'[d].cmd = client[d].cmd /\ ask'[k].on = d
          BY <4>2 DEF SendsCall, Sends, CallOf
        <5>2. q \in Seq(CommandRecord)
          BY <1>1 DEF TypeOK, ClientType
        <5>3. \A x : \A j \in DOMAIN Append(q, x) :
                j = Len(q) + 1 \/ (j \in DOMAIN q /\ j \in Nat /\ Append(q, x)[j] = q[j])
          BY <5>2
        <5>4. ~(i = 0 /\ client[d].cmd = CallOf(k)) /\ ~(i \in DOMAIN q /\ q[i] = CallOf(k))
          BY <3>1 DEF NowhereIn, Holds
        <5> QED BY <3>2, <5>1, <5>3, <5>4 DEF Holds
      <4> QED BY <4>1, <4>2 DEF CallForm
    <3>3. \A d \in Clients : Len(client[d].queue) \in Nat
      BY <1>1 DEF TypeOK, ClientType
    <3>4. \A d \in Clients, i \in Nat : Holds(client', d, i, k) => i # 0
      BY <3>2, <3>3
    <3>5. \A c, d \in Clients, i, j \in Nat : Holds(client', c, i, k) /\ Holds(client', d, j, k) => c = d /\ i = j
      BY <3>2
    <3> QED BY <2>1, <3>1, <3>4, <3>5 DEF CallBudget
  <2>2. CASE ~(ask[k].at = "held" /\ ask'[k].at = "CALL_TOOL")
    <3>1. \A d \in Clients : Comes(d, k)
      <4>1. \A d \in Clients : Quiet(d)
        BY <2>2 DEF CallForm, SendsCall
      <4> QED BY <1>1, <4>1, ComesBack
    <3>2. CallBudget(client', execs[k], ask[k].at, k)
      BY <1>1, <1>6, <3>1, BudgetStays
    <3>3. CASE ask[k].at \in {"direct", "retry"}
      <4>1. NowhereIn(client', k)
        BY <3>2, <3>3 DEF CallBudget
      <4>2. execs[k] <= (IF ask[k].at = "direct" THEN 0 ELSE 1)
        BY <1>6, <3>3 DEF CallBudget
      <4>3. execs'[k] \in Nat /\ execs'[k] <= execs[k] + 1
        BY <1>2, <1>3
      <4>4. \/ ask'[k].at \in {"done", "failed", "stuck"}
            \/ ask[k].at = "direct" /\ ask'[k].at \in {"RECONNECT", "CONNECT"}
        BY <1>1, <3>3 DEF CallMoves
      <4>5. execs'[k] <= (IF ask[k].at = "direct" THEN 1 ELSE 2)
        BY <1>6, <4>2, <4>3
      <4>6. ask'[k].at \notin {"idle", "held", "direct"}
            /\ (ask'[k].at \in {"RECONNECT", "CONNECT", "retry"} => ask[k].at = "direct")
        BY <4>4
      <4> QED BY <4>1, <4>3, <4>5, <4>6 DEF CallBudget, NowhereIn
    <3>4. CASE ask[k].at \notin {"direct", "retry"}
      <4>1. execs' = execs
        BY <1>1, <3>4 DEF CallMoves
      <4>2. \/ ask[k].at = "idle" /\ ask'[k].at = "held"
            \/ ask[k].at = "held" /\ ask'[k].at \in {"direct", "RECONNECT", "CONNECT"}
            \/ ask'[k].at \in {"failed", "done"}
            \/ ask[k].at \in {"RECONNECT", "CONNECT"} /\ ask'[k].at = "retry"
        BY <1>1, <2>2, <3>4 DEF CallMoves
      <4> QED BY <1>6, <3>2, <4>1, <4>2 DEF CallBudget
    <3> QED BY <3>3, <3>4
  <2> QED BY <2>1, <2>2
<1>8. Budget'
  BY <1>5, <1>7 DEF Budget
<1>9. Answers'
  <2> SUFFICES ASSUME NEW l \in Calls,
                      ask'[l].at = "done" \/ (ask'[l].at = "CALL_TOOL" /\ ask'[l].reply \in {"ok", "empty"})
               PROVE  execs'[l] >= 1
    BY DEF Answers
  <2>1. CASE l # k
    BY <1>1, <1>4, <2>1 DEF Answers
  <2>2. CASE l = k
    <3>1. ask'[k].at = "done"
      BY <1>1, <2>2 DEF CallMoves
    <3>2. CASE ask[k].at = "CALL_TOOL" /\ ask[k].reply \in {"ok", "empty"} /\ execs' = execs
      BY <1>1, <2>2, <3>2 DEF Answers
    <3>3. CASE execs' = [execs EXCEPT ![k] = @ + 1]
      BY <1>2, <1>6, <2>2, <3>3
    <3> QED BY <1>1, <3>1, <3>2, <3>3 DEF CallMoves
  <2> QED BY <2>1, <2>2
<1> QED BY <1>8, <1>9

-----------------------------------------------------------------------------
LEMMA Initially == Init => RuntimeInv
<1> SUFFICES ASSUME Init PROVE RuntimeInv
  OBVIOUS
<1> USE DEF Init
<1>1. /\ client = [c \in Clients |-> NewClient] /\ NewClient \in ClientType
      /\ NewClient.cmd = NoCommand /\ NewClient.queue = <<>> /\ NewClient.step = "idle" /\ ~NewClient.again
  BY ClientRecords DEF NewClient
<1>2. \A a \in Askers : /\ ask[a] \in AskType /\ ask[a].at = (IF a = Boot THEN "boot" ELSE "idle")
                        /\ ask[a].reply = "none"
  BY DEF At, AskType, Places
<1>3. TypeOK
  <2>1. source \in SourceType
    BY DEF NotConnected, SourceType
  <2>2. ask \in [Askers -> AskType]
    BY <1>2
  <2> QED BY <1>1, <2>1, <2>2 DEF TypeOK
<1>4. Roles /\ LockHeld /\ ConnectsAlone /\ RevivesOthers
  BY <1>2, RolesApart DEF Roles, LockHeld, ConnectsAlone, RevivesOthers, Commands
<1>5. OutOfService /\ RegisteredRuns
  BY <1>2, RolesApart DEF OutOfService, RegisteredRuns, NotConnected
<1>6. QueuesFit /\ IdleOwners
  BY <1>1 DEF QueuesFit, IdleOwners, Fits, NoCommand
<1>7. \A k \in Calls : NowhereIn(client, k) /\ execs[k] = 0 /\ ask[k].at = "idle"
  BY <1>1, <1>2, RolesApart DEF NowhereIn, Holds, CallOf, NoCommand
<1>8. Budget
  BY <1>7 DEF Budget, CallBudget, NowhereIn
<1>9. Answers
  BY <1>7 DEF Answers
<1> QED BY <1>3, <1>4, <1>5, <1>6, <1>8, <1>9 DEF RuntimeInv, RegistryIInv

LEMMA Inductive == RuntimeInv /\ [Next]_vars => RuntimeInv'
<1> SUFFICES ASSUME RuntimeInv, [Next]_vars PROVE RuntimeInv'
  OBVIOUS
<1>1. RegistryIInv
  BY DEF RuntimeInv
<1>2. ASSUME RegistryIInv', Budget', Answers'
      PROVE  RuntimeInv'
  BY <1>2 DEF RuntimeInv
<1>3. ASSUME NEW c \in Clients, OwnerStep(c) \/ BackoffEnds(c) \/ (\E done \in BOOLEAN : Hangs(c, done))
      PROVE  RuntimeInv'
  <2>1. RegistryIInv' /\ OwnerForm(c)
    BY <1>1, <1>3, OwnerSteps
  <2>2. TypeOK'
    BY <2>1 DEF RegistryIInv
  <2> QED BY <1>2, <2>1, <2>2, OwnerBudget
<1>4. ASSUME RegistryIInv' /\ RuntimeForm
      PROVE  RuntimeInv'
  BY <1>2, <1>4, RuntimeBudget
<1>5. CASE BootConnect
  BY <1>1, <1>4, <1>5, BootConnectKeeps
<1>6. ASSUME NEW p \in Probers, ProbeStep(p)
      PROVE  RuntimeInv'
  BY <1>1, <1>4, <1>6, ProbeKeeps
<1>7. ASSUME NEW a \in Probers \cup {Boot}, SourceStep(a)
      PROVE  RuntimeInv'
  <2>1. a \in Runtime
    BY DEF Runtime
  <2> QED BY <1>1, <1>4, <1>7, <2>1, SourceKeeps
<1>8. CASE Disconnect
  BY <1>1, <1>4, <1>8, DisconnectKeeps
<1>9. CASE Disconnected
  BY <1>1, <1>4, <1>9, DisconnectedKeeps
<1>10. ASSUME NEW k \in Calls, TakeTool(k) \/ CallTool(k) \/ CallStep(k)
       PROVE  RuntimeInv'
  <2>1. RegistryIInv' /\ CallForm(k)
    BY <1>1, <1>10, CallSteps
  <2>2. TypeOK'
    BY <2>1 DEF RegistryIInv
  <2> QED BY <1>2, <2>1, <2>2, CallsBudget
<1>11. CASE UNCHANGED <<client, source, lock, ask, execs>> /\ (calm' \in BOOLEAN /\ healthUrl' = healthUrl)
  <2>1. TypeOK' /\ Roles' /\ LockHeld' /\ ConnectsAlone'
    BY <1>1, <1>11 DEF RegistryIInv, TypeOK, Roles, LockHeld, ConnectsAlone
  <2>2. OutOfService' /\ RevivesOthers' /\ QueuesFit' /\ IdleOwners' /\ RegisteredRuns'
    BY <1>1, <1>11 DEF RegistryIInv, OutOfService, RevivesOthers, QueuesFit, IdleOwners, RegisteredRuns
  <2>3. Budget' /\ Answers'
    BY <1>11 DEF RuntimeInv, Budget, Answers
  <2> QED BY <1>2, <2>1, <2>2, <2>3 DEF RegistryIInv
<1>12. CASE CalmDown
  BY <1>11, <1>12 DEF CalmDown
<1>13. CASE UNCHANGED vars
  <2>1. calm' \in BOOLEAN
    BY <1>1, <1>13 DEF RegistryIInv, TypeOK, vars
  <2> QED BY <1>11, <1>13, <2>1 DEF vars
<1> QED BY <1>3, <1>5, <1>6, <1>7, <1>8, <1>9, <1>10, <1>12, <1>13 DEF Next

\* Every state keeps the inductive invariant.
THEOREM RuntimeInvariant == Spec => []RuntimeInv
<1>1. Init => RuntimeInv
  BY Initially
<1>2. RuntimeInv /\ [Next]_vars => RuntimeInv'
  BY Inductive
<1> QED BY <1>1, <1>2, PTL DEF Spec

\* The registered client runs its owner, whichever task closes, cancels, gives up
\* or revives a client meanwhile, and no caller is given the outcome of a call
\* that the server did not execute (connect_tools, live_health, disconnect,
\* call_tool).
THEOREM RegistryInvariant == Spec => []RegistryInv
<1>1. RuntimeInv => RegistryInv
  <2> SUFFICES ASSUME RuntimeInv PROVE RegistryInv
    OBVIOUS
  <2>1. DoneWasExecuted
    BY DEF RuntimeInv, Answers, DoneWasExecuted
  <2> QED BY <2>1 DEF RuntimeInv, RegistryIInv, RegistryInv
<1> QED BY <1>1, RuntimeInvariant, PTL

\* Whatever breaks, is abandoned or retried, a tool call is executed twice at
\* most (_owner_run_with_reconnect_once, _run_with_reconnect_once).
THEOREM NoThirdExecution == Spec => []ExecutedAtMostTwice
<1>1. RuntimeInv => ExecutedAtMostTwice
  BY DEF RuntimeInv, Budget, CallBudget, ExecutedAtMostTwice
<1> QED BY <1>1, RuntimeInvariant, PTL
===============================================================================
