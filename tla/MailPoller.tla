----------------------------- MODULE MailPoller -----------------------------
(***************************************************************************)
(* The shared mailbox: polls by the background loop and on request, the    *)
(* drafts they store for approval, and the announcements of an outage and  *)
(* of its end (src/app/mail.py, src/app/mail_notifications.py, and the     *)
(* loop, its process lock and POST /mail/poll in src/app/main.py).         *)
(*                                                                         *)
(* The loop and a requested poll may run in different worker processes, so *)
(* that the steps of their IMAP sessions interleave; only the announcement *)
(* of an outcome is serialised, by the lock file beside its state.         *)
(***************************************************************************)
EXTENDS Integers, FiniteSets, FiniteSetsExt

CONSTANTS
    Mail,           \* UIDs of messages to come
    Nobody,
    MaxManual,      \* polls requested with POST /mail/poll
    MaxStops        \* shutdowns and crashes

Task == {"loop", "manual"}

VARIABLES
    flag,       \* of every message: not arrived, unseen or seen
    draft,      \* messages with a stored draft
    task,       \* what each poll is doing
    file,       \* mailbox-notification.json
    lock,       \* who holds mailbox-notification.lock
    shown,      \* what the last announcement in the channel says
    imap,       \* whether the mail server answers
    discord,    \* whether Discord accepts a post
    quiet,      \* LOG_LEVEL_DISCORD filters the recovery out, not the outage
    torn,       \* a crash came between a post and the write of the state file
    manuals, stops

vars == <<flag, draft, task, file, lock, shown, imap, discord, quiet, torn, manuals, stops>>

\* The poll is over: its loop sleeps, or nobody asked for another one.
Rest == [pc |-> "rest", todo |-> {}, failed |-> FALSE]

Init ==
    /\ flag = [m \in Mail |-> "coming"]
    /\ draft = {}
    /\ task = [t \in Task |-> Rest]
    /\ file \in [is : {"no directory", "no file", "state"}, failed : {FALSE}, delivered : {TRUE}]
    /\ lock = Nobody
    /\ shown = "up"
    /\ imap = TRUE /\ discord = TRUE
    /\ quiet \in BOOLEAN
    /\ torn = FALSE
    /\ manuals = 0 /\ stops = 0

Unseen == {m \in Mail : flag[m] = "unseen"}

(***************************************************************************)
(* The poll: process_mailbox_once.                                         *)
(***************************************************************************)
\* The loop's next turn, or a request: the search for unseen messages.
Search(t) ==
    /\ task[t].pc = "rest"
    /\ t = "manual" => manuals < MaxManual
    /\ manuals' = IF t = "manual" THEN manuals + 1 ELSE manuals
    /\ task' = [task EXCEPT ![t] =
         IF imap THEN [pc |-> "fetch", todo |-> Unseen, failed |-> FALSE]
                 ELSE [pc |-> "report", todo |-> {}, failed |-> TRUE]]
    /\ UNCHANGED <<flag, draft, file, lock, shown, imap, discord, quiet, torn, stops>>

\* Fetching RFC822 marks a message as seen.  A message whose fetch is refused
\* is left for the next poll; a session that breaks off fails the poll, with
\* the messages it had fetched.
Fetch(t) ==
    /\ task[t].pc = "fetch"
    /\ \E got \in SUBSET task[t].todo :
         /\ flag' = [m \in Mail |-> IF m \in got THEN "seen" ELSE flag[m]]
         /\ \/ /\ imap
               /\ task' = [task EXCEPT ![t].pc = "draft", ![t].todo = got]
            \/ /\ ~imap
               /\ task' = [task EXCEPT ![t] = [pc |-> "report", todo |-> {}, failed |-> TRUE]]
    /\ UNCHANGED <<draft, file, lock, shown, imap, discord, quiet, torn, manuals, stops>>

\* The next message, of any content: nothing for system mail; otherwise the
\* model's draft is stored under the message's own id, and a failure of the
\* model or of the store ends the poll.
Draft(t) ==
    /\ task[t].pc = "draft" /\ task[t].todo # {}
    /\ LET m == Min(task[t].todo) IN
         \/ /\ task' = [task EXCEPT ![t].todo = @ \ {m}]
            /\ UNCHANGED draft
         \/ /\ task' = [task EXCEPT ![t].todo = @ \ {m}]
            /\ draft' = draft \cup {m}
         \/ /\ task' = [task EXCEPT ![t] = [pc |-> "report", todo |-> {}, failed |-> TRUE]]
            /\ UNCHANGED draft
    /\ UNCHANGED <<flag, file, lock, shown, imap, discord, quiet, torn, manuals, stops>>

\* notify_finish: a notifier that raises fails the poll too.
Finish(t) ==
    /\ task[t].pc = "draft" /\ task[t].todo = {}
    /\ \E failed \in {FALSE, ~discord} :
         task' = [task EXCEPT ![t] = [pc |-> "report", todo |-> {}, failed |-> failed]]
    /\ UNCHANGED <<flag, draft, file, lock, shown, imap, discord, quiet, torn, manuals, stops>>

(***************************************************************************)
(* The announcement: report_mailbox_state.                                 *)
(***************************************************************************)
\* A healthy poll before any outage leaves no trace.
Silent(t) == ~task[t].failed /\ file.is = "no directory"

\* The state the file holds is this poll's, and the channel has been told.  No
\* file reads as a healthy state that was told, a damaged one as one that was not.
AlreadyTold(t) == file.failed = task[t].failed /\ file.delivered

SkipReport(t) ==
    /\ task[t].pc = "report" /\ Silent(t)
    /\ task' = [task EXCEPT ![t] = Rest]
    /\ UNCHANGED <<flag, draft, file, lock, shown, imap, discord, quiet, torn, manuals, stops>>

\* Mutant: the return for a state that was told leaves the lock taken.
ReportKeepsLock(t) ==
    /\ task[t].pc = "report" /\ ~Silent(t)
    /\ lock = Nobody
    /\ file' = IF file.is = "no directory" THEN [file EXCEPT !.is = "no file"] ELSE file
    /\ lock' = t
    /\ task' = [task EXCEPT ![t] = IF AlreadyTold(t) THEN Rest ELSE [@ EXCEPT !.pc = "send"]]
    /\ UNCHANGED <<flag, draft, shown, imap, discord, quiet, torn, manuals, stops>>

\* The lock is tried until it is free; then the state is read.
Report(t) ==
    /\ task[t].pc = "report" /\ ~Silent(t)
    /\ lock = Nobody
    /\ file' = IF file.is = "no directory" THEN [file EXCEPT !.is = "no file"] ELSE file
    /\ \/ /\ AlreadyTold(t)
          /\ task' = [task EXCEPT ![t] = Rest]
          /\ UNCHANGED lock
       \/ /\ ~AlreadyTold(t)
          /\ task' = [task EXCEPT ![t].pc = "send"]
          /\ lock' = t
    /\ UNCHANGED <<flag, draft, shown, imap, discord, quiet, torn, manuals, stops>>

Says(t) == IF task[t].failed THEN "down" ELSE "up"

Filtered(t) == quiet /\ ~task[t].failed

\* A post may reach the channel although its answer is lost.
Posts(t) == IF Filtered(t) THEN {FALSE} ELSE BOOLEAN

\* What comes of a post: Discord takes it and says so, or no answer comes.
Answers(t) ==
    IF discord /\ ~Filtered(t) THEN [in : {TRUE}, ok : {TRUE}] ELSE [in : Posts(t), ok : {FALSE}]

\* Mutant: every write of the state counts as delivered.
WriteDelivered(t, ok) == file' = [is |-> "state", failed |-> task[t].failed, delivered |-> TRUE]

\* The finally clause: the state is written whatever came of the post.
WriteState(t, ok) == file' = [is |-> "state", failed |-> task[t].failed, delivered |-> ok]

Send(t) ==
    /\ task[t].pc = "send"
    /\ \E post \in Answers(t) :
         /\ WriteState(t, post.ok)
         /\ shown' = IF post.in THEN Says(t) ELSE shown
    /\ task' = [task EXCEPT ![t] = Rest]
    /\ lock' = Nobody
    /\ UNCHANGED <<flag, draft, imap, discord, quiet, torn, manuals, stops>>

(***************************************************************************)
(* Shutdown, crash and the world.                                          *)
(***************************************************************************)
\* A shutdown cancels the polls; a post under way is cut off, with its outcome
\* unknown, but the finally clause still writes the state.
Shutdown ==
    /\ stops < MaxStops /\ stops' = stops + 1
    /\ task' = [t \in Task |-> Rest]
    /\ lock' = Nobody
    /\ \/ \E t \in Task : /\ task[t].pc = "send"
                          /\ \E in \in Posts(t) :
                               shown' = IF in THEN Says(t) ELSE shown
                          /\ WriteState(t, FALSE)
       \/ (\A t \in Task : task[t].pc # "send") /\ UNCHANGED <<file, shown>>
    /\ UNCHANGED <<flag, draft, imap, discord, quiet, torn, manuals>>

\* A crash writes nothing.
Crash ==
    /\ stops < MaxStops /\ stops' = stops + 1
    /\ task' = [t \in Task |-> Rest]
    /\ lock' = Nobody
    /\ \/ \E t \in Task : /\ task[t].pc = "send"
                          /\ \E in \in Posts(t) :
                               /\ shown' = IF in THEN Says(t) ELSE shown
                               /\ torn' = (torn \/ in)
       \/ (\A t \in Task : task[t].pc # "send") /\ UNCHANGED <<shown, torn>>
    /\ UNCHANGED <<flag, draft, file, imap, discord, quiet, manuals>>

Arrive(m) ==
    /\ flag[m] = "coming"
    /\ flag' = [flag EXCEPT ![m] = "unseen"]
    /\ UNCHANGED <<draft, task, file, lock, shown, imap, discord, quiet, torn, manuals, stops>>

World ==
    /\ \/ imap' = ~imap /\ UNCHANGED <<discord, file>>
       \/ discord' = ~discord /\ UNCHANGED <<imap, file>>
       \/ /\ file.is = "state" /\ file' = [is |-> "damaged", failed |-> FALSE, delivered |-> FALSE]
          /\ UNCHANGED <<imap, discord>>
    /\ UNCHANGED <<flag, draft, task, lock, shown, quiet, torn, manuals, stops>>

Poll(t) ==
    \/ Search(t) \/ Fetch(t) \/ Draft(t) \/ Finish(t)
    \/ SkipReport(t) \/ Report(t) \/ Send(t)

Next ==
    \/ \E t \in Task : Poll(t)
    \/ \E m \in Mail : Arrive(m)
    \/ Shutdown \/ Crash \/ World

Spec == Init /\ [][Next]_vars

\* The loop polls for ever and a poll under way goes on; requests need not come,
\* and every message that is offered to Fetch is fetched in the end.
Fairness ==
    /\ WF_vars(Poll("loop"))
    /\ WF_vars(task["manual"].pc # "rest" /\ Poll("manual"))
    /\ \A m \in Mail : SF_vars(Fetch("loop") /\ flag'[m] = "seen")

FairSpec == Spec /\ Fairness

(***************************************************************************)
(* Properties.                                                             *)
(***************************************************************************)
\* An outage that lasts is announced, whatever was announced, filtered, lost or
\* cut off before it and whichever polls race: once the mail server stays away
\* and Discord stays up, the channel comes to say so and goes on saying so.
\* A crash between a post and the write of the state file is the one exception.
OutageIsTold == <>[](~imap /\ discord /\ ~torn) => <>[](shown = "down")

\* Likewise its end, at a verbosity that lets the recovery through, if the
\* model and the draft directory also serve: no poll fails any more.
RecoveryIsTold ==
    ~quiet /\ <>[](imap /\ discord /\ ~torn /\ \A t \in Task : ~task[t].failed)
        => <>[](shown = "up")

\* The channel comes to tell the truth about the mailbox.
ChannelConverges == OutageIsTold /\ RecoveryIsTold

\* A message that has arrived is read by some poll, however many of its fetches
\* are refused and whatever becomes of the polls, if the mail server stays.
MailIsRead == \A m \in Mail : <>[]imap => (flag[m] = "unseen" ~> flag[m] = "seen")
=============================================================================
