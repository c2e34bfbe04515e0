----------------------------- MODULE MCServices -----------------------------
(***************************************************************************)
(* Services of the process for TLC in one run: the mail poller, the runs   *)
(* of the models and the credit left for them.  They share no state, so a  *)
(* behaviour is one of the service that the initial state picks.           *)
(***************************************************************************)
EXTENDS ModelRuns, ModelCredit

CONSTANTS Mail, Nobody, MaxManual, MaxStops

VARIABLES
    service,
    flag, draft, task, file, lock, shown, imap, discord, quiet, torn, manuals, stops

mailVars == <<flag, draft, task, file, lock, shown, imap, discord, quiet, torn, manuals, stops>>
vars == <<service, mailVars, runVars, creditVars>>

\* An OpenRouter model, then one of Venice, then a name nobody supports.
MCChain == <<"a", "b", "c">>
MCProviderOf(m) == [a |-> "openrouter", b |-> "venice", c |-> "unknown"][m]

\* An OpenRouter key so small that the default threshold exceeds its limit.
MCWarn == [openrouter |-> 500, venice |-> 50, google |-> 50]

Poller == INSTANCE MailPoller

\* The services that are not picked stay in one of their initial states.
Init ==
    /\ service \in {"mail", "models", "wallet"}
    /\ Poller!Init /\ RunsInit /\ CreditInit
    /\ service # "mail" => file.is = "no directory" /\ quiet = FALSE
    /\ service # "models" => keys = {}
    /\ service # "wallet" =>
         watched = {} /\ limited = FALSE /\ \A p \in Provider : left[p] = [amount |-> Limit, up |-> TRUE]

Next ==
    /\ UNCHANGED service
    /\ \/ service = "mail" /\ Poller!Next /\ UNCHANGED <<runVars, creditVars>>
       \/ service = "models" /\ RunsNext /\ UNCHANGED <<mailVars, creditVars>>
       \/ service = "wallet" /\ CreditNext /\ UNCHANGED <<mailVars, runVars>>

Spec ==
    /\ Init /\ [][Next]_vars
    /\ service = "mail" => Poller!Fairness

\* See MailPoller.
ChannelConverges == Poller!ChannelConverges
MailIsRead == Poller!MailIsRead
=============================================================================
