---------------------------- MODULE CaseIdentity ----------------------------
(***************************************************************************)
(* Which case an observation belongs to: the aliases that lead a monitored *)
(* source to its case, the creation of cases by concurrent intake, links   *)
(* of a case to a parent by the investigating agent, and the meta-cases    *)
(* that group cases of one event (src/app/cases/service.py, postgres.py,   *)
(* correlation.py, graph_memory.py, src/app/db/schema.py).                 *)
(*                                                                         *)
(* Every process that talks to the database is a worker.  A transaction    *)
(* that locks one row is one step, enabled while nobody else holds it; one *)
(* that locks two rows takes the first and then, in one step, the second,  *)
(* with what it does under both, so that workers can wait for each other,  *)
(* and Postgres ends a cycle of waits by aborting one of them.  Case       *)
(* identifiers are numbers: only their order, in which the correlation     *)
(* service locks, matters.                                                 *)
(***************************************************************************)
EXTENDS Integers, FiniteSets, Sequences, SequencesExt

CONSTANTS
    Source,         \* the observations that are repeated: one monitored thing each
    Alias,          \* alias_type:alias_value
    First(_),       \* the alias observation_alias computes for a source
    More(_),        \* the other aliases a case of it is given
    Storm,          \* sets of sources that share a site, customer, service or resource
    Atomic, Meta,   \* identifiers for cases and meta-cases to come
    Nobody,         \* no case
    Process         \* the processes that talk to the database, or workers

\* What the constants must satisfy.
CaseIdentityConstants ==
    /\ Atomic \subseteq Nat /\ Meta \subseteq Nat /\ Atomic \cap Meta = {}
    /\ IsFiniteSet(Atomic) /\ IsFiniteSet(Meta)
    /\ Nobody \notin Atomic \cup Meta
    /\ Storm \subseteq SUBSET Source
    /\ \A s \in Source : First(s) \in Alias /\ More(s) \subseteq Alias \ {First(s)}

ASSUME IdentityConstants == CaseIdentityConstants

VARIABLES
    cases,       \* cases of kind atomic
    meta,       \* cases of kind meta
    alias,      \* case_identity_aliases whose retired_at is null
    job         \* what each worker is doing

identityVars == <<cases, meta, alias, job>>

AbsentCase == [status |-> "absent", of |-> Nobody,
               meta |-> Nobody, covered |-> FALSE, independent |-> FALSE]

\* The statuses the unique index counts as active are one here.
Live == {"investigating"}
Statuses == Live \cup {"absent", "resolved", "linked"}

IdleProcess == [op |-> "idle"]

IdentityInit ==
    /\ cases = [c \in Atomic |-> AbsentCase]
    /\ meta = [m \in Meta |-> [event |-> {}, children |-> {}]]
    /\ alias = [a \in Alias |-> Nobody]
    /\ job = [w \in Process |-> IdleProcess]

Exists(c) == cases[c].status # "absent"
Created(m) == meta[m].event # {}

(***************************************************************************)
(* Row locks.                                                              *)
(***************************************************************************)
Held(w) == IF job[w].op \in {"link", "attach", "detach"} THEN job[w].held ELSE {}

FreeFor(w, id) == \A v \in Process \ {w} : id \notin Held(v)

\* The cases a two-row transaction locks, in order.
\* link_child_case: the child, then the parent, as the caller named them.
\* Correlation: both in the stable order of their identifiers.
SortedPair(m, c) == IF m < c THEN <<m, c>> ELSE <<c, m>>

\* Mutant: attaching takes the meta-case first and detaching the child first.
UnsortedPair(j) ==
    CASE j.op = "link" -> <<j.child, j.parent>>
      [] j.op = "attach" -> <<j.meta, Head(j.todo)>>
      [] j.op = "detach" -> <<Head(j.todo), j.meta>>

LockOrder(j) ==
    CASE j.op = "link" -> <<j.child, j.parent>>
      [] j.op \in {"attach", "detach"} -> SortedPair(j.meta, Head(j.todo))

NextLock(w) == LockOrder(job[w])[Cardinality(job[w].held) + 1]

Locking(w) == job[w].op \in {"link", "attach", "detach"}

\* The job starts with its first lock.
StartLocked(w, j) ==
    LET first == LockOrder(j)[1] IN
    /\ job[w] = IdleProcess
    /\ FreeFor(w, first)
    /\ job' = [job EXCEPT ![w] = [j EXCEPT !.held = {first}]]
    /\ UNCHANGED <<cases, meta, alias>>

\* The next child of create_meta_case: the first lock.
Lock(w) ==
    /\ Locking(w) /\ job[w].held = {}
    /\ FreeFor(w, NextLock(w))
    /\ job' = [job EXCEPT ![w].held = {NextLock(w)}]
    /\ UNCHANGED <<cases, meta, alias>>

\* The second lock is free too.
Locked(w) == job[w].held # {} /\ FreeFor(w, NextLock(w))

Done(w) == job' = [job EXCEPT ![w] = IdleProcess]

\* w waits for a row that another worker holds.
WaitsFor(w) == {v \in Process \ {w} : Locking(w) /\ NextLock(w) \in Held(v)}

\* The workers of S wait for each other in a circle.
Circle(S) == S # {} /\ (\A w \in S : WaitsFor(w) # {}) /\ UNION {WaitsFor(w) : w \in S} = S

\* Postgres aborts one transaction of a circle; the request fails.
DeadlockVictim(w) ==
    /\ \E S \in SUBSET Process : w \in S /\ Circle(S)
    /\ Done(w)
    /\ UNCHANGED <<cases, meta, alias>>

(***************************************************************************)
(* Intake: CaseService.observe.                                            *)
(***************************************************************************)
\* put_observation, then resolve_alias: a firing observation of an unknown
\* alias starts a creation; a clean one without a case is only an event.
Observe(w, s, status) ==
    /\ job[w] = IdleProcess
    /\ LET c == alias[First(s)] IN
         \/ /\ c = Nobody /\ status = "firing"
            /\ job' = [job EXCEPT ![w] = [op |-> "create", source |-> s]]
         \/ /\ c # Nobody
            /\ job' = [job EXCEPT ![w] = [op |-> "write", case |-> c, status |-> status]]
    /\ UNCHANGED <<cases, meta, alias>>

\* _update_unhealthy and _record_clean: the status they give the row they
\* re-read under its lock.  A clean one that is not positive changes no status.
StatusAfter(old, status) ==
    CASE status = "firing" -> IF old = "resolved" THEN "investigating" ELSE old
      [] status = "clean" -> "resolved"

Write(w) ==
    /\ job[w].op = "write"
    /\ FreeFor(w, job[w].case)
    /\ cases' = [cases EXCEPT ![job[w].case].status = StatusAfter(@, job[w].status)]
    /\ Done(w)
    /\ UNCHANGED <<meta, alias>>

AliasesOf(s) == {First(s)} \cup More(s)

\* The case create_atomic_case finds instead of creating one: that of the first
\* active alias, or else the live one with the same fingerprint.
Existing(s) ==
    LET led == {alias[a] : a \in More(s)} \ {Nobody} IN
    CASE alias[First(s)] # Nobody -> {alias[First(s)]}
      [] alias[First(s)] = Nobody /\ led # {} -> led
      [] OTHER -> {c \in Atomic : cases[c].of = First(s) /\ cases[c].status \in Live}

\* Another creation under the advisory lock of the same first alias.
AdvisoryFree(w, s) ==
    \A v \in Process \ {w} : job[v].op = "insert" => First(job[v].source) # First(s)

\* create_atomic_case up to its inserts.
LookUp(w) ==
    /\ job[w].op = "create"
    /\ LET s == job[w].source IN
         /\ AdvisoryFree(w, s)
         /\ \/ \E c \in Existing(s) :
                 /\ FreeFor(w, c)
                 /\ job' = [job EXCEPT ![w] = [op |-> "write", case |-> c, status |-> "firing"]]
            \/ /\ Existing(s) = {}
               /\ job' = [job EXCEPT ![w] = [op |-> "insert", source |-> s]]
    /\ UNCHANGED <<cases, meta, alias>>

\* The unique indexes on active aliases and on live fingerprints.
Unique(s) ==
    /\ \A a \in AliasesOf(s) : alias[a] = Nobody
    /\ \A c \in Atomic : cases[c].of = First(s) => cases[c].status \notin Live

\* create_atomic_case: the case and its aliases, or a unique violation that
\* aborts the transaction and fails the request.
Insert(w) ==
    /\ job[w].op = "insert"
    /\ LET s == job[w].source IN
         \/ /\ Unique(s)
            /\ \E c \in Atomic :
                 /\ ~Exists(c)
                 /\ cases' = [cases EXCEPT ![c] =
                               [AbsentCase EXCEPT !.status = "investigating", !.of = First(s)]]
                 /\ alias' = [a \in Alias |-> IF a \in AliasesOf(s) THEN c ELSE alias[a]]
         \/ /\ ~Unique(s)
            /\ UNCHANGED <<cases, alias>>
    /\ Done(w)
    /\ UNCHANGED meta

(***************************************************************************)
(* Links: the agent's tool link_to_parent_case.                            *)
(***************************************************************************)
\* The investigation of a case links it to another that exists.
StartLink(w, child, parent) ==
    /\ child # parent /\ Exists(child) /\ Exists(parent)
    /\ StartLocked(w, [op |-> "link", child |-> child, parent |-> parent, held |-> {}])

\* Mutant: the child's aliases are retired and not given to the parent.
RetireAliases(child, parent) ==
    alias' = [a \in Alias |-> IF alias[a] = child THEN Nobody ELSE alias[a]]

\* Every active alias of the child is retired and given to the parent.
MoveAliases(child, parent) ==
    alias' = [a \in Alias |-> IF alias[a] = child THEN parent ELSE alias[a]]

\* link_child_case with both rows locked; a child that is linked stays as it is.
Link(w) ==
    /\ job[w].op = "link" /\ Locked(w)
    /\ LET child == job[w].child
           parent == job[w].parent IN
         \/ /\ cases[child].status = "linked"
            /\ UNCHANGED <<cases, alias>>
         \/ /\ cases[child].status # "linked"
            /\ cases' = [cases EXCEPT ![child].status = "linked"]
            /\ MoveAliases(child, parent)
    /\ Done(w)
    /\ UNCHANGED meta

\* put_summary: the graph gives the case it works on a status of its own,
\* whatever the status it has.
PutSummary(c) ==
    /\ Exists(c) /\ \A w \in Process : c \notin Held(w)
    /\ cases' = [cases EXCEPT ![c].status = "investigating"]
    /\ UNCHANGED <<meta, alias, job>>

(***************************************************************************)
(* Meta-cases: CorrelationService.                                         *)
(***************************************************************************)
\* The cases that the sources lead to.
Found(S) == {alias[First(s)] : s \in S} \ {Nobody}

\* correlate_observations and create_meta_case: two or more firing sources of
\* a shared scope that lead to two or more cases.  The event's fingerprint is
\* that of its observations; the unique index refuses a second meta-case of it.
Correlate(w, S) ==
    /\ job[w] = IdleProcess
    /\ Cardinality(S) >= 2
    /\ Cardinality(Found(S)) >= 2
    /\ \A m \in Meta : meta[m].event # S
    /\ \E m \in Meta, q \in SetToSeqs(Found(S)) :
         /\ ~Created(m)
         /\ meta' = [meta EXCEPT ![m].event = S]
         /\ job' = [job EXCEPT ![w] =
                      [op |-> "attach", meta |-> m, todo |-> q, held |-> {}, own |-> FALSE]]
    /\ UNCHANGED <<cases, alias>>

\* attach_child, with or without an action of its own, or detach_child, called
\* for one child.
StartMembership(w, op, m, c, own) ==
    /\ Created(m) /\ Exists(c)
    /\ StartLocked(w, [op |-> op, meta |-> m, todo |-> <<c>>, held |-> {}, own |-> own])

\* Mutant: a child of another meta-case is attached all the same.
AttachAnyway(c, m) == TRUE

\* A child of another meta-case, all of which stay active, is refused.
MayAttach(c, m) == cases[c].meta \in {Nobody, m}

\* attach_child under both locks; create_meta_case goes on with the next child
\* in a transaction of its own.  A refusal raises: the children that are left
\* are not attached.
Attach(w) ==
    /\ job[w].op = "attach" /\ Locked(w)
    /\ LET m == job[w].meta
           c == Head(job[w].todo)
           rest == Tail(job[w].todo) IN
         \/ /\ MayAttach(c, m)
            /\ meta' = [meta EXCEPT ![m].children = @ \cup {c}]
            /\ cases' = [cases EXCEPT ![c].meta = m, ![c].covered = ~job[w].own,
                                    ![c].independent = job[w].own]
            /\ IF rest = <<>>
                 THEN Done(w)
                 ELSE job' = [job EXCEPT ![w].todo = rest, ![w].held = {}]
         \/ /\ ~MayAttach(c, m)
            /\ Done(w)
            /\ UNCHANGED <<cases, meta>>
    /\ UNCHANGED alias

\* detach_child under both locks.
Detach(w) ==
    /\ job[w].op = "detach" /\ Locked(w)
    /\ LET m == job[w].meta
           c == Head(job[w].todo) IN
         /\ meta' = [meta EXCEPT ![m].children = @ \ {c}]
         /\ cases' = IF cases[c].meta = m
                       THEN [cases EXCEPT ![c].meta = Nobody, ![c].covered = FALSE]
                       ELSE cases
    /\ Done(w)
    /\ UNCHANGED alias

\* mark_independent_action_required.
MarkIndependent(c, required) ==
    /\ Exists(c) /\ \A w \in Process : c \notin Held(w)
    /\ cases' = [cases EXCEPT
         ![c].independent = required,
         ![c].covered = CASE required -> FALSE
                          [] ~required /\ cases[c].meta # Nobody -> TRUE
                          [] OTHER -> @]
    /\ UNCHANGED <<meta, alias, job>>

Request(w) ==
    \/ \E s \in Source, status \in {"firing", "clean"} : Observe(w, s, status)
    \/ \E c, p \in Atomic : StartLink(w, c, p)
    \/ \E S \in Storm : Correlate(w, S)
    \/ \E m \in Meta, c \in Atomic :
         \/ \E own \in BOOLEAN : StartMembership(w, "attach", m, c, own)
         \/ StartMembership(w, "detach", m, c, FALSE)

Proceed(w) ==
    \/ Lock(w) \/ DeadlockVictim(w)
    \/ Write(w) \/ LookUp(w) \/ Insert(w)
    \/ Link(w) \/ Attach(w) \/ Detach(w)

IdentityNext ==
    \/ \E w \in Process : Request(w) \/ Proceed(w)
    \/ \E c \in Atomic : PutSummary(c)
    \/ \E c \in Atomic, required \in BOOLEAN : MarkIndependent(c, required)

IdentitySpec == IdentityInit /\ [][IdentityNext]_identityVars

(***************************************************************************)
(* Properties.                                                             *)
(***************************************************************************)
CaseType ==
    [status : Statuses, of : Alias \cup {Nobody}, meta : Meta \cup {Nobody},
     covered : BOOLEAN, independent : BOOLEAN]

MetaType == [event : Storm \cup {{}}, children : SUBSET Atomic]

JobType ==
    [op : {"idle"}]
    \cup [op : {"create", "insert"}, source : Source]
    \cup [op : {"write"}, case : Atomic, status : {"firing", "clean"}]
    \cup [op : {"link"}, child : Atomic, parent : Atomic, held : SUBSET Atomic]
    \cup [op : {"attach", "detach"}, meta : Meta, todo : Seq(Atomic) \ {<<>>},
          held : SUBSET (Atomic \cup Meta), own : BOOLEAN]

\* The type invariant of the cases, meta-cases, aliases and workers.
IdentityTypeOK ==
    /\ cases \in [Atomic -> CaseType]
    /\ meta \in [Meta -> MetaType]
    /\ alias \in [Alias -> Atomic \cup {Nobody}]
    /\ job \in [Process -> JobType]

\* A monitored thing never gets a second case, however its observations race
\* each other, get linked away, recover and come back: create_atomic_case, the
\* unique indexes and link_child_case keep one case per fingerprint.
OneCasePerSource ==
    \A c, d \in Atomic : Exists(c) /\ Exists(d) /\ cases[c].of = cases[d].of => c = d

\* Both sides of the membership agree after every commit, and the reminders of
\* a case are withheld (covered_by_meta_case) only while a meta-case has it
\* as a child that needs no action of its own.
CoveredIsAttached ==
    \A c \in Atomic :
      /\ \A m \in Meta : cases[c].meta = m <=> c \in meta[m].children
      /\ cases[c].covered => cases[c].meta # Nobody /\ ~cases[c].independent

\* With the types of the cases, meta-cases, aliases and workers.
MembershipInv == IdentityTypeOK /\ CoveredIsAttached

\* Attaching and detaching children never wait for each other in a circle: the
\* order of the identifiers is enough for them, and every deadlock that the
\* database breaks has a link in it, which locks in the caller's order.
LinksCauseDeadlocks ==
    \A S \in SUBSET Process : Circle(S) => \E w \in S : job[w].op = "link"
=============================================================================
