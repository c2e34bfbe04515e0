----------------------------- MODULE CasesProofs -----------------------------
(***************************************************************************)
(* Theorems of the two modules about cases that run `cases' composes.      *)
(*                                                                         *)
(* CaseIdentity: for any sources, aliases, storms, processes and           *)
(* identifiers of cases and meta-cases, a monitored thing gets one case,   *)
(* both sides of a membership agree, and only links can deadlock.          *)
(*                                                                         *)
(* KnowledgeArtifacts: for any requests, outcomes, questions, documents,   *)
(* workers and reviewers, a decision is about the content it was given     *)
(* for, and what the rows of the knowledge loop refer to exists.           *)
(***************************************************************************)
EXTENDS CaseIdentity, KnowledgeArtifacts, FiniteSetTheorems, WellFoundedInduction, TLAPS

-----------------------------------------------------------------------------
(* CaseIdentity. *)

\* What aliases and jobs refer to exists, and a case to come has no membership.
Refers ==
    /\ \A a \in Alias : alias[a] # Nobody => Exists(alias[a])
    /\ \A c \in Atomic : ~Exists(c) => cases[c].meta = Nobody /\ ~cases[c].covered
    /\ \A w \in Process :
         /\ job[w].op = "write" => Exists(job[w].case)
         /\ job[w].op = "link" => Exists(job[w].child) /\ Exists(job[w].parent)
         /\ job[w].op \in {"attach", "detach"} =>
               \A i \in DOMAIN job[w].todo : Exists(job[w].todo[i])

\* The first alias of a case leads somewhere for ever, so that no second case
\* of its source is created.
FirstAliasLeads ==
    \A c \in Atomic : Exists(c) => cases[c].of \in Alias /\ alias[cases[c].of] # Nobody

\* A worker holds nothing, or the first of the two rows it locks.
HoldsFirst == \A w \in Process : Held(w) \in {{}, {LockOrder(job[w])[1]}}

IdentityInv ==
    /\ IdentityTypeOK /\ Refers
    /\ FirstAliasLeads /\ OneCasePerSource
    /\ CoveredIsAttached
    /\ HoldsFirst

-----------------------------------------------------------------------------
(* The operators. *)

\* The aliases of a source are aliases.
LEMMA AliasesAreAliases ==
    ASSUME CaseIdentityConstants, NEW s \in Source
    PROVE  AliasesOf(s) \subseteq Alias /\ First(s) \in AliasesOf(s) /\ First(s) \in Alias
  BY DEF CaseIdentityConstants, AliasesOf

\* The cases create_atomic_case may find are cases that exist.
LEMMA ExistingExist ==
    ASSUME CaseIdentityConstants, IdentityTypeOK, Refers, NEW s \in Source, NEW c \in Existing(s)
    PROVE  c \in Atomic /\ Exists(c)
<1>1. First(s) \in Alias /\ More(s) \subseteq Alias
  BY DEF CaseIdentityConstants
<1>2. CASE alias[First(s)] # Nobody
  BY <1>1, <1>2 DEF Existing, IdentityTypeOK, Refers
<1>3. CASE alias[First(s)] = Nobody /\ {alias[a] : a \in More(s)} \ {Nobody} # {}
  <2>1. c \in {alias[a] : a \in More(s)} \ {Nobody}
    BY <1>3 DEF Existing
  <2> QED BY <2>1, <1>1 DEF IdentityTypeOK, Refers
<1>4. CASE alias[First(s)] = Nobody /\ ~({alias[a] : a \in More(s)} \ {Nobody} # {})
  <2>1. c \in {d \in Atomic : cases[d].of = First(s) /\ cases[d].status \in Live}
    BY <1>4 DEF Existing
  <2> QED BY <2>1 DEF Exists, Live
<1> QED BY <1>2, <1>3, <1>4

\* The cases a storm leads to are cases that exist, in sequences of at least one.
LEMMA FoundExist ==
    ASSUME CaseIdentityConstants, IdentityTypeOK, Refers, NEW S \in Storm, Cardinality(Found(S)) >= 2,
           NEW q \in SetToSeqs(Found(S))
    PROVE  /\ q \in Seq(Atomic) \ {<<>>}
           /\ \A i \in DOMAIN q : Exists(q[i])
<1>1. \A s \in S : First(s) \in Alias
  BY DEF CaseIdentityConstants
<1>2. Found(S) \subseteq Atomic /\ \A c \in Found(S) : Exists(c)
  BY <1>1 DEF Found, IdentityTypeOK, Refers
<1>3. IsFiniteSet(Found(S)) /\ Cardinality(Found(S)) \in Nat
  BY <1>2, FS_Subset, FS_CardinalityType DEF CaseIdentityConstants
<1>4. q \in [1..Cardinality(Found(S)) -> Found(S)]
  BY DEF SetToSeqs
<1>5. q \in Seq(Atomic) /\ DOMAIN q = 1..Cardinality(Found(S)) /\ q # <<>>
  BY <1>2, <1>3, <1>4
<1> QED BY <1>2, <1>4, <1>5

\* The rows that a link, an attachment or a detachment locks.
LEMMA LockOrderRows ==
    ASSUME CaseIdentityConstants, NEW j \in JobType, j.op \in {"link", "attach", "detach"}
    PROVE  LockOrder(j)[1] \in Atomic \cup Meta
<1>1. CASE j.op = "link"
  BY <1>1 DEF JobType, LockOrder
<1>2. CASE j.op \in {"attach", "detach"}
  <2>1. j.meta \in Meta /\ Head(j.todo) \in Atomic
    BY <1>2 DEF JobType
  <2> QED BY <1>2, <2>1 DEF LockOrder, SortedPair
<1> QED BY <1>1, <1>2

\* A job with other rows held is a job.
LEMMA HoldingType ==
    ASSUME NEW j \in JobType, j.op \in {"link", "attach", "detach"},
           NEW h \in SUBSET (Atomic \cup Meta), j.op = "link" => h \subseteq Atomic
    PROVE  [j EXCEPT !.held = h] \in JobType
<1>1. CASE j.op = "link"
  BY <1>1 DEF JobType
<1>2. CASE j.op \in {"attach", "detach"}
  BY <1>2 DEF JobType
<1> QED BY <1>1, <1>2

\* The row a worker locks next is a row, and a case if it links.
LEMMA NextLockType ==
    ASSUME CaseIdentityConstants, IdentityTypeOK, NEW w \in Process, Locking(w), job[w].held = {}
    PROVE  {NextLock(w)} \subseteq Atomic \cup Meta /\ (job[w].op = "link" => {NextLock(w)} \subseteq Atomic)
<1>1. job[w] \in JobType
  BY DEF IdentityTypeOK
<1>2. NextLock(w) = LockOrder(job[w])[1]
  BY FS_EmptySet DEF NextLock
<1>3. job[w].op = "link" => LockOrder(job[w])[1] \in Atomic
  BY <1>1 DEF JobType, LockOrder
<1> QED BY <1>1, <1>2, <1>3, LockOrderRows DEF Locking

\* A locked job starts as a job.
LEMMA StartType ==
    ASSUME CaseIdentityConstants, IdentityTypeOK, NEW w \in Process, NEW j \in JobType,
           j.op \in {"link", "attach", "detach"}, StartLocked(w, j)
    PROVE  IdentityTypeOK'
<1> DEFINE h == {LockOrder(j)[1]}
<1>1. h \subseteq Atomic \cup Meta
  BY LockOrderRows
<1>2. j.op = "link" => h \subseteq Atomic
  BY DEF JobType, LockOrder
<1>3. [j EXCEPT !.held = h] \in JobType
  BY <1>1, <1>2, HoldingType
<1>4. job' = [job EXCEPT ![w] = [j EXCEPT !.held = h]] /\ UNCHANGED <<cases, meta, alias>>
  BY DEF StartLocked
<1> HIDE DEF h
<1> QED BY <1>3, <1>4 DEF IdentityTypeOK

\* An idle worker is a job.
LEMMA DoneType ==
    ASSUME IdentityTypeOK, NEW w \in Process, Done(w)
    PROVE  job' \in [Process -> JobType]
<1>1. IdleProcess \in JobType
  BY DEF IdleProcess, JobType
<1> QED BY <1>1 DEF Done, IdentityTypeOK

\* The rest of an attachment is a job.
LEMMA AttachRest ==
    ASSUME NEW j \in JobType, j.op = "attach", NEW t \in Seq(Atomic) \ {<<>>},
           NEW h \in SUBSET (Atomic \cup Meta)
    PROVE  [j EXCEPT !.todo = t, !.held = h] \in JobType
  BY DEF JobType

LEMMA TypeStep ==
    ASSUME CaseIdentityConstants, IdentityTypeOK, Refers, [IdentityNext]_identityVars
    PROVE  IdentityTypeOK'
<1>1. ASSUME NEW w \in Process, NEW s \in Source, NEW status \in {"firing", "clean"}, Observe(w, s, status)
      PROVE  IdentityTypeOK'
  <2>1. First(s) \in Alias
    BY DEF CaseIdentityConstants
  <2>2. [op |-> "create", source |-> s] \in JobType
    BY DEF JobType
  <2>3. ASSUME alias[First(s)] # Nobody
        PROVE  [op |-> "write", case |-> alias[First(s)], status |-> status] \in JobType
    BY <2>1, <2>3 DEF JobType, IdentityTypeOK
  <2> QED BY <1>1, <2>1, <2>2, <2>3 DEF Observe, IdentityTypeOK
<1>2. ASSUME NEW w \in Process, NEW c \in Atomic, NEW d \in Atomic, StartLink(w, c, d)
      PROVE  IdentityTypeOK'
  <2>1. [op |-> "link", child |-> c, parent |-> d, held |-> {}] \in JobType
    BY DEF JobType
  <2> QED BY <1>2, <2>1, StartType DEF StartLink
<1>3. ASSUME NEW w \in Process, NEW S \in Storm, Correlate(w, S)
      PROVE  IdentityTypeOK'
  <2>1. PICK m \in Meta, q \in SetToSeqs(Found(S)) :
           /\ meta' = [meta EXCEPT ![m].event = S]
           /\ job' = [job EXCEPT ![w] =
                        [op |-> "attach", meta |-> m, todo |-> q, held |-> {}, own |-> FALSE]]
    BY <1>3 DEF Correlate
  <2>2. q \in Seq(Atomic) \ {<<>>}
    BY <1>3, FoundExist DEF Correlate
  <2>3. [op |-> "attach", meta |-> m, todo |-> q, held |-> {}, own |-> FALSE] \in JobType
    BY <2>2 DEF JobType
  <2>4. UNCHANGED <<cases, alias>>
    BY <1>3 DEF Correlate
  <2>5. [meta[m] EXCEPT !.event = S] \in MetaType
    BY DEF IdentityTypeOK, MetaType
  <2> QED BY <2>1, <2>3, <2>4, <2>5 DEF IdentityTypeOK
<1>4. ASSUME NEW w \in Process, NEW op \in {"attach", "detach"}, NEW m \in Meta, NEW c \in Atomic,
             NEW own \in BOOLEAN, StartMembership(w, op, m, c, own)
      PROVE  IdentityTypeOK'
  <2>1. [op |-> op, meta |-> m, todo |-> <<c>>, held |-> {}, own |-> own] \in JobType
    BY DEF JobType
  <2> QED BY <1>4, <2>1, StartType DEF StartMembership
<1>5. ASSUME NEW w \in Process, Lock(w)
      PROVE  IdentityTypeOK'
  <2>1. [job[w] EXCEPT !.held = {NextLock(w)}] \in JobType
    BY <1>5, NextLockType, HoldingType DEF Lock, Locking, IdentityTypeOK
  <2> QED BY <1>5, <2>1 DEF Lock, IdentityTypeOK
<1>6. ASSUME NEW w \in Process, DeadlockVictim(w)
      PROVE  IdentityTypeOK'
  BY <1>6, DoneType DEF DeadlockVictim, IdentityTypeOK
<1>7. ASSUME NEW w \in Process, Write(w)
      PROVE  IdentityTypeOK'
  <2>1. job[w].case \in Atomic /\ job[w].status \in {"firing", "clean"}
    BY <1>7 DEF Write, IdentityTypeOK, JobType
  <2>2. StatusAfter(cases[job[w].case].status, job[w].status) \in Statuses
    BY <2>1 DEF StatusAfter, IdentityTypeOK, CaseType, Statuses, Live
  <2> QED BY <1>7, <2>1, <2>2, DoneType DEF Write, IdentityTypeOK, CaseType
<1>8. ASSUME NEW w \in Process, LookUp(w)
      PROVE  IdentityTypeOK'
  <2>1. job[w].source \in Source
    BY <1>8 DEF LookUp, IdentityTypeOK, JobType
  <2>2. [op |-> "insert", source |-> job[w].source] \in JobType
    BY <2>1 DEF JobType
  <2>3. ASSUME NEW c \in Existing(job[w].source)
        PROVE  [op |-> "write", case |-> c, status |-> "firing"] \in JobType
    BY <2>1, <2>3, ExistingExist DEF JobType
  <2> QED BY <1>8, <2>2, <2>3 DEF LookUp, IdentityTypeOK
<1>9. ASSUME NEW w \in Process, Insert(w)
      PROVE  IdentityTypeOK'
  <2>1. job[w].source \in Source
    BY <1>9 DEF Insert, IdentityTypeOK, JobType
  <2>2. AliasesOf(job[w].source) \subseteq Alias /\ First(job[w].source) \in Alias
    BY <2>1, AliasesAreAliases
  <2>3. UNCHANGED meta /\ job' \in [Process -> JobType]
    BY <1>9, DoneType DEF Insert
  <2>4. \/ cases' = cases /\ alias' = alias
        \/ \E c \in Atomic :
             /\ cases' = [cases EXCEPT ![c] =
                           [AbsentCase EXCEPT !.status = "investigating", !.of = First(job[w].source)]]
             /\ alias' = [a \in Alias |-> IF a \in AliasesOf(job[w].source) THEN c ELSE alias[a]]
    BY <1>9 DEF Insert
  <2>5. [AbsentCase EXCEPT !.status = "investigating", !.of = First(job[w].source)] \in CaseType
    BY <2>2 DEF AbsentCase, CaseType, Statuses, Live
  <2>6. cases' \in [Atomic -> CaseType]
    BY <2>4, <2>5 DEF IdentityTypeOK
  <2>7. alias' \in [Alias -> Atomic \cup {Nobody}]
    BY <2>2, <2>4 DEF IdentityTypeOK
  <2> QED BY <2>3, <2>6, <2>7 DEF IdentityTypeOK
<1>10. ASSUME NEW w \in Process, Link(w)
       PROVE  IdentityTypeOK'
  <2>1. job[w].child \in Atomic /\ job[w].parent \in Atomic
    BY <1>10 DEF Link, IdentityTypeOK, JobType
  <2>2. [cases[job[w].child] EXCEPT !.status = "linked"] \in CaseType
    BY <2>1 DEF IdentityTypeOK, CaseType, Statuses
  <2>3. cases' \in [Atomic -> CaseType]
    BY <1>10, <2>1, <2>2 DEF Link, IdentityTypeOK
  <2>4. alias' \in [Alias -> Atomic \cup {Nobody}]
    BY <1>10, <2>1 DEF Link, IdentityTypeOK, MoveAliases
  <2> QED BY <1>10, <2>3, <2>4, DoneType DEF Link, IdentityTypeOK
<1>11. ASSUME NEW w \in Process, Attach(w)
       PROVE  IdentityTypeOK'
  <2> DEFINE j == job[w]
             m == j.meta
             c == Head(j.todo)
  <2>1. /\ m \in Meta /\ j.own \in BOOLEAN /\ j.todo \in Seq(Atomic) /\ j.todo # <<>>
        /\ j = [op |-> "attach", meta |-> m, todo |-> j.todo, held |-> j.held, own |-> j.own]
    BY <1>11 DEF Attach, IdentityTypeOK, JobType
  <2>2. c \in Atomic /\ Tail(j.todo) \in Seq(Atomic)
    BY <2>1
  <2>3. ASSUME Tail(j.todo) # <<>>
        PROVE  [j EXCEPT !.todo = Tail(j.todo), !.held = {}] \in JobType
    <3>1. j \in JobType /\ j.op = "attach"
      BY <1>11 DEF Attach, IdentityTypeOK
    <3>2. Tail(j.todo) \in Seq(Atomic) \ {<<>>} /\ {} \in SUBSET (Atomic \cup Meta)
      BY <2>2, <2>3
    <3> HIDE DEF j
    <3> QED BY <3>1, <3>2, AttachRest
  <2>5. Done(w) \/ (Tail(j.todo) # <<>> /\ job' = [job EXCEPT ![w].todo = Tail(j.todo), ![w].held = {}])
    BY <1>11 DEF Attach
  <2>6. job' \in [Process -> JobType]
    <3>1. ASSUME job' = [job EXCEPT ![w].todo = Tail(j.todo), ![w].held = {}]
          PROVE  job' = [job EXCEPT ![w] = [j EXCEPT !.todo = Tail(j.todo), !.held = {}]]
      BY <3>1 DEF IdentityTypeOK
    <3> QED BY <2>3, <2>5, <3>1, DoneType DEF IdentityTypeOK
  <2>7. [cases[c] EXCEPT !.meta = m, !.covered = ~j.own, !.independent = j.own] \in CaseType
    <3>1. cases[c] \in CaseType /\ (~j.own) \in BOOLEAN
      BY <2>2 DEF IdentityTypeOK
    <3> QED BY <2>1, <3>1 DEF CaseType
  <2>8. [meta[m] EXCEPT !.children = @ \cup {c}] \in MetaType
    BY <2>1, <2>2 DEF IdentityTypeOK, MetaType
  <2>9. \/ UNCHANGED <<cases, meta>>
        \/ /\ cases' = [cases EXCEPT ![c] = [cases[c] EXCEPT !.meta = m, !.covered = ~j.own, !.independent = j.own]]
           /\ meta' = [meta EXCEPT ![m] = [meta[m] EXCEPT !.children = @ \cup {c}]]
    BY <1>11, <2>1, <2>2 DEF Attach, IdentityTypeOK
  <2>10. cases' \in [Atomic -> CaseType] /\ meta' \in [Meta -> MetaType]
    <3> HIDE DEF j, m, c
    <3> QED BY <2>1, <2>2, <2>7, <2>8, <2>9 DEF IdentityTypeOK
  <2> QED BY <1>11, <2>6, <2>10 DEF Attach, IdentityTypeOK
<1>12. ASSUME NEW w \in Process, Detach(w)
       PROVE  IdentityTypeOK'
  <2> DEFINE m == job[w].meta
             c == Head(job[w].todo)
  <2>1. m \in Meta /\ job[w].todo \in Seq(Atomic) /\ job[w].todo # <<>>
    BY <1>12 DEF Detach, IdentityTypeOK, JobType
  <2>2. c \in Atomic
    BY <2>1
  <2>3. [cases[c] EXCEPT !.meta = Nobody, !.covered = FALSE] \in CaseType
    BY <2>2 DEF IdentityTypeOK, CaseType
  <2>4. [meta[m] EXCEPT !.children = @ \ {c}] \in MetaType
    BY <2>1, <2>2 DEF IdentityTypeOK, MetaType
  <2>5. /\ cases' = cases \/ cases' = [cases EXCEPT ![c] = [cases[c] EXCEPT !.meta = Nobody, !.covered = FALSE]]
        /\ meta' = [meta EXCEPT ![m] = [meta[m] EXCEPT !.children = @ \ {c}]]
    BY <1>12, <2>1, <2>2 DEF Detach, IdentityTypeOK
  <2> QED BY <1>12, <2>1, <2>2, <2>3, <2>4, <2>5, DoneType DEF Detach, IdentityTypeOK
<1>13. ASSUME NEW c \in Atomic, PutSummary(c)
       PROVE  IdentityTypeOK'
  BY <1>13 DEF PutSummary, IdentityTypeOK, CaseType, Statuses, Live
<1>14. ASSUME NEW c \in Atomic, NEW required \in BOOLEAN, MarkIndependent(c, required)
       PROVE  IdentityTypeOK'
  <2>1. PICK covered \in BOOLEAN :
           cases' = [cases EXCEPT ![c] = [cases[c] EXCEPT !.independent = required, !.covered = covered]]
    <3>1. cases[c] \in CaseType
      BY DEF IdentityTypeOK
    <3>2. CASE required
      BY <1>14, <3>1, <3>2 DEF MarkIndependent, IdentityTypeOK, CaseType
    <3>3. CASE ~required /\ cases[c].meta # Nobody
      BY <1>14, <3>1, <3>3 DEF MarkIndependent, IdentityTypeOK, CaseType
    <3>4. CASE ~required /\ cases[c].meta = Nobody
      BY <1>14, <3>1, <3>4 DEF MarkIndependent, IdentityTypeOK, CaseType
    <3> QED BY <3>2, <3>3, <3>4
  <2>2. [cases[c] EXCEPT !.independent = required, !.covered = covered] \in CaseType
    BY DEF IdentityTypeOK, CaseType
  <2> QED BY <1>14, <2>1, <2>2 DEF MarkIndependent, IdentityTypeOK
<1>15. CASE UNCHANGED identityVars
  BY <1>15 DEF identityVars, IdentityTypeOK
<1> QED BY <1>1, <1>2, <1>3, <1>4, <1>5, <1>6, <1>7, <1>8, <1>9, <1>10, <1>11, <1>12, <1>13, <1>14, <1>15
        DEF IdentityNext, Request, Proceed
-----------------------------------------------------------------------------
(* What a step commits. *)

\* A case gets another status, and its aliases may move to another case.
Turns(c) ==
    /\ Exists(c)
    /\ \E st \in Statuses \ {"absent"} : cases' = [cases EXCEPT ![c].status = st]
    /\ alias' = alias \/ \E parent \in Atomic : Exists(parent) /\ MoveAliases(c, parent)
    /\ UNCHANGED meta

\* A case is created for a source whose aliases are free.
Creates(s, c) ==
    /\ Unique(s) /\ ~Exists(c)
    /\ cases' = [cases EXCEPT ![c] = [AbsentCase EXCEPT !.status = "investigating", !.of = First(s)]]
    /\ alias' = [a \in Alias |-> IF a \in AliasesOf(s) THEN c ELSE alias[a]]
    /\ UNCHANGED meta

\* A meta-case is created, without children yet.
Groups(m, S) == meta' = [meta EXCEPT ![m].event = S] /\ UNCHANGED <<cases, alias>>

\* A child joins a meta-case, or leaves one.
Joins(m, c, own) ==
    /\ Exists(c) /\ MayAttach(c, m)
    /\ meta' = [meta EXCEPT ![m].children = @ \cup {c}]
    /\ cases' = [cases EXCEPT ![c].meta = m, ![c].covered = ~own, ![c].independent = own]
    /\ UNCHANGED alias

Leaves(m, c) ==
    /\ meta' = [meta EXCEPT ![m].children = @ \ {c}]
    /\ cases' = IF cases[c].meta = m THEN [cases EXCEPT ![c].meta = Nobody, ![c].covered = FALSE]
                                   ELSE cases
    /\ UNCHANGED alias

\* Every step commits one of these, or nothing.
Commits ==
    \/ UNCHANGED <<cases, meta, alias>>
    \/ \E c \in Atomic : Turns(c)
    \/ \E s \in Source, c \in Atomic : Creates(s, c)
    \/ \E m \in Meta, S \in Storm : Groups(m, S)
    \/ \E m \in Meta, c \in Atomic, own \in BOOLEAN : Joins(m, c, own)
    \/ \E m \in Meta, c \in Atomic : Exists(c) /\ Leaves(m, c)
    \/ \E c \in Atomic, required \in BOOLEAN : MarkIndependent(c, required)

LEMMA StepCommits ==
    ASSUME CaseIdentityConstants, IdentityTypeOK, Refers, [IdentityNext]_identityVars
    PROVE  Commits
<1>1. ASSUME NEW w \in Process, Request(w)
      PROVE  Commits
  <2>1. ASSUME NEW S \in Storm, Correlate(w, S)
        PROVE  Commits
    BY <2>1 DEF Correlate, Commits, Groups
  <2>2. UNCHANGED <<cases, meta, alias>> \/ \E S \in Storm : Correlate(w, S)
    BY <1>1 DEF Request, Observe, StartLink, StartMembership, StartLocked
  <2> QED BY <2>1, <2>2 DEF Commits
<1>2. ASSUME NEW w \in Process, Write(w)
      PROVE  Commits
  <2> DEFINE c == job[w].case
             st == StatusAfter(cases[c].status, job[w].status)
  <2>1. c \in Atomic /\ Exists(c) /\ job[w].status \in {"firing", "clean"}
    BY <1>2 DEF Write, IdentityTypeOK, JobType, Refers
  <2>2. st \in Statuses \ {"absent"}
    BY <2>1 DEF StatusAfter, IdentityTypeOK, CaseType, Statuses, Live, Exists
  <2>3. cases' = [cases EXCEPT ![c].status = st] /\ UNCHANGED <<meta, alias>>
    BY <1>2, <2>1 DEF Write
  <2> QED BY <2>1, <2>2, <2>3 DEF Commits, Turns
<1>3. ASSUME NEW w \in Process, Insert(w)
      PROVE  Commits
  <2>1. job[w].source \in Source
    BY <1>3 DEF Insert, IdentityTypeOK, JobType
  <2>2. UNCHANGED <<cases, meta, alias>> \/ \E c \in Atomic : Creates(job[w].source, c)
    BY <1>3 DEF Insert, Creates
  <2> QED BY <2>1, <2>2 DEF Commits
<1>4. ASSUME NEW w \in Process, Link(w)
      PROVE  Commits
  <2> DEFINE c == job[w].child
  <2>1. c \in Atomic /\ Exists(c) /\ job[w].parent \in Atomic /\ Exists(job[w].parent)
    BY <1>4 DEF Link, IdentityTypeOK, JobType, Refers
  <2>2. "linked" \in Statuses \ {"absent"}
    BY DEF Statuses
  <2>3. \/ UNCHANGED <<cases, meta, alias>>
        \/ /\ cases' = [cases EXCEPT ![c].status = "linked"]
           /\ MoveAliases(c, job[w].parent) /\ UNCHANGED meta
    BY <1>4 DEF Link
  <2> QED BY <2>1, <2>2, <2>3 DEF Commits, Turns
<1>5. ASSUME NEW w \in Process, Attach(w)
      PROVE  Commits
  <2> DEFINE m == job[w].meta
             c == Head(job[w].todo)
             own == job[w].own
  <2>1. /\ m \in Meta /\ own \in BOOLEAN /\ job[w].todo \in Seq(Atomic) /\ job[w].todo # <<>>
        /\ \A i \in DOMAIN job[w].todo : Exists(job[w].todo[i])
    BY <1>5 DEF Attach, IdentityTypeOK, JobType, Refers
  <2>2. c \in Atomic /\ Exists(c)
    BY <2>1
  <2>3. UNCHANGED <<cases, meta, alias>> \/ Joins(m, c, own)
    BY <1>5, <2>2 DEF Attach, Joins
  <2> QED BY <2>1, <2>2, <2>3 DEF Commits
<1>6. ASSUME NEW w \in Process, Detach(w)
      PROVE  Commits
  <2> DEFINE m == job[w].meta
             c == Head(job[w].todo)
  <2>1. /\ m \in Meta /\ job[w].todo \in Seq(Atomic) /\ job[w].todo # <<>>
        /\ \A i \in DOMAIN job[w].todo : Exists(job[w].todo[i])
    BY <1>6 DEF Detach, IdentityTypeOK, JobType, Refers
  <2>2. c \in Atomic /\ Exists(c)
    BY <2>1
  <2>3. Leaves(m, c)
    BY <1>6 DEF Detach, Leaves
  <2> QED BY <2>1, <2>2, <2>3 DEF Commits
<1>7. ASSUME NEW w \in Process, Lock(w) \/ DeadlockVictim(w) \/ LookUp(w)
      PROVE  Commits
  BY <1>7 DEF Lock, DeadlockVictim, LookUp, Commits
<1>8. ASSUME NEW c \in Atomic, PutSummary(c)
      PROVE  Commits
  <2>1. "investigating" \in Statuses \ {"absent"}
    BY DEF Statuses, Live
  <2> QED BY <1>8, <2>1 DEF PutSummary, Commits, Turns
<1>9. CASE UNCHANGED identityVars
  BY <1>9 DEF identityVars, Commits
<1>10. ASSUME NEW c \in Atomic, NEW required \in BOOLEAN, MarkIndependent(c, required)
       PROVE  Commits
  BY <1>10 DEF Commits
<1> QED BY <1>1, <1>2, <1>3, <1>4, <1>5, <1>6, <1>7, <1>8, <1>9, <1>10 DEF IdentityNext, Proceed

\* A case that exists goes on existing, for the same source; one that does not
\* exist yet has no membership.
LEMMA CasesStay ==
    ASSUME CaseIdentityConstants, IdentityTypeOK, Refers, Commits, NEW c \in Atomic
    PROVE  /\ Exists(c) => Exists(c)' /\ cases'[c].of = cases[c].of
           /\ ~Exists(c)' => cases'[c].meta = Nobody /\ ~cases'[c].covered
<1> USE DEF Exists
<1>1. cases[c] \in CaseType /\ (~Exists(c) => cases[c].meta = Nobody /\ ~cases[c].covered)
  BY DEF IdentityTypeOK, Refers
<1>2. ASSUME NEW d \in Atomic, Turns(d)
      PROVE  cases'[c].status # "absent" <=> cases[c].status # "absent"
  BY <1>2 DEF Turns, IdentityTypeOK, CaseType
<1>3. ASSUME NEW d \in Atomic, Turns(d)
      PROVE  cases'[c].of = cases[c].of /\ cases'[c].meta = cases[c].meta /\ cases'[c].covered = cases[c].covered
  BY <1>3 DEF Turns, IdentityTypeOK, CaseType
<1>4. CASE \E d \in Atomic : Turns(d)
  BY <1>1, <1>2, <1>3, <1>4
<1>5. ASSUME NEW s \in Source, NEW d \in Atomic, Creates(s, d)
      PROVE  IF c = d THEN cases'[c].status = "investigating" /\ ~Exists(c) ELSE cases'[c] = cases[c]
  BY <1>5 DEF Creates, IdentityTypeOK, AbsentCase
<1>6. CASE \E s \in Source, d \in Atomic : Creates(s, d)
  BY <1>1, <1>5, <1>6
<1>7. ASSUME NEW m \in Meta, NEW d \in Atomic, NEW own \in BOOLEAN, Joins(m, d, own)
      PROVE  IF c = d THEN Exists(c) /\ cases'[c].status = cases[c].status /\ cases'[c].of = cases[c].of
                      ELSE cases'[c] = cases[c]
  BY <1>7 DEF Joins, IdentityTypeOK, CaseType
<1>8. CASE \E m \in Meta, d \in Atomic, own \in BOOLEAN : Joins(m, d, own)
  BY <1>1, <1>7, <1>8
<1>9. ASSUME NEW m \in Meta, NEW d \in Atomic, Exists(d) /\ Leaves(m, d)
      PROVE  IF c = d THEN Exists(c) /\ cases'[c].status = cases[c].status /\ cases'[c].of = cases[c].of
                      ELSE cases'[c] = cases[c]
  BY <1>9 DEF Leaves, IdentityTypeOK, CaseType
<1>10. CASE \E m \in Meta, d \in Atomic : Exists(d) /\ Leaves(m, d)
  BY <1>1, <1>9, <1>10
<1>11. ASSUME NEW d \in Atomic, NEW required \in BOOLEAN, MarkIndependent(d, required)
       PROVE  IF c = d THEN Exists(c) /\ cases'[c].status = cases[c].status /\ cases'[c].of = cases[c].of
                       ELSE cases'[c] = cases[c]
  BY <1>11 DEF MarkIndependent, IdentityTypeOK, CaseType
<1>12. CASE \E d \in Atomic, required \in BOOLEAN : MarkIndependent(d, required)
  BY <1>1, <1>11, <1>12
<1>13. CASE UNCHANGED cases
  BY <1>1, <1>13
<1> QED BY <1>4, <1>6, <1>8, <1>10, <1>12, <1>13 DEF Commits, Groups
-----------------------------------------------------------------------------
(* The invariant is inductive. *)

\* A case that exists in cs.
KnownIn(cs, c) == cs[c].status # "absent"

\* Aliases lead to cases that exist.
LEMMA AliasesStep ==
    ASSUME CaseIdentityConstants, IdentityTypeOK, Refers, Commits, NEW a \in Alias, alias'[a] # Nobody
    PROVE  KnownIn(cases', alias'[a])
<1> USE DEF KnownIn, Exists
<1>1. \A c \in Atomic : KnownIn(cases, c) => KnownIn(cases', c)
  BY CasesStay
<1>2. alias[a] # Nobody => alias[a] \in Atomic /\ KnownIn(cases, alias[a])
  BY DEF IdentityTypeOK, Refers
<1>3. CASE UNCHANGED alias
  BY <1>1, <1>2, <1>3 DEF Exists
<1>4. ASSUME NEW c \in Atomic, Turns(c)
      PROVE  KnownIn(cases', alias'[a])
  <2>1. CASE UNCHANGED alias
    BY <1>3, <2>1
  <2>2. CASE \E parent \in Atomic : KnownIn(cases, parent) /\ MoveAliases(c, parent)
    BY <1>1, <1>2, <2>2 DEF MoveAliases, Exists
  <2> QED BY <1>4, <2>1, <2>2 DEF Turns
<1>5. ASSUME NEW s \in Source, NEW c \in Atomic, Creates(s, c)
      PROVE  KnownIn(cases', alias'[a])
  <2>1. KnownIn(cases', c)
    BY <1>5 DEF Creates, IdentityTypeOK, Exists, AbsentCase
  <2> QED BY <1>1, <1>2, <1>5, <2>1 DEF Creates, Exists
<1> QED BY <1>3, <1>4, <1>5 DEF Commits, Groups, Joins, Leaves, MarkIndependent

\* Jobs are about cases that exist.
RefersTo(cs, j) ==
    /\ j.op = "write" => KnownIn(cs, j.case)
    /\ j.op = "link" => KnownIn(cs, j.child) /\ KnownIn(cs, j.parent)
    /\ j.op \in {"attach", "detach"} => \A i \in DOMAIN j.todo : KnownIn(cs, j.todo[i])

LEMMA JobsStep ==
    ASSUME CaseIdentityConstants, IdentityTypeOK, Refers, [IdentityNext]_identityVars, NEW w \in Process
    PROVE  RefersTo(cases', job'[w])
<1> USE DEF KnownIn, Exists
<1>1. \A c \in Atomic : KnownIn(cases, c) => KnownIn(cases', c)
  BY CasesStay, StepCommits
<1>2. ASSUME NEW v \in Process
      PROVE  RefersTo(cases, job[v])
  BY DEF Refers, RefersTo
<1>3. ASSUME NEW j \in JobType, RefersTo(cases, j)
      PROVE  RefersTo(cases', j)
  <2>1. CASE j.op = "write"
    BY <1>1, <1>3, <2>1 DEF RefersTo, JobType
  <2>2. CASE j.op = "link"
    BY <1>1, <1>3, <2>2 DEF RefersTo, JobType
  <2>3. CASE j.op \in {"attach", "detach"}
    <3>1. \A i \in DOMAIN j.todo : j.todo[i] \in Atomic
      BY <2>3 DEF JobType
    <3> QED BY <1>1, <1>3, <2>3, <3>1 DEF RefersTo
  <2> QED BY <2>1, <2>2, <2>3 DEF RefersTo
<1>4. CASE job'[w] = job[w]
  BY <1>2, <1>3, <1>4 DEF IdentityTypeOK
<1>5. CASE job'[w] = IdleProcess
  BY <1>5 DEF RefersTo, IdleProcess
<1>6. ASSUME NEW v \in Process, Done(v)
      PROVE  job'[w] \in {job[w], IdleProcess}
  BY <1>6 DEF Done, IdentityTypeOK
<1>7. ASSUME NEW v \in Process, NEW j, job' = [job EXCEPT ![v] = j]
      PROVE  job'[w] \in {job[w], j}
  BY <1>7 DEF IdentityTypeOK
<1>8. ASSUME NEW v \in Process, NEW s \in Source, NEW status \in {"firing", "clean"}, Observe(v, s, status)
      PROVE  RefersTo(cases', job'[w])
  <2> DEFINE c == alias[First(s)]
  <2>1. First(s) \in Alias
    BY DEF CaseIdentityConstants
  <2>2. CASE job' = [job EXCEPT ![v] = [op |-> "create", source |-> s]]
    BY <1>4, <1>7, <2>2 DEF RefersTo
  <2>3. CASE c # Nobody /\ job' = [job EXCEPT ![v] = [op |-> "write", case |-> c, status |-> status]]
    <3>1. c \in Atomic /\ KnownIn(cases', c)
      BY <1>1, <2>1, <2>3 DEF Refers, IdentityTypeOK
    <3>2. UNCHANGED c
      BY <1>8 DEF Observe
    <3>3. RefersTo(cases', [op |-> "write", case |-> c, status |-> status])
      BY <3>1, <3>2 DEF RefersTo, Exists
    <3> QED BY <1>4, <1>7, <2>3, <3>2, <3>3
  <2> QED BY <1>8, <2>2, <2>3 DEF Observe
<1>9. ASSUME NEW v \in Process, NEW c \in Atomic, NEW d \in Atomic, StartLink(v, c, d)
      PROVE  RefersTo(cases', job'[w])
  <2> DEFINE j == [op |-> "link", child |-> c, parent |-> d, held |-> {}]
             h == {LockOrder(j)[1]}
  <2>1. job' = [job EXCEPT ![v] = [j EXCEPT !.held = h]]
    BY <1>9 DEF StartLink, StartLocked
  <2>2. KnownIn(cases', c) /\ KnownIn(cases', d)
    BY <1>1, <1>9 DEF StartLink
  <2>3. [j EXCEPT !.held = h] = [op |-> "link", child |-> c, parent |-> d, held |-> h]
    OBVIOUS
  <2> HIDE DEF h
  <2>4. job'[w] = job[w] \/ job'[w] = [op |-> "link", child |-> c, parent |-> d, held |-> h]
    BY <1>7, <2>1, <2>3
  <2> QED BY <1>4, <2>2, <2>4 DEF RefersTo
<1>10. ASSUME NEW v \in Process, NEW op \in {"attach", "detach"}, NEW m \in Meta, NEW c \in Atomic,
              NEW own \in BOOLEAN, StartMembership(v, op, m, c, own)
       PROVE  RefersTo(cases', job'[w])
  <2> DEFINE j == [op |-> op, meta |-> m, todo |-> <<c>>, held |-> {}, own |-> own]
             h == {LockOrder(j)[1]}
  <2>1. job' = [job EXCEPT ![v] = [j EXCEPT !.held = h]]
    BY <1>10 DEF StartMembership, StartLocked
  <2>2. KnownIn(cases', c)
    BY <1>1, <1>10 DEF StartMembership
  <2>3. [j EXCEPT !.held = h] = [op |-> op, meta |-> m, todo |-> <<c>>, held |-> h, own |-> own]
    OBVIOUS
  <2> HIDE DEF h
  <2>4. job'[w] = job[w] \/ job'[w] = [op |-> op, meta |-> m, todo |-> <<c>>, held |-> h, own |-> own]
    BY <1>7, <2>1, <2>3
  <2> QED BY <1>4, <2>2, <2>4 DEF RefersTo
<1>11. ASSUME NEW v \in Process, NEW S \in Storm, Correlate(v, S)
       PROVE  RefersTo(cases', job'[w])
  <2>1. PICK m \in Meta, q \in SetToSeqs(Found(S)) :
           job' = [job EXCEPT ![v] =
                      [op |-> "attach", meta |-> m, todo |-> q, held |-> {}, own |-> FALSE]]
    BY <1>11 DEF Correlate
  <2>2. q \in Seq(Atomic) /\ \A i \in DOMAIN q : KnownIn(cases, q[i])
    BY <1>11, FoundExist DEF Correlate
  <2>3. \A i \in DOMAIN q : KnownIn(cases', q[i])
    BY <1>1, <2>2
  <2>4. job'[w] = job[w] \/ job'[w] = [op |-> "attach", meta |-> m, todo |-> q, held |-> {}, own |-> FALSE]
    BY <1>7, <2>1
  <2> QED BY <1>4, <2>3, <2>4 DEF RefersTo
<1>12. ASSUME NEW v \in Process, Lock(v)
       PROVE  RefersTo(cases', job'[w])
  <2>1. job' = [job EXCEPT ![v] = [job[v] EXCEPT !.held = {NextLock(v)}]]
    BY <1>12 DEF Lock
  <2>2. RefersTo(cases, [job[v] EXCEPT !.held = {NextLock(v)}])
    BY <1>2, <1>12 DEF RefersTo, Lock, Locking, IdentityTypeOK, JobType
  <2>3. [job[v] EXCEPT !.held = {NextLock(v)}] \in JobType
    BY <1>12, NextLockType, HoldingType DEF Lock, Locking, IdentityTypeOK
  <2> QED BY <1>3, <1>4, <1>7, <2>1, <2>2, <2>3
<1>13. ASSUME NEW v \in Process, LookUp(v)
       PROVE  RefersTo(cases', job'[w])
  <2> DEFINE s == job[v].source
  <2>1. s \in Source
    BY <1>13 DEF LookUp, IdentityTypeOK, JobType
  <2>2. ASSUME NEW c \in Existing(s), job' = [job EXCEPT ![v] = [op |-> "write", case |-> c, status |-> "firing"]]
        PROVE  RefersTo(cases', job'[w])
    BY <1>1, <1>4, <1>7, <2>1, <2>2, ExistingExist DEF RefersTo
  <2>3. CASE job' = [job EXCEPT ![v] = [op |-> "insert", source |-> s]]
    BY <1>4, <1>7, <2>3 DEF RefersTo
  <2> QED BY <1>13, <2>2, <2>3 DEF LookUp
<1>14. ASSUME NEW v \in Process, Attach(v)
       PROVE  RefersTo(cases', job'[w])
  <2> DEFINE j == job[v]
             r == [j EXCEPT !.todo = Tail(j.todo), !.held = {}]
  <2>1. j \in JobType /\ j.op = "attach" /\ j.todo \in Seq(Atomic) /\ j.todo # <<>>
    BY <1>14 DEF Attach, IdentityTypeOK, JobType
  <2>2. \A i \in DOMAIN j.todo : KnownIn(cases, j.todo[i])
    BY <2>1 DEF Refers
  <2>3. Done(v) \/ job' = [job EXCEPT ![v].todo = Tail(j.todo), ![v].held = {}]
    BY <1>14 DEF Attach
  <2>4. CASE Done(v)
    BY <1>4, <1>5, <1>6, <2>4
  <2>5. CASE job' = [job EXCEPT ![v].todo = Tail(j.todo), ![v].held = {}]
    <3>1. job'[w] = job[w] \/ job'[w] = r
      BY <2>5 DEF IdentityTypeOK
    <3>2. r.op = "attach" /\ r.todo = Tail(j.todo)
      BY <2>1 DEF JobType
    <3>3. \A i \in DOMAIN Tail(j.todo) : KnownIn(cases', Tail(j.todo)[i])
      <4>1. \A i \in DOMAIN Tail(j.todo) : i + 1 \in DOMAIN j.todo /\ Tail(j.todo)[i] = j.todo[i + 1]
        BY <2>1
      <4>2. \A i \in DOMAIN j.todo : j.todo[i] \in Atomic
        BY <2>1
      <4> QED BY <1>1, <2>2, <4>1, <4>2
    <3> HIDE DEF r
    <3>4. job'[w] = r => RefersTo(cases', job'[w])
      BY <3>2, <3>3 DEF RefersTo
    <3> QED BY <1>4, <3>1, <3>4
  <2> QED BY <2>3, <2>4, <2>5
<1>15. ASSUME NEW v \in Process,
              DeadlockVictim(v) \/ Write(v) \/ Insert(v) \/ Link(v) \/ Detach(v)
       PROVE  RefersTo(cases', job'[w])
  BY <1>4, <1>5, <1>6, <1>15 DEF DeadlockVictim, Write, Insert, Link, Detach
<1>16. CASE UNCHANGED job
  BY <1>4, <1>16
<1>17. UNCHANGED job \/ \E v \in Process : Request(v) \/ Proceed(v)
  BY DEF IdentityNext, PutSummary, MarkIndependent, identityVars
<1> QED BY <1>8, <1>9, <1>10, <1>11, <1>12, <1>13, <1>14, <1>15, <1>16, <1>17 DEF Request, Proceed

LEMMA RefersStep ==
    ASSUME CaseIdentityConstants, IdentityTypeOK, Refers, [IdentityNext]_identityVars
    PROVE  Refers'
<1> USE DEF KnownIn, Exists
<1>1. \A a \in Alias : alias'[a] # Nobody => KnownIn(cases', alias'[a])
  BY AliasesStep, StepCommits
<1>2. \A c \in Atomic : ~KnownIn(cases', c) => cases'[c].meta = Nobody /\ ~cases'[c].covered
  BY CasesStay, StepCommits
<1>3. \A w \in Process : RefersTo(cases', job'[w])
  BY JobsStep
<1> QED BY <1>1, <1>2, <1>3 DEF Refers, RefersTo, Exists
-----------------------------------------------------------------------------
(* One case per source. *)

\* The first alias of a case goes on leading somewhere, and a case is created
\* only for a source whose first alias leads nowhere.
LEMMA LeadsStep ==
    ASSUME CaseIdentityConstants, IdentityTypeOK, FirstAliasLeads, OneCasePerSource, Commits
    PROVE  FirstAliasLeads' /\ OneCasePerSource'
<1> DEFINE Stays(c) == (cases'[c].status # "absent") = (cases[c].status # "absent") /\ cases'[c].of = cases[c].of
<1>1. \A c \in Atomic : Exists(c) => cases[c].of \in Alias /\ alias[cases[c].of] # Nobody
  BY DEF FirstAliasLeads
<1>2. ASSUME NEW s \in Source, NEW d \in Atomic, Creates(s, d)
      PROVE  FirstAliasLeads' /\ OneCasePerSource'
  <2>1. First(s) \in Alias /\ First(s) \in AliasesOf(s)
    BY AliasesAreAliases
  <2>2. alias[First(s)] = Nobody /\ d # Nobody
    BY <1>2, <2>1 DEF Creates, Unique, CaseIdentityConstants
  <2>3. /\ cases'[d].of = First(s)
        /\ \A c \in Atomic \ {d} : cases'[c] = cases[c]
    BY <1>2 DEF Creates, IdentityTypeOK, AbsentCase
  <2>4. \A a \in Alias : alias[a] # Nobody => alias'[a] # Nobody
    BY <1>2, <2>2 DEF Creates
  <2>5. alias'[First(s)] # Nobody
    BY <1>2, <2>1, <2>2 DEF Creates
  <2>6. \A c \in Atomic \ {d} : Exists(c) => cases[c].of # First(s)
    BY <1>1, <2>2
  <2>7. FirstAliasLeads'
    BY <1>1, <2>1, <2>3, <2>4, <2>5 DEF FirstAliasLeads, Exists
  <2>8. OneCasePerSource'
    BY <2>3, <2>6 DEF OneCasePerSource, Exists
  <2> QED BY <2>7, <2>8
<1>3. ASSUME \A c \in Atomic : Stays(c), \A a \in Alias : alias[a] # Nobody => alias'[a] # Nobody
      PROVE  FirstAliasLeads' /\ OneCasePerSource'
  BY <1>1, <1>3 DEF FirstAliasLeads, OneCasePerSource, Exists
<1>4. ASSUME NEW d \in Atomic, Turns(d)
      PROVE  FirstAliasLeads' /\ OneCasePerSource'
  <2>1. \A c \in Atomic : Stays(c)
    BY <1>4 DEF Turns, IdentityTypeOK, CaseType, Exists
  <2>2. \A a \in Alias : alias[a] # Nobody => alias'[a] # Nobody
    BY <1>4 DEF Turns, MoveAliases, CaseIdentityConstants
  <2> QED BY <1>3, <2>1, <2>2
<1>5. ASSUME NEW m \in Meta, NEW d \in Atomic, NEW own \in BOOLEAN, Joins(m, d, own)
      PROVE  FirstAliasLeads' /\ OneCasePerSource'
  <2>1. \A c \in Atomic : Stays(c)
    BY <1>5 DEF Joins, IdentityTypeOK, CaseType
  <2> QED BY <1>3, <1>5, <2>1 DEF Joins
<1>6. ASSUME NEW m \in Meta, NEW d \in Atomic, Leaves(m, d)
      PROVE  FirstAliasLeads' /\ OneCasePerSource'
  <2>1. \A c \in Atomic : Stays(c)
    BY <1>6 DEF Leaves, IdentityTypeOK, CaseType
  <2> QED BY <1>3, <1>6, <2>1 DEF Leaves
<1>7. ASSUME NEW d \in Atomic, NEW required \in BOOLEAN, MarkIndependent(d, required)
      PROVE  FirstAliasLeads' /\ OneCasePerSource'
  <2>1. \A c \in Atomic : Stays(c)
    BY <1>7 DEF MarkIndependent, IdentityTypeOK, CaseType
  <2> QED BY <1>3, <1>7, <2>1 DEF MarkIndependent
<1>8. CASE UNCHANGED <<cases, alias>>
  BY <1>3, <1>8
<1> QED BY <1>2, <1>4, <1>5, <1>6, <1>7, <1>8 DEF Commits, Groups

-----------------------------------------------------------------------------
(* The memberships. *)

\* The two sides of a membership change together, and a case is covered only as
\* a child that needs no action of its own.
LEMMA CoveredStep ==
    ASSUME CaseIdentityConstants, IdentityTypeOK, Refers, CoveredIsAttached, Commits
    PROVE  CoveredIsAttached'
<1> DEFINE Kept(c) == /\ cases'[c].meta = cases[c].meta /\ cases'[c].covered = cases[c].covered
                      /\ cases'[c].independent = cases[c].independent
<1>1. \A c \in Atomic :
        /\ cases[c] \in CaseType
        /\ \A m \in Meta : cases[c].meta = m <=> c \in meta[m].children
        /\ cases[c].covered => cases[c].meta # Nobody /\ ~cases[c].independent
  BY DEF IdentityTypeOK, CoveredIsAttached
<1>2. Nobody \notin Meta
  BY DEF CaseIdentityConstants
<1>3. ASSUME \A c \in Atomic : Kept(c), \A m \in Meta : meta'[m].children = meta[m].children
      PROVE  CoveredIsAttached'
  BY <1>1, <1>3 DEF CoveredIsAttached
<1>4. ASSUME NEW d \in Atomic, Turns(d)
      PROVE  CoveredIsAttached'
  <2>1. \A c \in Atomic : Kept(c)
    BY <1>4 DEF Turns, IdentityTypeOK, CaseType
  <2> QED BY <1>3, <1>4, <2>1 DEF Turns
<1>5. ASSUME NEW s \in Source, NEW d \in Atomic, Creates(s, d)
      PROVE  CoveredIsAttached'
  <2>1. cases[d].meta = Nobody /\ ~cases[d].covered
    BY <1>5 DEF Creates, Refers
  <2>2. /\ cases'[d].meta = Nobody /\ cases'[d].covered = FALSE
        /\ \A c \in Atomic \ {d} : Kept(c)
    BY <1>5 DEF Creates, IdentityTypeOK, AbsentCase
  <2> QED BY <1>1, <1>5, <2>1, <2>2 DEF Creates, CoveredIsAttached
<1>6. ASSUME NEW m \in Meta, NEW S \in Storm, Groups(m, S)
      PROVE  CoveredIsAttached'
  <2>1. \A n \in Meta : meta'[n].children = meta[n].children
    BY <1>6 DEF Groups, IdentityTypeOK, MetaType
  <2> QED BY <1>3, <1>6, <2>1 DEF Groups
<1>7. ASSUME NEW m \in Meta, NEW d \in Atomic, NEW own \in BOOLEAN, Joins(m, d, own)
      PROVE  CoveredIsAttached'
  <2>1. cases[d].meta \in {Nobody, m}
    BY <1>7 DEF Joins, MayAttach
  <2>2. /\ cases'[d].meta = m /\ cases'[d].covered = ~own /\ cases'[d].independent = own
        /\ \A c \in Atomic \ {d} : Kept(c)
    BY <1>7 DEF Joins, IdentityTypeOK, CaseType
  <2>3. /\ meta'[m].children = meta[m].children \cup {d}
        /\ \A n \in Meta \ {m} : meta'[n] = meta[n]
    BY <1>7 DEF Joins, IdentityTypeOK, MetaType
  <2>4. \A c \in Atomic, n \in Meta : cases'[c].meta = n <=> c \in meta'[n].children
    BY <1>1, <1>2, <2>1, <2>2, <2>3
  <2>5. cases'[d].covered => ~cases'[d].independent
    BY <2>2
  <2>6. \A c \in Atomic : cases'[c].covered => cases'[c].meta # Nobody /\ ~cases'[c].independent
    BY <1>1, <1>2, <2>2, <2>5
  <2> QED BY <2>4, <2>6 DEF CoveredIsAttached
<1>8. ASSUME NEW m \in Meta, NEW d \in Atomic, Leaves(m, d)
      PROVE  CoveredIsAttached'
  <2>1. /\ meta'[m].children = meta[m].children \ {d}
        /\ \A n \in Meta \ {m} : meta'[n] = meta[n]
    BY <1>8 DEF Leaves, IdentityTypeOK, MetaType
  <2>2. CASE cases[d].meta = m
    <3>1. /\ cases'[d].meta = Nobody /\ cases'[d].covered = FALSE
          /\ \A c \in Atomic \ {d} : Kept(c)
      BY <1>8, <2>2 DEF Leaves, IdentityTypeOK, CaseType
    <3> QED BY <1>1, <1>2, <2>1, <2>2, <3>1 DEF CoveredIsAttached
  <2>3. CASE cases[d].meta # m
    <3>1. \A c \in Atomic : Kept(c)
      BY <1>8, <2>3 DEF Leaves
    <3> QED BY <1>1, <2>1, <2>3, <3>1 DEF CoveredIsAttached
  <2> QED BY <2>2, <2>3
<1>9. ASSUME NEW d \in Atomic, NEW required \in BOOLEAN, MarkIndependent(d, required)
      PROVE  CoveredIsAttached'
  <2>1. /\ cases'[d].meta = cases[d].meta /\ cases'[d].independent = required
        /\ \A c \in Atomic \ {d} : Kept(c)
        /\ meta' = meta
    BY <1>9 DEF MarkIndependent, IdentityTypeOK, CaseType
  <2>2. cases'[d].covered => cases[d].meta # Nobody /\ ~required
    <3>1. CASE required
      BY <1>9, <3>1 DEF MarkIndependent, IdentityTypeOK, CaseType
    <3>2. CASE ~required /\ cases[d].meta = Nobody
      BY <1>1, <1>9, <3>2 DEF MarkIndependent, IdentityTypeOK, CaseType
    <3> QED BY <3>1, <3>2
  <2> QED BY <1>1, <2>1, <2>2 DEF CoveredIsAttached
<1>10. CASE UNCHANGED <<cases, meta>>
  BY <1>3, <1>10
<1> QED BY <1>4, <1>5, <1>6, <1>7, <1>8, <1>9, <1>10 DEF Commits

-----------------------------------------------------------------------------
(* The locks. *)

\* Workers that change what they hold take a first row, or let go of all.
LEMMA HoldsStep ==
    ASSUME CaseIdentityConstants, IdentityTypeOK, HoldsFirst, [IdentityNext]_identityVars
    PROVE  HoldsFirst'
<1> DEFINE Fits(j) == j.op \in {"link", "attach", "detach"} => j.held \in {{}, {LockOrder(j)[1]}}
<1>1. (\A w \in Process : Fits(job'[w])) => HoldsFirst'
  BY DEF HoldsFirst, Held
<1>2. \A w \in Process : Fits(job[w])
  BY DEF HoldsFirst, Held
<1>3. Fits(IdleProcess)
  BY DEF IdleProcess
<1>4. ASSUME NEW j \in JobType, j.op \in {"link", "attach", "detach"}
      PROVE  Fits([j EXCEPT !.held = {LockOrder(j)[1]}])
  <2> DEFINE k == [j EXCEPT !.held = {LockOrder(j)[1]}]
  <2>1. k.held = {LockOrder(j)[1]}
    BY <1>4 DEF JobType
  <2>2. LockOrder(k)[1] = LockOrder(j)[1]
    <3>1. CASE j.op = "link"
      BY <3>1 DEF JobType, LockOrder
    <3>2. CASE j.op \in {"attach", "detach"}
      <4>1. k.op = j.op /\ k.meta = j.meta /\ k.todo = j.todo
        BY <3>2 DEF JobType
      <4> QED BY <3>2, <4>1 DEF LockOrder
    <3> QED BY <1>4, <3>1, <3>2
  <2> QED BY <2>1, <2>2
<1> HIDE DEF Fits
<1>5. ASSUME NEW v \in Process, NEW j, Fits(j), job' = [job EXCEPT ![v] = j]
      PROVE  \A w \in Process : Fits(job'[w])
  BY <1>2, <1>5 DEF IdentityTypeOK
<1>6. ASSUME NEW v \in Process, NEW j \in JobType, j.op \in {"link", "attach", "detach"}, StartLocked(v, j)
      PROVE  \A w \in Process : Fits(job'[w])
  BY <1>4, <1>5, <1>6 DEF StartLocked
<1>7. ASSUME NEW v \in Process, Done(v)
      PROVE  \A w \in Process : Fits(job'[w])
  BY <1>3, <1>5, <1>7 DEF Done
<1>8. ASSUME NEW v \in Process, NEW c \in Atomic, NEW d \in Atomic, StartLink(v, c, d)
      PROVE  \A w \in Process : Fits(job'[w])
  <2>1. [op |-> "link", child |-> c, parent |-> d, held |-> {}] \in JobType
    BY DEF JobType
  <2> QED BY <1>6, <1>8, <2>1 DEF StartLink
<1>9. ASSUME NEW v \in Process, NEW op \in {"attach", "detach"}, NEW m \in Meta, NEW c \in Atomic,
             NEW own \in BOOLEAN, StartMembership(v, op, m, c, own)
      PROVE  \A w \in Process : Fits(job'[w])
  <2>1. [op |-> op, meta |-> m, todo |-> <<c>>, held |-> {}, own |-> own] \in JobType
    BY DEF JobType
  <2> QED BY <1>6, <1>9, <2>1 DEF StartMembership
<1>10. ASSUME NEW v \in Process, NEW s \in Source, NEW status \in {"firing", "clean"}, Observe(v, s, status)
       PROVE  \A w \in Process : Fits(job'[w])
  <2>1. \A c : Fits([op |-> "create", source |-> s]) /\ Fits([op |-> "write", case |-> c, status |-> status])
    BY DEF Fits
  <2> QED BY <1>5, <1>10, <2>1 DEF Observe
<1>11. ASSUME NEW v \in Process, NEW S \in Storm, Correlate(v, S)
       PROVE  \A w \in Process : Fits(job'[w])
  <2>1. \A m, q : Fits([op |-> "attach", meta |-> m, todo |-> q, held |-> {}, own |-> FALSE])
    BY DEF Fits
  <2> QED BY <1>5, <1>11, <2>1 DEF Correlate
<1>12. ASSUME NEW v \in Process, Lock(v)
       PROVE  \A w \in Process : Fits(job'[w])
  <2>1. NextLock(v) = LockOrder(job[v])[1]
    BY <1>12, FS_EmptySet DEF NextLock, Lock
  <2>2. job' = [job EXCEPT ![v] = [job[v] EXCEPT !.held = {LockOrder(job[v])[1]}]]
    BY <1>12, <2>1 DEF Lock
  <2>3. job[v] \in JobType /\ job[v].op \in {"link", "attach", "detach"}
    BY <1>12 DEF Lock, Locking, IdentityTypeOK
  <2> QED BY <1>4, <1>5, <2>2, <2>3
<1>13. ASSUME NEW v \in Process, LookUp(v)
       PROVE  \A w \in Process : Fits(job'[w])
  <2>1. \A c, s : Fits([op |-> "insert", source |-> s]) /\ Fits([op |-> "write", case |-> c, status |-> "firing"])
    BY DEF Fits
  <2> QED BY <1>5, <1>13, <2>1 DEF LookUp
<1>14. ASSUME NEW v \in Process, Attach(v)
       PROVE  \A w \in Process : Fits(job'[w])
  <2> DEFINE r == [job[v] EXCEPT !.todo = Tail(job[v].todo), !.held = {}]
  <2>1. Done(v) \/ job' = [job EXCEPT ![v] = r]
    <3>1. Done(v) \/ job' = [job EXCEPT ![v].todo = Tail(job[v].todo), ![v].held = {}]
      BY <1>14 DEF Attach
    <3> QED BY <3>1 DEF IdentityTypeOK
  <2>2. r.held = {}
    BY <1>14 DEF Attach, IdentityTypeOK, JobType
  <2>3. Fits(r)
    BY <2>2 DEF Fits
  <2> HIDE DEF r
  <2> QED BY <1>5, <1>7, <2>1, <2>3
<1>15. ASSUME NEW v \in Process,
              DeadlockVictim(v) \/ Write(v) \/ Insert(v) \/ Link(v) \/ Detach(v)
       PROVE  \A w \in Process : Fits(job'[w])
  BY <1>7, <1>15 DEF DeadlockVictim, Write, Insert, Link, Detach
<1>16. ASSUME UNCHANGED job
       PROVE  \A w \in Process : Fits(job'[w])
  <2>1. \A w \in Process : job'[w] = job[w]
    BY <1>16
  <2> QED BY <1>2, <2>1 DEF Fits
<1>17. UNCHANGED job \/ \E v \in Process : Request(v) \/ Proceed(v)
  BY DEF IdentityNext, PutSummary, MarkIndependent, identityVars
<1> QED BY <1>1, <1>8, <1>9, <1>10, <1>11, <1>12, <1>13, <1>14, <1>15, <1>16, <1>17 DEF Request, Proceed

\* A worker that waits in a circle without links holds the smaller of its two
\* rows and waits for the larger one.
LEMMA WaitsUpwards ==
    ASSUME CaseIdentityConstants, IdentityTypeOK, HoldsFirst, NEW w \in Process,
           job[w].op \in {"attach", "detach"}, Held(w) # {}
    PROVE  /\ LockOrder(job[w])[1] \in Nat /\ NextLock(w) \in Nat
           /\ Held(w) = {LockOrder(job[w])[1]}
           /\ LockOrder(job[w])[1] < NextLock(w)
<1> DEFINE j == job[w]
           m == j.meta
           c == Head(j.todo)
<1>1. m \in Meta /\ c \in Atomic
  BY DEF IdentityTypeOK, JobType
<1>2. m \in Nat /\ c \in Nat /\ m # c
  BY <1>1 DEF CaseIdentityConstants
<1>3. LockOrder(j) = IF m < c THEN <<m, c>> ELSE <<c, m>>
  BY DEF LockOrder, SortedPair
<1>4. Held(w) = {LockOrder(j)[1]} /\ Held(w) = j.held
  BY DEF HoldsFirst, Held
<1>5. NextLock(w) = LockOrder(j)[2]
  <2>1. Cardinality(j.held) = 1
    BY <1>4, FS_Singleton
  <2> QED BY <2>1 DEF NextLock
<1> HIDE DEF m, c
<1> QED BY <1>2, <1>3, <1>4, <1>5

\* Rows are waited for in the order of their identifiers, so that a circle
\* would have no worker that holds the smallest one.
LEMMA NoCircle ==
    ASSUME CaseIdentityConstants, IdentityTypeOK, HoldsFirst
    PROVE  LinksCauseDeadlocks
<1> SUFFICES ASSUME NEW S \in SUBSET Process, Circle(S), \A w \in S : job[w].op # "link"
             PROVE  FALSE
  BY DEF LinksCauseDeadlocks
<1> DEFINE first(w) == LockOrder(job[w])[1]
           T == {first(w) : w \in S}
<1>1. \A w \in S : \E v \in S : w \in WaitsFor(v)
  BY DEF Circle
<1>2. ASSUME NEW w \in S
      PROVE  job[w].op \in {"attach", "detach"} /\ Held(w) # {}
  <2>1. PICK v \in S : w \in WaitsFor(v)
    BY <1>1
  <2>2. Held(w) # {}
    BY <2>1 DEF WaitsFor
  <2> QED BY <2>2 DEF Held
<1>3. ASSUME NEW w \in S
      PROVE  first(w) \in Nat /\ Held(w) = {first(w)} /\ first(w) < NextLock(w)
  BY <1>2, WaitsUpwards
<1>4. ASSUME NEW w \in S
      PROVE  \E v \in S : first(v) < first(w)
  <2>1. PICK v \in S : w \in WaitsFor(v)
    BY <1>1
  <2>2. NextLock(v) = first(w)
    BY <1>3, <2>1 DEF WaitsFor
  <2> QED BY <1>3, <2>2
<1>5. T # {} /\ T \subseteq Nat
  BY <1>3 DEF Circle
<1> HIDE DEF first
<1>6. PICK t \in T : \A u \in T : ~(<<u, t>> \in OpToRel(<, Nat))
  <2> HIDE DEF T
  <2> QED BY <1>5, NatLessThanWellFounded, WFMin
<1>7. PICK w \in S : t = first(w)
  BY <1>6
<1>8. PICK v \in S : first(v) < first(w)
  BY <1>4
<1>9. first(v) \in T /\ first(v) \in Nat /\ first(w) \in Nat
  BY <1>3
<1> QED BY <1>6, <1>7, <1>8, <1>9 DEF OpToRel

-----------------------------------------------------------------------------
(* The theorems. *)

LEMMA IdentityStep ==
    ASSUME CaseIdentityConstants, IdentityInv, [IdentityNext]_identityVars
    PROVE  IdentityInv'
  BY TypeStep, StepCommits, RefersStep, LeadsStep, CoveredStep, HoldsStep DEF IdentityInv

\* The invariant of case identity: types, references to cases that exist, one
\* case per source, agreeing memberships and at most one lock held per worker
\* between two steps.
THEOREM IdentityInvariant == IdentitySpec => []IdentityInv
<1>1. IdentityInit => IdentityInv
  <2> SUFFICES ASSUME IdentityInit PROVE IdentityInv
    OBVIOUS
  <2>1. IdentityTypeOK
    <3>1. AbsentCase \in CaseType /\ [event |-> {}, children |-> {}] \in MetaType /\ IdleProcess \in JobType
      BY DEF AbsentCase, CaseType, MetaType, JobType, Statuses, IdleProcess
    <3> QED BY <3>1 DEF IdentityInit, IdentityTypeOK
  <2>2. Refers /\ FirstAliasLeads /\ OneCasePerSource
    BY DEF IdentityInit, Refers, FirstAliasLeads, OneCasePerSource, Exists, AbsentCase, IdleProcess
  <2>3. CoveredIsAttached
    BY IdentityConstants DEF IdentityInit, CoveredIsAttached, AbsentCase, CaseIdentityConstants
  <2>4. HoldsFirst
    BY DEF IdentityInit, HoldsFirst, Held, IdleProcess
  <2> QED BY <2>1, <2>2, <2>3, <2>4 DEF IdentityInv
<1>2. IdentityInv /\ [IdentityNext]_identityVars => IdentityInv'
  BY IdentityStep, IdentityConstants
<1> QED BY <1>1, <1>2, PTL DEF IdentitySpec

\* However the observations of a monitored thing race each other, get linked
\* away, recover and come back, it never gets a second case
\* (create_atomic_case, the unique indexes, link_child_case).
THEOREM OneCasePerSourceAlways == IdentitySpec => []OneCasePerSource
<1>1. IdentityInv => OneCasePerSource
  BY DEF IdentityInv
<1> QED BY <1>1, IdentityInvariant, PTL

\* Every value has its type, both sides of a membership agree after every
\* commit, and only a child that needs no action of its own is covered by its
\* meta-case (attach_child, detach_child, mark_independent_action_required).
THEOREM MembershipInvariant == IdentitySpec => []MembershipInv
<1>1. IdentityInv => MembershipInv
  BY DEF IdentityInv, MembershipInv
<1> QED BY <1>1, IdentityInvariant, PTL

\* A deadlock of the database has a transaction of link_child_case in it: those
\* of the correlation service lock in the order of the identifiers.
THEOREM OnlyLinksDeadlock == IdentitySpec => []LinksCauseDeadlocks
<1>1. IdentityInv => LinksCauseDeadlocks
  BY NoCircle, IdentityConstants DEF IdentityInv
<1> QED BY <1>1, IdentityInvariant, PTL

-----------------------------------------------------------------------------
(* KnowledgeArtifacts. *)

\* What the review endpoint admits, and the types proposed with an outcome.
Admitted ==
    /\ Decisions \subseteq ReviewStatus
    /\ Summaries \in Seq(STRING)

\* A review in progress judges what it read.
ReviewsAsRead ==
    \A r \in Reviewer : review[r].at = "read" => review[r].result.judged = review[r].result.event

\* The candidate event of whoever is about to record artifacts, or to write one
\* back, is in the directory.
CandidateAhead ==
    place.is = "directory" =>
        /\ \A w \in Worker : worker[w].at = "record" => worker[w].event \in place.holds
        /\ \A r \in Reviewer : review[r].at = "read" => review[r].result.event \in place.holds

\* What a worker is about to answer is with the case.
ContextAhead ==
    \A w \in Worker : worker[w].at = "answered" =>
        worker[w].refs \in case.traces /\ worker[w].refs \subseteq case.citations

KnowledgeInv ==
    /\ TypeOK
    /\ ApprovedAsRead /\ ReviewsAsRead
    /\ CandidateExists /\ CandidateAhead
    /\ ContextIsKept /\ ContextAhead

-----------------------------------------------------------------------------
(* The operators. *)

\* The key of a request is a key, and the event of an outcome an event.
LEMMA EventIsEvent ==
    ASSUME NEW h \in Handoffs, NEW o \in Outcome \cup {Nothing}
    PROVE  EventId(h, o) \in Events
  BY DEF Events

\* _select_outcome yields an outcome of the case, or none.
LEMMA SelectedIsOutcome ==
    ASSUME outcomes \in Seq(Outcome), NEW wanted
    PROVE  SelectedOutcome(wanted) \in Outcome \cup {Nothing}
<1>1. CASE wanted \in {outcomes[i] : i \in DOMAIN outcomes}
  BY <1>1 DEF SelectedOutcome
<1>2. CASE wanted \notin {outcomes[i] : i \in DOMAIN outcomes} /\ outcomes # <<>>
  BY <1>2 DEF SelectedOutcome
<1>3. CASE wanted \notin {outcomes[i] : i \in DOMAIN outcomes} /\ outcomes = <<>>
  BY <1>3 DEF SelectedOutcome
<1> QED  BY <1>1, <1>2, <1>3

\* What is proposed is a sequence of types.
LEMMA ProposedIsTypes ==
    ASSUME Admitted, NEW outcome
    PROVE  Proposed(outcome) \in Seq(Types)
<1>0. Summaries \in Seq(Types)
  BY DEF Admitted, Types
<1>1. Guardrails(outcome) \in Seq(Types)
  <2>1. CASE outcome \in Guarded
    BY <2>1 DEF Guardrails, Types
  <2>2. CASE outcome \notin Guarded
    BY <2>2 DEF Guardrails
  <2> QED  BY <2>1, <2>2
<1>2. Summaries \o Guardrails(outcome) \in Seq(Types)
  BY <1>0, <1>1
<1>3. <<Gap>> \in Seq(Types)
  BY DEF Types
<1> QED  BY <1>2, <1>3 DEF Proposed

\* The row of a request is a row.
LEMMA RequestIsRow ==
    ASSUME NEW request \in Requests
    PROVE  /\ KeyOf(request) \in Keys
           /\ request[1] \in Handoffs
           /\ request[2] \in {q[2] : q \in Requests} \cup {Nothing}
  BY DEF Keys, Handoffs

\* What a worker holds at each step of its work.
LEMMA WorkerShape ==
    ASSUME TypeOK, NEW w \in Worker
    PROVE  /\ worker[w].at = "gather" =>
                /\ worker[w].key \in Keys
                /\ worker[w] = [at |-> "gather", key |-> worker[w].key]
           /\ worker[w].at \in {"write", "record"} =>
                /\ worker[w].key \in Keys
                /\ worker[w].todo \in Seq(Types)
                /\ worker[w].event \in Events
                /\ worker[w] = [at |-> worker[w].at, key |-> worker[w].key,
                                todo |-> worker[w].todo, event |-> worker[w].event]
           /\ worker[w].at = "retrieve" =>
                /\ worker[w].question \in Question
                /\ worker[w] = [at |-> "retrieve", question |-> worker[w].question]
           /\ worker[w].at \in {"trace", "cite", "answered"} =>
                /\ worker[w].question \in Question
                /\ worker[w].refs \in SUBSET Citation
                /\ worker[w] = [at |-> worker[w].at, question |-> worker[w].question,
                                refs |-> worker[w].refs]
           /\ worker[w] # Idle =>
                \/ "key" \in DOMAIN worker[w] /\ worker[w].key \in Keys
                \/ "key" \notin DOMAIN worker[w] /\ worker[w].question \in Question
<1>1. worker[w] \in WorkerState
  BY DEF TypeOK
<1>2. CASE worker[w] = Idle
  BY <1>2 DEF Idle
<1>3. CASE worker[w] \in [at : {"gather"}, key : Keys]
  BY <1>3
<1>4. CASE worker[w] \in [at : {"write", "record"}, key : Keys, todo : Seq(Types), event : Events]
  BY <1>4
<1>5. CASE worker[w] \in [at : {"retrieve"}, question : Question]
  BY <1>5
<1>6. CASE worker[w] \in [at : {"trace", "cite", "answered"}, question : Question, refs : SUBSET Citation]
  BY <1>6
<1> QED  BY <1>1, <1>2, <1>3, <1>4, <1>5, <1>6 DEF WorkerState

\* What a review holds once it has read the artifact.
LEMMA ReviewShape ==
    ASSUME TypeOK, NEW r \in Reviewer, review[r].at = "read"
    PROVE  review[r].type \in Types /\ review[r].result \in Row
<1>1. review[r] # Idle
  BY DEF Idle
<1> QED  BY <1>1 DEF TypeOK, ReviewState

-----------------------------------------------------------------------------
(* Types. *)

\* A row given a new status is a row.
LEMMA ProposalTyped ==
    ASSUME TypeOK, NEW k \in Keys, NEW status \in RowStatus
    PROVE  [proposal EXCEPT ![k].status = status] \in
             [Keys -> [status : RowStatus, handoff : Handoffs,
                       outcome : {request[2] : request \in Requests} \cup {Nothing}]]
  BY DEF TypeOK

LEMMA QuestionTyped ==
    ASSUME TypeOK, NEW q \in Question, NEW status \in RowStatus
    PROVE  [question EXCEPT ![q].status = status] \in
             [Question -> [status : RowStatus, refs : SUBSET Citation]]
  BY DEF TypeOK

\* A worker given a worker's state.
LEMMA WorkerTyped ==
    ASSUME TypeOK, NEW w \in Worker, NEW x \in WorkerState
    PROVE  [worker EXCEPT ![w] = x] \in [Worker -> WorkerState]
  BY DEF TypeOK

\* The state of a proposal's worker after a change of one field.
LEMMA ProposingAt ==
    ASSUME NEW a, NEW b, NEW k, NEW t, NEW e
    PROVE  [[at |-> a, key |-> k, todo |-> t, event |-> e] EXCEPT !.at = b]
             = [at |-> b, key |-> k, todo |-> t, event |-> e]
  OBVIOUS

LEMMA ProposingTodo ==
    ASSUME NEW a, NEW k, NEW t, NEW u, NEW e
    PROVE  [[at |-> a, key |-> k, todo |-> t, event |-> e] EXCEPT !.todo = u]
             = [at |-> a, key |-> k, todo |-> u, event |-> e]
  OBVIOUS

\* The state of a question's worker after a change of its place.
LEMMA AnsweringAt ==
    ASSUME NEW a, NEW b, NEW q, NEW refs
    PROVE  [[at |-> a, question |-> q, refs |-> refs] EXCEPT !.at = b]
             = [at |-> b, question |-> q, refs |-> refs]
  OBVIOUS

\* The initial state has its types.
LEMMA InitTypes ==
    ASSUME Init
    PROVE  TypeOK
<1>1. proposal \in [Keys -> [status : RowStatus, handoff : Handoffs,
                             outcome : {request[2] : request \in Requests} \cup {Nothing}]]
  BY DEF Init, RowStatus, Handoffs
<1>2. question \in [Question -> [status : RowStatus, refs : SUBSET Citation]]
  BY DEF Init, RowStatus
<1>3. worker \in [Worker -> WorkerState] /\ review \in [Reviewer -> ReviewState]
  BY DEF Init, WorkerState, ReviewState
<1>4. place \in [is : {"directory", "missing", "file"}, holds : SUBSET Events]
  BY DEF Init
<1> QED  BY <1>1, <1>2, <1>3, <1>4 DEF Init, TypeOK

\* Each step of the requests keeps the types.
LEMMA RequestTypes ==
    ASSUME TypeOK,
           \/ \E o \in Outcome : RecordOutcome(o)
           \/ \E request \in Requests : RequestProposal(request)
           \/ \E q \in Question : RequestContext(q)
    PROVE  TypeOK'
<1>1. ASSUME NEW o \in Outcome, RecordOutcome(o)
      PROVE  TypeOK'
  BY <1>1 DEF RecordOutcome, TypeOK
<1>2. ASSUME NEW request \in Requests, RequestProposal(request)
      PROVE  TypeOK'
  <2>1. proposal' \in [Keys -> [status : RowStatus, handoff : Handoffs,
                                outcome : {q[2] : q \in Requests} \cup {Nothing}]]
    BY <1>2, RequestIsRow DEF RequestProposal, TypeOK, RowStatus
  <2> QED  BY <1>2, <2>1 DEF RequestProposal, TypeOK
<1>3. ASSUME NEW q \in Question, RequestContext(q)
      PROVE  TypeOK'
  <2>1. question' \in [Question -> [status : RowStatus, refs : SUBSET Citation]]
    BY <1>3, QuestionTyped DEF RequestContext, RowStatus
  <2> QED  BY <1>3, <2>1 DEF RequestContext, TypeOK
<1> QED  BY <1>1, <1>2, <1>3

\* Each step of a proposal's worker keeps the types.
LEMMA ProposalTypes ==
    ASSUME Admitted, TypeOK, NEW w \in Worker,
           \/ \E k \in Keys : ClaimProposal(w, k)
           \/ Gather(w) \/ WriteCandidate(w) \/ RecordArtifact(w) \/ SettleProposal(w)
    PROVE  TypeOK'
<1>1. ASSUME NEW k \in Keys, ClaimProposal(w, k)
      PROVE  TypeOK'
  <2>1. [at |-> "gather", key |-> k] \in WorkerState
    BY DEF WorkerState
  <2>2. worker' \in [Worker -> WorkerState]
    BY <1>1, <2>1, WorkerTyped DEF ClaimProposal
  <2>3. proposal' \in [Keys -> [status : RowStatus, handoff : Handoffs,
                                outcome : {request[2] : request \in Requests} \cup {Nothing}]]
    BY <1>1, ProposalTyped DEF ClaimProposal, RowStatus
  <2> QED  BY <1>1, <2>2, <2>3 DEF ClaimProposal, TypeOK
<1>2. CASE Gather(w)
  <2> DEFINE row == proposal[worker[w].key]
             outcome == SelectedOutcome(row.outcome)
             next == [at |-> "write", key |-> worker[w].key, todo |-> Proposed(outcome),
                      event |-> EventId(row.handoff, outcome)]
  <2>1. worker[w].key \in Keys
    BY <1>2, WorkerShape DEF Gather
  <2>2. row.handoff \in Handoffs
    BY <2>1 DEF TypeOK
  <2>3. outcome \in Outcome \cup {Nothing}
    BY SelectedIsOutcome DEF TypeOK
  <2>4. EventId(row.handoff, outcome) \in Events
    BY <2>2, <2>3, EventIsEvent
  <2>5. Proposed(outcome) \in Seq(Types)
    BY ProposedIsTypes
  <2>6. next \in WorkerState
    BY <2>1, <2>4, <2>5 DEF WorkerState
  <2>7. worker' = [worker EXCEPT ![w] = next]
    BY <1>2 DEF Gather
  <2>8. worker' \in [Worker -> WorkerState]
    BY <2>6, <2>7, WorkerTyped
  <2> QED  BY <1>2, <2>8 DEF Gather, TypeOK
<1>3. CASE WriteCandidate(w)
  <2> DEFINE next == [worker[w] EXCEPT !.at = "record"]
  <2>1. worker[w].event \in Events
    BY <1>3, WorkerShape DEF WriteCandidate
  <2>2. next = [at |-> "record", key |-> worker[w].key, todo |-> worker[w].todo, event |-> worker[w].event]
    <3>1. worker[w] = [at |-> worker[w].at, key |-> worker[w].key, todo |-> worker[w].todo, event |-> worker[w].event]
      BY <1>3, WorkerShape DEF WriteCandidate
    <3> QED  BY <3>1, ProposingAt
  <2>3. next \in WorkerState
    BY <1>3, <2>1, <2>2, WorkerShape DEF WriteCandidate, WorkerState
  <2>4. worker' = [worker EXCEPT ![w] = next]
    BY <1>3 DEF WriteCandidate
  <2>5. worker' \in [Worker -> WorkerState]
    BY <2>3, <2>4, WorkerTyped
  <2>6. place' \in [is : {"directory", "missing", "file"}, holds : SUBSET Events]
    BY <1>3, <2>1 DEF WriteCandidate, Written, TypeOK
  <2> QED  BY <1>3, <2>5, <2>6 DEF WriteCandidate, TypeOK
<1>4. CASE RecordArtifact(w)
  <2> DEFINE next == [worker[w] EXCEPT !.todo = Tail(worker[w].todo)]
             t == Head(worker[w].todo)
  <2>1. worker[w].event \in Events /\ worker[w].todo \in Seq(Types) /\ worker[w].todo # <<>>
    BY <1>4, WorkerShape DEF RecordArtifact
  <2>2. next = [at |-> "record", key |-> worker[w].key, todo |-> Tail(worker[w].todo), event |-> worker[w].event]
    <3>1. worker[w] = [at |-> "record", key |-> worker[w].key, todo |-> worker[w].todo, event |-> worker[w].event]
      BY <1>4, WorkerShape DEF RecordArtifact
    <3>2. ASSUME NEW u
          PROVE  [worker[w] EXCEPT !.todo = u]
                   = [at |-> "record", key |-> worker[w].key, todo |-> u, event |-> worker[w].event]
      BY <3>1, ProposingTodo
    <3> QED  BY <3>2
  <2>3. Tail(worker[w].todo) \in Seq(Types)
    BY <2>1
  <2>4. next \in WorkerState
    BY <1>4, <2>1, <2>2, <2>3, WorkerShape DEF RecordArtifact, WorkerState
  <2>5. worker' = [worker EXCEPT ![w] = next]
    BY <1>4 DEF RecordArtifact
  <2>6. worker' \in [Worker -> WorkerState]
    BY <2>4, <2>5, WorkerTyped
  <2>7. Stored(artifact[t], worker[w].event) \in Row
    BY <2>1 DEF Stored, Row
  <2>8. artifact' = [artifact EXCEPT ![t] = Stored(artifact[t], worker[w].event)]
    BY <1>4 DEF RecordArtifact
  <2>9. artifact' \in [Types -> Row \cup {Absent}]
    BY <2>7, <2>8 DEF TypeOK
  <2> QED  BY <1>4, <2>6, <2>9 DEF RecordArtifact, TypeOK
<1>5. CASE SettleProposal(w)
  <2>1. worker[w].key \in Keys
    BY <1>5, WorkerShape DEF SettleProposal
  <2>2. proposal' \in [Keys -> [status : RowStatus, handoff : Handoffs,
                                outcome : {request[2] : request \in Requests} \cup {Nothing}]]
    BY <1>5, <2>1, ProposalTyped DEF SettleProposal, RowStatus
  <2>3. worker' \in [Worker -> WorkerState]
    BY <1>5, WorkerTyped DEF SettleProposal, WorkerState
  <2> QED  BY <1>5, <2>2, <2>3 DEF SettleProposal, TypeOK
<1> QED  BY <1>1, <1>2, <1>3, <1>4, <1>5

\* Each step of a question's worker keeps the types.
LEMMA ContextTypes ==
    ASSUME TypeOK, NEW w \in Worker,
           \/ \E q \in Question : ClaimContext(w, q)
           \/ Retrieve(w) \/ RecordTrace(w) \/ RecordCitations(w) \/ SettleContext(w)
    PROVE  TypeOK'
<1>1. ASSUME NEW q \in Question, ClaimContext(w, q)
      PROVE  TypeOK'
  <2>1. [at |-> "retrieve", question |-> q] \in WorkerState
    BY DEF WorkerState
  <2>2. worker' \in [Worker -> WorkerState]
    BY <1>1, <2>1, WorkerTyped DEF ClaimContext
  <2>3. question' \in [Question -> [status : RowStatus, refs : SUBSET Citation]]
    BY <1>1, QuestionTyped DEF ClaimContext, RowStatus
  <2> QED  BY <1>1, <2>2, <2>3 DEF ClaimContext, TypeOK
<1>2. CASE Retrieve(w)
  <2>1. PICK refs \in SUBSET Citation :
          worker' = [worker EXCEPT ![w] = [at |-> "trace", question |-> worker[w].question, refs |-> refs]]
    BY <1>2 DEF Retrieve
  <2>2. [at |-> "trace", question |-> worker[w].question, refs |-> refs] \in WorkerState
    BY <1>2, WorkerShape DEF Retrieve, WorkerState
  <2>3. worker' \in [Worker -> WorkerState]
    BY <2>1, <2>2, WorkerTyped
  <2> QED  BY <1>2, <2>3 DEF Retrieve, TypeOK
<1>3. CASE RecordTrace(w)
  <2>1. worker[w].refs \in SUBSET Citation
    BY <1>3, WorkerShape DEF RecordTrace
  <2>2. [worker[w] EXCEPT !.at = "cite"] = [at |-> "cite", question |-> worker[w].question, refs |-> worker[w].refs]
    <3>1. worker[w] = [at |-> worker[w].at, question |-> worker[w].question, refs |-> worker[w].refs]
      BY <1>3, WorkerShape DEF RecordTrace
    <3> QED  BY <3>1, AnsweringAt
  <2>3. [worker[w] EXCEPT !.at = "cite"] \in WorkerState
    BY <1>3, <2>1, <2>2, WorkerShape DEF RecordTrace, WorkerState
  <2>4. worker' \in [Worker -> WorkerState]
    BY <1>3, <2>3, WorkerTyped DEF RecordTrace
  <2>5. case' \in [traces : SUBSET SUBSET Citation, citations : SUBSET Citation]
    BY <1>3, <2>1 DEF RecordTrace, TypeOK
  <2> QED  BY <1>3, <2>4, <2>5 DEF RecordTrace, TypeOK
<1>4. CASE RecordCitations(w)
  <2>1. worker[w].refs \in SUBSET Citation
    BY <1>4, WorkerShape DEF RecordCitations
  <2>2. [worker[w] EXCEPT !.at = "answered"]
          = [at |-> "answered", question |-> worker[w].question, refs |-> worker[w].refs]
    <3>1. worker[w] = [at |-> worker[w].at, question |-> worker[w].question, refs |-> worker[w].refs]
      BY <1>4, WorkerShape DEF RecordCitations
    <3> QED  BY <3>1, AnsweringAt
  <2>3. [worker[w] EXCEPT !.at = "answered"] \in WorkerState
    BY <1>4, <2>1, <2>2, WorkerShape DEF RecordCitations, WorkerState
  <2>4. worker' \in [Worker -> WorkerState]
    BY <1>4, <2>3, WorkerTyped DEF RecordCitations
  <2>5. case' \in [traces : SUBSET SUBSET Citation, citations : SUBSET Citation]
    BY <1>4, <2>1 DEF RecordCitations, Cited, TypeOK
  <2> QED  BY <1>4, <2>4, <2>5 DEF RecordCitations, TypeOK
<1>5. CASE SettleContext(w)
  <2>1. worker[w].question \in Question /\ worker[w].refs \in SUBSET Citation
    BY <1>5, WorkerShape DEF SettleContext
  <2>2. question' \in [Question -> [status : RowStatus, refs : SUBSET Citation]]
    BY <1>5, <2>1 DEF SettleContext, RowStatus, TypeOK
  <2>3. worker' \in [Worker -> WorkerState]
    BY <1>5, WorkerTyped DEF SettleContext, WorkerState
  <2> QED  BY <1>5, <2>2, <2>3 DEF SettleContext, TypeOK
<1> QED  BY <1>1, <1>2, <1>3, <1>4, <1>5

\* A handler that raises and a process that dies keep the types.
LEMMA FailureTypes ==
    ASSUME TypeOK, NEW w \in Worker, Fail(w) \/ Crash(w)
    PROVE  TypeOK'
<1>1. worker' \in [Worker -> WorkerState]
  BY WorkerTyped DEF Fail, Crash, WorkerState
<1>2. CASE Fail(w) /\ "key" \in DOMAIN worker[w]
  <2>1. worker[w].key \in Keys
    BY <1>2, WorkerShape DEF Fail
  <2>2. proposal' \in [Keys -> [status : RowStatus, handoff : Handoffs,
                                outcome : {request[2] : request \in Requests} \cup {Nothing}]]
    <3>1. proposal' = [proposal EXCEPT ![worker[w].key].status = "failed"]
      BY <1>2 DEF Fail
    <3>2. "failed" \in RowStatus
      BY DEF RowStatus
    <3> QED  BY <2>1, <3>1, <3>2, ProposalTyped
  <2> QED  BY <1>1, <1>2, <2>2 DEF Fail, TypeOK
<1>3. CASE Fail(w) /\ "key" \notin DOMAIN worker[w]
  <2>1. worker[w].question \in Question
    BY <1>3, WorkerShape DEF Fail
  <2>2. question' \in [Question -> [status : RowStatus, refs : SUBSET Citation]]
    <3>1. question' = [question EXCEPT ![worker[w].question].status = "failed"]
      BY <1>3 DEF Fail
    <3>2. "failed" \in RowStatus
      BY DEF RowStatus
    <3> QED  BY <2>1, <3>1, <3>2, QuestionTyped
  <2> QED  BY <1>1, <1>3, <2>2 DEF Fail, TypeOK
<1>4. CASE Crash(w)
  BY <1>1, <1>4 DEF Crash, TypeOK
<1> QED  BY <1>2, <1>3, <1>4

\* A review keeps the types: an operator's decision is a review status.
LEMMA ReviewTypes ==
    ASSUME Admitted, TypeOK, NEW r \in Reviewer,
           \/ \E t \in Types, decision \in Decisions : ReadForReview(r, t, decision)
           \/ WriteReview(r)
    PROVE  TypeOK'
<1>1. ASSUME NEW t \in Types, NEW decision \in Decisions, ReadForReview(r, t, decision)
      PROVE  TypeOK'
  <2>1. artifact[t] \in Row
    BY <1>1 DEF ReadForReview, TypeOK
  <2>2. Reviewed(artifact[t], decision) \in Row
    BY <2>1 DEF Reviewed, Row
  <2>3. [at |-> "read", type |-> t, result |-> Reviewed(artifact[t], decision)] \in ReviewState
    BY <2>2 DEF ReviewState
  <2>4. review' \in [Reviewer -> ReviewState]
    BY <1>1, <2>3 DEF ReadForReview, TypeOK
  <2> QED  BY <1>1, <2>4 DEF ReadForReview, TypeOK
<1>2. CASE WriteReview(r)
  <2>1. review[r].type \in Types /\ review[r].result \in Row
    BY <1>2, ReviewShape DEF WriteReview
  <2>2. artifact' \in [Types -> Row \cup {Absent}]
    BY <1>2, <2>1 DEF WriteReview, TypeOK
  <2>3. review' \in [Reviewer -> ReviewState]
    BY <1>2 DEF WriteReview, ReviewState, TypeOK
  <2> QED  BY <1>2, <2>2, <2>3 DEF WriteReview, TypeOK
<1> QED  BY <1>1, <1>2

\* Every step keeps the types.
LEMMA NextTypes ==
    ASSUME Admitted, TypeOK, [Next]_vars
    PROVE  TypeOK'
<1>1. CASE UNCHANGED vars
  BY <1>1 DEF vars, TypeOK
<1> QED  BY <1>1, RequestTypes, ProposalTypes, ContextTypes, FailureTypes, ReviewTypes DEF Next, Work

-----------------------------------------------------------------------------
(* Steps of a worker. *)

\* A step of one worker leaves the others alone.
LEMMA WorkerElsewhere ==
    ASSUME TypeOK, NEW w \in Worker, Work(w)
    PROVE  \A v \in Worker : v # w => worker'[v] = worker[v]
  BY DEF TypeOK, Work, ClaimProposal, Gather, WriteCandidate, RecordArtifact, SettleProposal,
         ClaimContext, Retrieve, RecordTrace, RecordCitations, SettleContext, Fail, Crash

\* Only two steps leave a worker where it records artifacts.
LEMMA WorkerNext ==
    ASSUME TypeOK, NEW w \in Worker,
           \/ \E k \in Keys : ClaimProposal(w, k)
           \/ Gather(w) \/ SettleProposal(w)
           \/ \E q \in Question : ClaimContext(w, q)
           \/ Retrieve(w) \/ RecordTrace(w) \/ RecordCitations(w) \/ SettleContext(w)
           \/ Fail(w) \/ Crash(w)
    PROVE  worker'[w].at # "record"
<1>1. CASE \E k \in Keys : ClaimProposal(w, k)
  BY <1>1 DEF ClaimProposal, TypeOK
<1>2. CASE Gather(w)
  BY <1>2 DEF Gather, TypeOK
<1>3. CASE \E q \in Question : ClaimContext(w, q)
  BY <1>3 DEF ClaimContext, TypeOK
<1>4. CASE Retrieve(w)
  BY <1>4 DEF Retrieve, TypeOK
<1>5. CASE RecordTrace(w) \/ RecordCitations(w)
  <2>1. worker[w] = [at |-> worker[w].at, question |-> worker[w].question, refs |-> worker[w].refs]
    BY <1>5, WorkerShape DEF RecordTrace, RecordCitations
  <2>2. \/ worker'[w] = [worker[w] EXCEPT !.at = "cite"]
        \/ worker'[w] = [worker[w] EXCEPT !.at = "answered"]
    BY <1>5 DEF RecordTrace, RecordCitations, TypeOK
  <2> QED  BY <2>1, <2>2, AnsweringAt
<1>6. CASE SettleProposal(w) \/ SettleContext(w) \/ Fail(w) \/ Crash(w)
  BY <1>6 DEF SettleProposal, SettleContext, Fail, Crash, Idle, TypeOK
<1> QED  BY <1>1, <1>2, <1>3, <1>4, <1>5, <1>6

\* Only one leaves a worker where it answers.
LEMMA WorkerAnswers ==
    ASSUME TypeOK, NEW w \in Worker, Work(w), ~RecordCitations(w)
    PROVE  worker'[w].at # "answered"
<1>1. CASE \E k \in Keys : ClaimProposal(w, k)
  BY <1>1 DEF ClaimProposal, TypeOK
<1>2. CASE Gather(w)
  BY <1>2 DEF Gather, TypeOK
<1>3. CASE WriteCandidate(w) \/ RecordArtifact(w)
  <2>1. worker[w] = [at |-> worker[w].at, key |-> worker[w].key, todo |-> worker[w].todo,
                     event |-> worker[w].event]
    BY <1>3, WorkerShape DEF WriteCandidate, RecordArtifact
  <2>2. CASE WriteCandidate(w)
    <3>1. worker'[w] = [worker[w] EXCEPT !.at = "record"]
      BY <2>2 DEF WriteCandidate, TypeOK
    <3> QED  BY <2>1, <3>1, ProposingAt
  <2>3. CASE RecordArtifact(w)
    <3>1. worker'[w] = [worker[w] EXCEPT !.todo = Tail(worker[w].todo)] /\ worker[w].at = "record"
      BY <2>3 DEF RecordArtifact, TypeOK
    <3>2. ASSUME NEW u
          PROVE  [worker[w] EXCEPT !.todo = u].at = worker[w].at
      BY <2>1, ProposingTodo
    <3> QED  BY <3>1, <3>2
  <2> QED  BY <1>3, <2>2, <2>3
<1>4. CASE \E q \in Question : ClaimContext(w, q)
  BY <1>4 DEF ClaimContext, TypeOK
<1>5. CASE Retrieve(w)
  BY <1>5 DEF Retrieve, TypeOK
<1>6. CASE RecordTrace(w)
  <2>1. worker[w] = [at |-> worker[w].at, question |-> worker[w].question, refs |-> worker[w].refs]
    BY <1>6, WorkerShape DEF RecordTrace
  <2>2. worker'[w] = [worker[w] EXCEPT !.at = "cite"]
    BY <1>6 DEF RecordTrace, TypeOK
  <2> QED  BY <2>1, <2>2, AnsweringAt
<1>7. CASE SettleProposal(w) \/ SettleContext(w) \/ Fail(w) \/ Crash(w)
  BY <1>7 DEF SettleProposal, SettleContext, Fail, Crash, Idle, TypeOK
<1> QED  BY <1>1, <1>2, <1>3, <1>4, <1>5, <1>6, <1>7 DEF Work

-----------------------------------------------------------------------------
(* Decisions. *)

\* A decision, and a review in progress, is about content that was read: a
\* record of the artifact starts its review over, and what a review writes
\* back is the content it read.
LEMMA NextReviewed ==
    ASSUME Admitted, TypeOK, ApprovedAsRead, ReviewsAsRead, [Next]_vars
    PROVE  ApprovedAsRead' /\ ReviewsAsRead'
<1>1. ASSUME NEW w \in Worker, RecordArtifact(w)
      PROVE  ApprovedAsRead' /\ ReviewsAsRead'
  <2> DEFINE t == Head(worker[w].todo)
             x == Stored(artifact[t], worker[w].event)
  <2>1. artifact' = [artifact EXCEPT ![t] = x] /\ UNCHANGED review
    BY <1>1 DEF RecordArtifact
  <2>2. x.status \notin Decisions
    BY DEF Stored, Admitted, ReviewStatus
  <2>3. ASSUME NEW u \in Types, artifact'[u].status \in Decisions
        PROVE  artifact'[u].judged = artifact'[u].event
    <3> HIDE DEF x, t
    <3>1. u # t
      BY <2>1, <2>2, <2>3 DEF TypeOK
    <3> QED  BY <2>1, <2>3, <3>1 DEF ApprovedAsRead, TypeOK
  <2> QED  BY <2>1, <2>3 DEF ApprovedAsRead, ReviewsAsRead
<1>2. ASSUME NEW r \in Reviewer, NEW t \in Types, NEW decision \in Decisions,
             ReadForReview(r, t, decision)
      PROVE  ApprovedAsRead' /\ ReviewsAsRead'
  <2>1. /\ review' = [review EXCEPT ![r] = [at |-> "read", type |-> t,
                                            result |-> Reviewed(artifact[t], decision)]]
        /\ UNCHANGED artifact
    BY <1>2 DEF ReadForReview
  <2>2. Reviewed(artifact[t], decision).judged = Reviewed(artifact[t], decision).event
    BY DEF Reviewed
  <2>3. ReviewsAsRead'
    BY <2>1, <2>2 DEF ReviewsAsRead, TypeOK
  <2> QED  BY <2>1, <2>3 DEF ApprovedAsRead
<1>3. ASSUME NEW r \in Reviewer, WriteReview(r)
      PROVE  ApprovedAsRead' /\ ReviewsAsRead'
  <2>1. review[r].result.judged = review[r].result.event
    BY <1>3 DEF WriteReview, ReviewsAsRead
  <2>2. ApprovedAsRead'
    BY <1>3, <2>1 DEF WriteReview, ApprovedAsRead, TypeOK
  <2>3. ReviewsAsRead'
    BY <1>3 DEF WriteReview, ReviewsAsRead, Idle, TypeOK
  <2> QED  BY <2>2, <2>3
<1>4. CASE UNCHANGED <<artifact, review>>
  BY <1>4 DEF ApprovedAsRead, ReviewsAsRead
<1>5. CASE UNCHANGED vars
  BY <1>4, <1>5 DEF vars
<1>6. ASSUME NEW w \in Worker, Work(w)
      PROVE  ApprovedAsRead' /\ ReviewsAsRead'
  BY <1>1, <1>4, <1>6 DEF Work, ClaimProposal, Gather, WriteCandidate, SettleProposal,
       ClaimContext, Retrieve, RecordTrace, RecordCitations, SettleContext, Fail, Crash
<1>7. CASE \/ \E o \in Outcome : RecordOutcome(o)
           \/ \E request \in Requests : RequestProposal(request)
           \/ \E q \in Question : RequestContext(q)
  BY <1>4, <1>7 DEF RecordOutcome, RequestProposal, RequestContext
<1> QED  BY <1>2, <1>3, <1>5, <1>6, <1>7 DEF Next

-----------------------------------------------------------------------------
(* What rows refer to. *)

\* The candidate of an event is in the directory before an artifact, or a
\* review that will write one back, has that event; no step removes one.
LEMMA NextCandidate ==
    ASSUME TypeOK, CandidateExists, CandidateAhead, [Next]_vars
    PROVE  CandidateExists' /\ CandidateAhead'
<1>1. ASSUME NEW w \in Worker, WriteCandidate(w)
      PROVE  CandidateExists' /\ CandidateAhead'
  <2>1. CASE place.is = "directory"
    <3>1. place'.is = "directory" /\ place'.holds = place.holds \cup {worker[w].event}
      BY <1>1, <2>1 DEF WriteCandidate, Written, TypeOK
    <3>2. \A v \in Worker : v # w => worker'[v] = worker[v]
      BY <1>1 DEF WriteCandidate, TypeOK
    <3>3. worker'[w].event = worker[w].event
      <4>1. worker'[w] = [worker[w] EXCEPT !.at = "record"]
        BY <1>1 DEF WriteCandidate, TypeOK
      <4>2. worker[w] = [at |-> worker[w].at, key |-> worker[w].key, todo |-> worker[w].todo,
                         event |-> worker[w].event]
        BY <1>1, WorkerShape DEF WriteCandidate
      <4>3. worker'[w] = [at |-> "record", key |-> worker[w].key, todo |-> worker[w].todo,
                          event |-> worker[w].event]
        BY <4>1, <4>2, ProposingAt
      <4> QED  BY <4>3
    <3>4. UNCHANGED <<artifact, review>>
      BY <1>1 DEF WriteCandidate
    <3> QED  BY <2>1, <3>1, <3>2, <3>3, <3>4 DEF CandidateExists, CandidateAhead
  <2>2. CASE place.is # "directory"
    BY <1>1, <2>2 DEF WriteCandidate, Written, CandidateExists, CandidateAhead
  <2> QED  BY <2>1, <2>2
<1>2. ASSUME NEW w \in Worker, RecordArtifact(w)
      PROVE  CandidateExists' /\ CandidateAhead'
  <2> DEFINE t == Head(worker[w].todo)
             x == Stored(artifact[t], worker[w].event)
  <2>1. artifact' = [artifact EXCEPT ![t] = x] /\ UNCHANGED <<place, review>>
    BY <1>2 DEF RecordArtifact
  <2>2. x.event = worker[w].event
    BY DEF Stored
  <2>3. worker[w].at = "record"
    BY <1>2 DEF RecordArtifact
  <2>4. CandidateExists'
    <3> HIDE DEF x, t
    <3> QED  BY <2>1, <2>2, <2>3 DEF CandidateExists, CandidateAhead, TypeOK
  <2>5. \A v \in Worker : v # w => worker'[v] = worker[v]
    BY <1>2 DEF RecordArtifact, TypeOK
  <2>6. worker'[w].event = worker[w].event
    <3>1. worker'[w] = [worker[w] EXCEPT !.todo = Tail(worker[w].todo)]
      BY <1>2 DEF RecordArtifact, TypeOK
    <3>2. worker[w] = [at |-> "record", key |-> worker[w].key, todo |-> worker[w].todo,
                       event |-> worker[w].event]
      BY <2>3, WorkerShape
    <3>3. ASSUME NEW u
          PROVE  [worker[w] EXCEPT !.todo = u]
                   = [at |-> "record", key |-> worker[w].key, todo |-> u, event |-> worker[w].event]
      BY <3>2, ProposingTodo
    <3> QED  BY <3>1, <3>3
  <2>7. CandidateAhead'
    BY <2>1, <2>3, <2>5, <2>6 DEF CandidateAhead
  <2> QED  BY <2>4, <2>7
<1>3. ASSUME NEW r \in Reviewer, NEW t \in Types, NEW decision \in Decisions,
             ReadForReview(r, t, decision)
      PROVE  CandidateExists' /\ CandidateAhead'
  <2>1. /\ review' = [review EXCEPT ![r] = [at |-> "read", type |-> t,
                                            result |-> Reviewed(artifact[t], decision)]]
        /\ artifact[t] # Absent
        /\ UNCHANGED <<artifact, place, worker>>
    BY <1>3 DEF ReadForReview
  <2>2. Reviewed(artifact[t], decision).event = artifact[t].event
    BY DEF Reviewed
  <2>3. CandidateAhead'
    BY <2>1, <2>2 DEF CandidateExists, CandidateAhead, TypeOK
  <2> QED  BY <2>1, <2>3 DEF CandidateExists
<1>4. ASSUME NEW r \in Reviewer, WriteReview(r)
      PROVE  CandidateExists' /\ CandidateAhead'
  <2>1. CandidateExists'
    BY <1>4 DEF WriteReview, CandidateExists, CandidateAhead, TypeOK
  <2>2. CandidateAhead'
    BY <1>4 DEF WriteReview, CandidateAhead, Idle, TypeOK
  <2> QED  BY <2>1, <2>2
<1>5. ASSUME UNCHANGED <<place, artifact, review>>, NEW w \in Worker,
             worker'[w].at # "record", \A v \in Worker : v # w => worker'[v] = worker[v]
      PROVE  CandidateExists' /\ CandidateAhead'
  BY <1>5 DEF CandidateExists, CandidateAhead
<1>6. CASE UNCHANGED <<place, artifact, review, worker>>
  BY <1>6 DEF CandidateExists, CandidateAhead
<1>7. ASSUME NEW w \in Worker,
             \/ \E k \in Keys : ClaimProposal(w, k)
             \/ Gather(w) \/ SettleProposal(w)
             \/ \E q \in Question : ClaimContext(w, q)
             \/ Retrieve(w) \/ RecordTrace(w) \/ RecordCitations(w) \/ SettleContext(w)
             \/ Fail(w) \/ Crash(w)
      PROVE  CandidateExists' /\ CandidateAhead'
  <2>1. UNCHANGED <<place, artifact, review>>
    BY <1>7 DEF ClaimProposal, Gather, SettleProposal, ClaimContext, Retrieve, RecordTrace,
         RecordCitations, SettleContext, Fail, Crash
  <2>2. \A v \in Worker : v # w => worker'[v] = worker[v]
    BY <1>7, WorkerElsewhere DEF Work
  <2>3. worker'[w].at # "record"
    BY <1>7, WorkerNext
  <2> QED  BY <1>5, <2>1, <2>2, <2>3
<1>8. CASE UNCHANGED vars
  BY <1>6, <1>8 DEF vars
<1>9. CASE \/ \E o \in Outcome : RecordOutcome(o)
           \/ \E request \in Requests : RequestProposal(request)
           \/ \E q \in Question : RequestContext(q)
  BY <1>6, <1>9 DEF RecordOutcome, RequestProposal, RequestContext
<1>10. ASSUME NEW w \in Worker, Work(w)
       PROVE  CandidateExists' /\ CandidateAhead'
  BY <1>1, <1>2, <1>7, <1>10 DEF Work
<1> QED  BY <1>3, <1>4, <1>8, <1>9, <1>10 DEF Next

\* What a worker is about to answer is with the case when it settles; traces
\* and citations are only added.
LEMMA NextContext ==
    ASSUME TypeOK, ContextIsKept, ContextAhead, [Next]_vars
    PROVE  ContextIsKept' /\ ContextAhead'
<1>1. case.traces \subseteq case'.traces /\ case.citations \subseteq case'.citations
  <2>1. CASE UNCHANGED case
    BY <2>1
  <2>2. ASSUME NEW w \in Worker, RecordTrace(w)
        PROVE  case.traces \subseteq case'.traces /\ case.citations \subseteq case'.citations
    BY <2>2 DEF RecordTrace, TypeOK
  <2>3. ASSUME NEW w \in Worker, RecordCitations(w)
        PROVE  case.traces \subseteq case'.traces /\ case.citations \subseteq case'.citations
    BY <2>3 DEF RecordCitations, Cited, TypeOK
  <2>4. ASSUME NEW w \in Worker, Work(w)
        PROVE  case.traces \subseteq case'.traces /\ case.citations \subseteq case'.citations
    BY <2>1, <2>2, <2>3, <2>4 DEF Work, ClaimProposal, Gather, WriteCandidate, RecordArtifact,
         SettleProposal, ClaimContext, Retrieve, SettleContext, Fail, Crash
  <2> QED  BY <2>1, <2>4 DEF Next, vars, RecordOutcome, RequestProposal, RequestContext,
             ReadForReview, WriteReview
<1>2. ContextIsKept'
  <2>1. ASSUME NEW w \in Worker, SettleContext(w)
        PROVE  ContextIsKept'
    BY <1>1, <2>1 DEF SettleContext, ContextIsKept, ContextAhead, TypeOK
  <2>2. ASSUME \A q \in Question : question'[q].status = "succeeded" => question'[q] = question[q]
        PROVE  ContextIsKept'
    BY <1>1, <2>2 DEF ContextIsKept
  <2>3. ASSUME NEW w \in Worker, Fail(w)
        PROVE  ContextIsKept'
    <3>1. \/ UNCHANGED question
          \/ question' = [question EXCEPT ![worker[w].question].status = "failed"]
      BY <2>3 DEF Fail
    <3> QED  BY <2>2, <3>1 DEF TypeOK
  <2>4. ASSUME NEW w \in Worker, NEW q \in Question, ClaimContext(w, q)
        PROVE  ContextIsKept'
    BY <2>2, <2>4 DEF ClaimContext, TypeOK
  <2>5. ASSUME NEW q \in Question, RequestContext(q)
        PROVE  ContextIsKept'
    BY <2>2, <2>5 DEF RequestContext, TypeOK
  <2>6. CASE UNCHANGED question
    BY <2>2, <2>6
  <2>7. ASSUME NEW w \in Worker, Work(w)
        PROVE  ContextIsKept'
    BY <2>1, <2>3, <2>4, <2>6, <2>7 DEF Work, ClaimProposal, Gather, WriteCandidate,
         RecordArtifact, SettleProposal, Retrieve, RecordTrace, RecordCitations, Crash
  <2> QED  BY <2>5, <2>6, <2>7 DEF Next, vars, RecordOutcome, RequestProposal,
             ReadForReview, WriteReview
<1>3. ContextAhead'
  <2>1. ASSUME NEW v \in Worker, worker'[v] = worker[v], worker'[v].at = "answered"
        PROVE  worker'[v].refs \in case'.traces /\ worker'[v].refs \subseteq case'.citations
    BY <1>1, <2>1 DEF ContextAhead
  <2>2. ASSUME NEW w \in Worker, RecordCitations(w)
        PROVE  ContextAhead'
    <3>1. worker'[w].refs = worker[w].refs
      <4>1. worker[w] = [at |-> worker[w].at, question |-> worker[w].question, refs |-> worker[w].refs]
        BY <2>2, WorkerShape DEF RecordCitations
      <4>2. worker'[w] = [worker[w] EXCEPT !.at = "answered"]
        BY <2>2 DEF RecordCitations, TypeOK
      <4>3. worker'[w] = [at |-> "answered", question |-> worker[w].question, refs |-> worker[w].refs]
        BY <4>1, <4>2, AnsweringAt
      <4> QED  BY <4>3
    <3>2. worker[w].refs \in case'.traces /\ worker[w].refs \subseteq case'.citations
      BY <2>2 DEF RecordCitations, Cited
    <3>3. \A v \in Worker : v # w => worker'[v] = worker[v]
      BY <2>2, WorkerElsewhere DEF Work
    <3> QED  BY <2>1, <3>1, <3>2, <3>3 DEF ContextAhead
  <2>3. ASSUME NEW w \in Worker, Work(w), ~RecordCitations(w)
        PROVE  ContextAhead'
    <3>1. worker'[w].at # "answered"
      BY <2>3, WorkerAnswers
    <3>2. \A v \in Worker : v # w => worker'[v] = worker[v]
      BY <2>3, WorkerElsewhere
    <3> QED  BY <2>1, <3>1, <3>2 DEF ContextAhead
  <2>4. CASE UNCHANGED worker
    BY <2>1, <2>4 DEF ContextAhead
  <2> QED  BY <2>2, <2>3, <2>4 DEF Next, vars, RecordOutcome, RequestProposal, RequestContext,
             ReadForReview, WriteReview
<1> QED  BY <1>2, <1>3

-----------------------------------------------------------------------------
(* The theorems. *)

\* Init establishes the invariant and each step keeps it.
LEMMA KnowledgeInvariance ==
    ASSUME Admitted
    PROVE  /\ Init => KnowledgeInv
           /\ KnowledgeInv /\ [Next]_vars => KnowledgeInv'
<1>1. ASSUME Init
      PROVE  KnowledgeInv
  <2>1. ApprovedAsRead /\ ReviewsAsRead
    BY <1>1 DEF Init, Admitted, ReviewStatus, Absent, Idle, ApprovedAsRead, ReviewsAsRead
  <2>2. CandidateExists /\ CandidateAhead
    BY <1>1 DEF Init, Idle, CandidateExists, CandidateAhead
  <2>3. ContextIsKept /\ ContextAhead
    BY <1>1 DEF Init, Idle, ContextIsKept, ContextAhead
  <2> QED  BY <1>1, <2>1, <2>2, <2>3, InitTypes DEF KnowledgeInv
<1>2. ASSUME KnowledgeInv, [Next]_vars
      PROVE  KnowledgeInv'
  BY <1>2, NextTypes, NextReviewed, NextCandidate, NextContext DEF KnowledgeInv
<1> QED  BY <1>1, <1>2

\* A decision on an artifact is about the content that the review had read, for
\* any number of proposals, retries and reviewers that overwrite each other in
\* record_knowledge_artifact and review_lhp_knowledge_artifact.
THEOREM DecisionIsAboutContent ==
    ASSUME Admitted
    PROVE  Spec => []ApprovedAsRead
<1>1. Init => KnowledgeInv
  BY KnowledgeInvariance
<1>2. KnowledgeInv /\ [Next]_vars => KnowledgeInv'
  BY KnowledgeInvariance
<1>3. KnowledgeInv => ApprovedAsRead
  BY DEF KnowledgeInv
<1> QED  BY <1>1, <1>2, <1>3, PTL DEF Spec

\* What artifacts and answered requests refer to exists, for any number of
\* workers whose handlers fail and whose processes die at any await.
THEOREM KnowledgeReferencesHold ==
    ASSUME Admitted
    PROVE  Spec => []ReferencesHold
<1>1. Init => KnowledgeInv
  BY KnowledgeInvariance
<1>2. KnowledgeInv /\ [Next]_vars => KnowledgeInv'
  BY KnowledgeInvariance
<1>3. KnowledgeInv => ReferencesHold
  BY DEF KnowledgeInv, ReferencesHold
<1> QED  BY <1>1, <1>2, <1>3, PTL DEF Spec
=============================================================================
