-------------------------- MODULE CaseReportsProofs ---------------------------
(***************************************************************************)
(* Theorems of CaseReports, for any facts, updates, rows of other types,   *)
(* batch limit, verbosities and bounds: an update that was queued or       *)
(* retained is kept, the card is never older than what was recorded as     *)
(* delivered, and facts come first.                                        *)
(***************************************************************************)
EXTENDS CaseReports, TLAPS

\* The inductive invariant.
ReportsInv == TypeOK /\ UpdateIsKept /\ DeliveredInv /\ FactsInv

-----------------------------------------------------------------------------
(* What the constants give. *)

LEMMA RowsDiffer ==
    /\ Facts \subseteq Rows /\ Updates \subseteq Rows /\ Other \subseteq Rows
    /\ \A f \in Facts : f \notin Updates /\ f \notin Other /\ f # Nothing
    /\ \A u \in Updates : u \notin Facts /\ u \notin Other /\ u # Nothing
BY CaseReportsConstants DEF Rows

LEMMA Records ==
    /\ NoRow \in RowType /\ NoRow.status = "none" /\ NoRow.note = "none" /\ NoRow.rev = 0 /\ NoRow.made = 0
    /\ Resting \in WorkerType /\ Resting.at = "rest"
    /\ NoCard \in CardType /\ ~NoCard.alive /\ NoCard.of = Nothing
    /\ NoFile \in FileType /\ NoFile.rev = 0
BY DEF NoRow, RowType, Statuses, Resting, WorkerType, Places, NoCard, CardType, NoFile, FileType

\* A row as it is made.
LEMMA NewRowForm ==
    ASSUME now \in Nat, NEW rev \in Nat
    PROVE  /\ NewRow(rev) \in RowType /\ NewRow(rev).status = "pending" /\ NewRow(rev).note = "none"
           /\ NewRow(rev).rev = rev /\ NewRow(rev).made = now
BY DEF NewRow, NoRow, RowType, Statuses

\* A row whose status alone is written.
LEMMA StatusForm ==
    ASSUME NEW r \in RowType, NEW st \in Statuses
    PROVE  /\ [r EXCEPT !.status = st] \in RowType
           /\ [r EXCEPT !.status = st].status = st /\ [r EXCEPT !.status = st].note = r.note
           /\ [r EXCEPT !.status = st].rev = r.rev /\ [r EXCEPT !.status = st].made = r.made
BY DEF RowType

\* A row that is settled, with a note, or taken up again, without one.
LEMMA NoteForm ==
    ASSUME NEW r \in RowType, NEW st \in Statuses, NEW n \in Outcomes \cup {"none"}
    PROVE  /\ [r EXCEPT !.status = st, !.note = n] \in RowType
           /\ [r EXCEPT !.status = st, !.note = n].status = st /\ [r EXCEPT !.status = st, !.note = n].note = n
           /\ [r EXCEPT !.status = st, !.note = n].rev = r.rev
           /\ [r EXCEPT !.status = st, !.note = n].made = r.made
BY DEF RowType

\* A worker's record as the handler writes it.
LEMMA WorkerForm ==
    ASSUME NEW k \in WorkerType, NEW place \in Places
    PROVE  /\ [k EXCEPT !.at = place] \in WorkerType /\ [k EXCEPT !.at = place].at = place
           /\ [k EXCEPT !.at = place].row = k.row /\ [k EXCEPT !.at = place].shows = k.shows
           /\ [k EXCEPT !.at = place].stamp = k.stamp
BY DEF WorkerType

LEMMA RowTyped ==
    ASSUME TypeOK, NEW r \in Rows
    PROVE  /\ row[r] \in RowType /\ row[r].status \in Statuses /\ row[r].note \in Outcomes \cup {"none"}
           /\ row[r].rev \in Nat /\ row[r].made \in Nat
BY DEF TypeOK, StateOK, RowType

-----------------------------------------------------------------------------
(* Initially. *)

LEMMA InitReports == Init => ReportsInv
<1> SUFFICES ASSUME Init PROVE ReportsInv
  OBVIOUS
<1>1. \A r \in Rows : /\ row[r] \in RowType /\ row[r].status \in {"none", "pending"} /\ row[r].note = "none"
                      /\ row[r].rev = 0 /\ row[r].made = 0
  <2> SUFFICES ASSUME NEW r \in Rows
               PROVE  /\ row[r] \in RowType /\ row[r].status \in {"none", "pending"}
                      /\ row[r].note = "none" /\ row[r].rev = 0 /\ row[r].made = 0
    OBVIOUS
  <2>1. CASE r \in Other
    <3>1. row[r] = [NoRow EXCEPT !.status = "pending"]
      BY <2>1 DEF Init
    <3> QED
      BY <3>1 DEF NoRow, RowType, Statuses
  <2>2. CASE r \notin Other
    <3>1. row[r] = [NoRow EXCEPT !.status = "none"]
      BY <2>2 DEF Init
    <3> QED
      BY <3>1 DEF NoRow, RowType, Statuses
  <2> QED
    BY <2>1, <2>2
<1>2. row \in [Rows -> RowType]
  <2>1. row = [r \in Rows |-> row[r]]
    BY DEF Init
  <2> QED
    BY <1>1, <2>1
<1>3. Facts # {} => facts \in Facts
  BY DEF Init
<1>4. StateOK
  BY <1>2, <1>3, Records, CaseReportsConstants DEF Init, StateOK
<1>5. RowsOK
  BY <1>1 DEF Init, RowsOK
<1>6. HandlersOK /\ ContentsOK
  BY Records DEF Init, HandlersOK, ContentsOK, Workers
<1>7. UpdateIsKept
  BY <1>1, RowsDiffer DEF UpdateIsKept
<1>8. DeliveredInv
  BY <1>1, Records DEF Init, DeliveredInv
<1>9. FactsInv
  BY Records DEF Init, FactsInv
<1> QED
  BY <1>4, <1>5, <1>6, <1>7, <1>8, <1>9 DEF ReportsInv, TypeOK

-----------------------------------------------------------------------------
(***************************************************************************)
(* What keeps the invariant: a write to rows that no handler works on, and *)
(* a move of one handler.                                                  *)
(***************************************************************************)

LEMMA RowStep ==
    ASSUME ReportsInv, UNCHANGED <<reported, worker, card, file, verbosity>>,
           facts' \in Facts, tick' \in {"replay", "unlink"},
           spool' \subseteq Updates, quarantine' \subseteq Updates,
           now' \in Nat, now <= now', row' \in [Rows -> RowType],
           \A r \in Rows :
              row'[r] # row[r] =>
                 /\ \A w \in Workers : worker[w].at # "rest" => worker[w].row # r
                 /\ row'[r].note = "none" /\ row'[r].status # "done"
                 /\ row'[r].rev <= now' /\ row'[r].made <= now',
           fresh' \subseteq {r \in Facts \cup Updates : row'[r].status = "pending"},
           batch' \subseteq {r \in Facts \cup Updates : row'[r].status \in {"pending", "due"}},
           UpdateIsKept'
    PROVE  ReportsInv'
<1>1. StateOK'
  BY DEF ReportsInv, TypeOK, StateOK
<1>2. RowsOK'
  <2>1. ASSUME NEW r \in Rows
        PROVE  /\ row'[r].rev <= now' /\ row'[r].made <= now'
               /\ row'[r].note # "none" <=> row'[r].status = "done"
    <3>1. row[r].rev <= now /\ row[r].made <= now /\ (row[r].note # "none" <=> row[r].status = "done")
      BY DEF ReportsInv, TypeOK, RowsOK
    <3>2. row[r].rev \in Nat /\ row[r].made \in Nat /\ now \in Nat
      BY RowTyped DEF ReportsInv, TypeOK, StateOK
    <3> QED
      BY <3>1, <3>2
  <2> QED
    BY <2>1 DEF RowsOK
<1>3. HandlersOK'
  BY RowsDiffer DEF ReportsInv, TypeOK, HandlersOK
<1>4. ContentsOK'
  BY DEF ReportsInv, TypeOK, ContentsOK
<1>5. DeliveredInv'
  <2>1. ASSUME NEW r \in Rows, row'[r].note = "delivered" PROVE row'[r].rev <= file.rev
    BY <2>1 DEF ReportsInv, DeliveredInv
  <2>2. ASSUME NEW w \in Workers,
               worker[w].at = "stamp" \/ (worker[w].at = "complete" /\ worker[w].stamp = "delivered")
        PROVE  row'[worker[w].row].rev <= file.rev
    <3>1. worker[w].row \in Rows /\ row'[worker[w].row] = row[worker[w].row]
      BY <2>2, RowsDiffer DEF ReportsInv, TypeOK, HandlersOK
    <3> QED
      BY <2>2, <3>1 DEF ReportsInv, DeliveredInv
  <2> QED
    BY <2>1, <2>2 DEF ReportsInv, DeliveredInv
<1>6. FactsInv'
  BY DEF ReportsInv, FactsInv
<1> QED
  BY <1>1, <1>2, <1>3, <1>4, <1>5, <1>6 DEF ReportsInv, TypeOK

\* The handler of a row moves on, or is over; it may deliver a card.
LEMMA HandlerMoves ==
    ASSUME ReportsInv, NEW w \in Workers, NEW rec \in WorkerType,
           worker' = [worker EXCEPT ![w] = rec],
           UNCHANGED <<facts, row, fresh, spool, quarantine, tick, verbosity, now>>,
           batch' \subseteq batch,
           rec.at = "rest" \/ (worker[w].at # "rest" /\ rec.row = worker[w].row),
           rec.at \in {"refresh", "stampfirst"} => rec.stamp \in Facts,
           rec.at \in {"refresh", "stampfirst", "send", "stamp"} => rec.shows \in Facts,
           rec.at \in {"send", "stamp"} => rec.stamp \in Facts \cup {Nothing},
           rec.at = "complete" => rec.stamp \in Outcomes,
           rec.at = "send" /\ rec.row \in Updates /\ FactsLevel >= verbosity => reported' # Nothing,
           reported' \in Facts \cup {Nothing}, reported # Nothing => reported' # Nothing,
           card' \in CardType, file' \in FileType, file.rev <= file'.rev,
           card'.alive => card'.rev >= file'.rev,
           rec.at = "stamp" \/ (rec.at = "complete" /\ rec.stamp = "delivered")
              => row[rec.row].rev <= file'.rev
    PROVE  ReportsInv'
<1>0. /\ worker'[w] = rec /\ \A v \in Workers : v # w => worker'[v] = worker[v]
      /\ worker' \in [Workers -> WorkerType]
  BY DEF ReportsInv, TypeOK, StateOK
<1>1. StateOK'
  BY <1>0 DEF ReportsInv, TypeOK, StateOK
<1>2. RowsOK'
  BY DEF ReportsInv, TypeOK, RowsOK
<1>3. HandlersOK'
  <2>1. \A v \in Workers : worker'[v].at # "rest" => worker[v].at # "rest" /\ worker'[v].row = worker[v].row
    BY <1>0
  <2> QED
    BY <2>1 DEF ReportsInv, TypeOK, HandlersOK
<1>4. ContentsOK'
  BY <1>0 DEF ReportsInv, TypeOK, ContentsOK
<1>5. DeliveredInv'
  <2>1. ASSUME NEW r \in Rows, row[r].note = "delivered" PROVE row[r].rev <= file'.rev
    <3>1. row[r].rev <= file.rev
      BY <2>1 DEF ReportsInv, DeliveredInv
    <3> QED
      BY <3>1, RowTyped DEF ReportsInv, TypeOK, StateOK, FileType
  <2>2. ASSUME NEW v \in Workers,
               worker'[v].at = "stamp" \/ (worker'[v].at = "complete" /\ worker'[v].stamp = "delivered")
        PROVE  row[worker'[v].row].rev <= file'.rev
    <3>1. CASE v = w
      BY <1>0, <2>2, <3>1
    <3>2. CASE v # w
      <4>1. worker'[v] = worker[v] /\ row[worker[v].row].rev <= file.rev
        BY <1>0, <2>2, <3>2 DEF ReportsInv, DeliveredInv
      <4>2. worker[v].row \in Rows
        BY <2>2, <4>1, RowsDiffer DEF ReportsInv, TypeOK, HandlersOK
      <4> QED
        BY <4>1, <4>2, RowTyped DEF ReportsInv, TypeOK, StateOK, FileType
    <3> QED
      BY <3>1, <3>2
  <2> QED
    BY <2>1, <2>2 DEF DeliveredInv
<1>6. FactsInv'
  BY <1>0 DEF ReportsInv, FactsInv
<1>7. UpdateIsKept'
  BY DEF ReportsInv, UpdateIsKept
<1> QED
  BY <1>1, <1>2, <1>3, <1>4, <1>5, <1>6, <1>7 DEF ReportsInv, TypeOK

\* deliver_case_card: the file never goes back, and the card not behind it.
LEMMA DeliverForm ==
    ASSUME ReportsInv, NEW p, p.facts \in Facts, p.of \in Rows, NEW rev \in Nat, NEW force, NEW answer,
           Deliver(p, rev, force, answer)
    PROVE  /\ card' \in CardType /\ file' \in FileType
           /\ file.rev <= file'.rev
           /\ card'.alive => card'.rev >= file'.rev
           /\ answer = "ok" => rev <= file'.rev
           /\ card'.of \in {card.of, p.of}
<1> USE DEF ReportsInv, TypeOK, StateOK
<1>1. /\ card \in CardType /\ file \in FileType /\ file.rev \in Nat /\ card.rev \in Nat
      /\ card.alive => card.rev >= file.rev
  BY DEF DeliveredInv, CardType, FileType
<1>2. ~Superseded(rev) => file.rev <= rev
  BY <1>1, Records DEF Superseded
<1>3. /\ Shown(p, rev) \in CardType /\ Shown(p, rev).of = p.of /\ Shown(p, rev).rev = rev
      /\ Recorded(p, rev) \in FileType /\ Recorded(p, rev).rev = rev
  BY DEF Shown, Recorded, CardType, FileType
<1>4. ASSUME ~Superseded(rev), answer = "ok", file' = [file EXCEPT !.rev = rev],
             card' = IF card.alive THEN [card EXCEPT !.rev = rev] ELSE card
      PROVE  /\ card' \in CardType /\ file' \in FileType /\ file'.rev = rev
             /\ card'.alive => card'.rev = rev
             /\ card'.of = card.of
  BY <1>1, <1>4 DEF CardType, FileType
<1>5. CASE Superseded(rev) /\ answer = "superseded" /\ UNCHANGED <<card, file>>
  BY <1>1, <1>5
<1>6. CASE ~Superseded(rev) /\ Transport(p, rev, answer)
  <2>1. CASE card' = Shown(p, rev) /\ file' = Recorded(p, rev)
    BY <1>1, <1>2, <1>3, <1>6, <2>1
  <2>2. CASE /\ answer = "lost" /\ UNCHANGED file
             /\ card' = IF file # NoFile /\ card.alive THEN Shown(p, rev) ELSE card
    BY <1>1, <1>2, <1>3, <1>6, <2>2
  <2>3. CASE answer = "refused" /\ UNCHANGED <<card, file>>
    BY <1>1, <2>3
  <2> QED
    BY <1>6, <2>1, <2>2, <2>3 DEF Transport
<1>7. CASE /\ ~Superseded(rev) /\ answer = "ok" /\ file' = [file EXCEPT !.rev = rev]
           /\ card' = IF card.alive THEN [card EXCEPT !.rev = rev] ELSE card
  <2>1. file.rev <= rev
    BY <1>2, <1>7
  <2> QED
    BY <1>1, <1>4, <1>7, <2>1
<1> QED
  BY <1>5, <1>6, <1>7 DEF Deliver

-----------------------------------------------------------------------------
(* Requests and claims. *)

\* request_report makes the row, takes a suppressed one up again, or leaves it.
LEMMA RequestedForm ==
    ASSUME TypeOK, NEW f \in Facts, NEW rev \in Nat
    PROVE  /\ Requested(f, rev) \in [Rows -> RowType]
           /\ \A r \in Rows : r # f => Requested(f, rev)[r] = row[r]
           /\ \/ Requested(f, rev) = row
              \/ /\ row[f].status \in {"none", "done"}
                 /\ Requested(f, rev)[f].status = "pending" /\ Requested(f, rev)[f].note = "none"
                 /\ \/ row[f].status = "none" /\ Requested(f, rev)[f].rev = rev /\ Requested(f, rev)[f].made = now
                    \/ Requested(f, rev)[f].rev = row[f].rev /\ Requested(f, rev)[f].made = row[f].made
<1>1. row \in [Rows -> RowType] /\ now \in Nat /\ f \in Rows /\ row[f] \in RowType
  BY RowsDiffer DEF TypeOK, StateOK
<1>2. CASE row[f].status = "none"
  <2>1. Requested(f, rev) = [row EXCEPT ![f] = NewRow(rev)]
    BY <1>2 DEF Requested
  <2> QED
    BY <1>1, <1>2, <2>1, NewRowForm
<1>3. CASE row[f].status # "none" /\ row[f].note = "suppressed" /\ FactsLevel >= verbosity
  <2> DEFINE again == [row[f] EXCEPT !.status = "pending", !.note = "none"]
  <2>1. Requested(f, rev) = [row EXCEPT ![f] = again]
    BY <1>3 DEF Requested
  <2>2. /\ again \in RowType /\ again.status = "pending" /\ again.note = "none"
        /\ again.rev = row[f].rev /\ again.made = row[f].made
    BY <1>1 DEF RowType, Statuses
  <2>3. row[f].status = "done"
    BY <1>1, <1>3 DEF TypeOK, RowsOK
  <2> HIDE DEF again
  <2> QED
    BY <1>1, <2>1, <2>2, <2>3
<1>4. CASE row[f].status # "none" /\ ~(row[f].note = "suppressed" /\ FactsLevel >= verbosity)
  BY <1>1, <1>4 DEF Requested
<1> QED
  BY <1>2, <1>3, <1>4

\* What a claim writes of the rows and of its worker.
LEMMA LoadForm ==
    ASSUME ReportsInv, NEW w \in Workers, NEW r \in Facts \cup Updates,
           row[r].status \in {"pending", "due"},
           IF r \in Facts THEN LoadReport(w, r) ELSE LoadUpdate(w, r)
    PROVE  \E rec \in WorkerType :
             /\ worker' = [worker EXCEPT ![w] = rec]
             /\ rec.row = r /\ rec.at \in {"refresh", "send", "complete", "fail"}
             /\ rec.at \in {"refresh", "send"} => rec.shows \in Facts
             /\ rec.at = "refresh" => rec.stamp \in Facts
             /\ rec.at = "send" => rec.stamp \in Facts \cup {Nothing}
             /\ rec.at = "complete" => rec.stamp = "suppressed"
             /\ rec.at = "send" /\ r \in Updates /\ FactsLevel >= verbosity => reported # Nothing
<1> USE DEF ReportsInv, TypeOK, StateOK
<1> DEFINE Good(rec) ==
             /\ rec \in WorkerType
             /\ worker' = [worker EXCEPT ![w] = rec]
             /\ rec.row = r /\ rec.at \in {"refresh", "send", "complete", "fail"}
             /\ rec.at \in {"refresh", "send"} => rec.shows \in Facts
             /\ rec.at = "refresh" => rec.stamp \in Facts
             /\ rec.at = "send" => rec.stamp \in Facts \cup {Nothing}
             /\ rec.at = "complete" => rec.stamp = "suppressed"
             /\ rec.at = "send" /\ r \in Updates /\ FactsLevel >= verbosity => reported # Nothing
<1>0. r \in Rows /\ facts \in Facts /\ worker \in [Workers -> WorkerType]
  BY RowsDiffer
<1>1. ASSUME Returns(w, r, "suppressed") PROVE \E rec : Good(rec)
  <2> DEFINE rec == [Resting EXCEPT !.at = "complete", !.row = r, !.stamp = "suppressed"]
  <2>1. /\ rec \in WorkerType /\ rec.at = "complete" /\ rec.row = r /\ rec.stamp = "suppressed"
    BY <1>0 DEF Resting, WorkerType, Places, Outcomes
  <2>2. worker' = [worker EXCEPT ![w] = rec]
    BY <1>1 DEF Returns
  <2> HIDE DEF rec
  <2>3. Good(rec)
    BY <2>1, <2>2
  <2> QED
    BY <2>3
<1>2. ASSUME NEW place \in {"send", "refresh"}, NEW stamp \in Facts \cup {Nothing},
             Sends(w, r, place, stamp), place = "refresh" => stamp \in Facts,
             place = "send" /\ r \in Updates /\ FactsLevel >= verbosity => reported # Nothing
      PROVE  \E rec : Good(rec)
  <2> DEFINE rec == [at |-> place, row |-> r, shows |-> facts, stamp |-> stamp]
  <2>1. /\ rec \in WorkerType /\ rec.at = place /\ rec.row = r /\ rec.shows = facts /\ rec.stamp = stamp
    BY <1>0 DEF WorkerType, Places
  <2>2. worker' = [worker EXCEPT ![w] = rec]
    BY <1>2 DEF Sends
  <2> HIDE DEF rec
  <2>3. Good(rec)
    BY <1>0, <1>2, <2>1, <2>2
  <2> QED
    BY <2>3
<1>3. ASSUME worker' = [worker EXCEPT ![w] = [Resting EXCEPT !.at = "fail", !.row = r]]
      PROVE  \E rec : Good(rec)
  <2> DEFINE rec == [Resting EXCEPT !.at = "fail", !.row = r]
  <2>1. /\ rec \in WorkerType /\ rec.at = "fail" /\ rec.row = r
    BY <1>0 DEF Resting, WorkerType, Places
  <2> HIDE DEF rec
  <2>2. Good(rec)
    BY <1>3, <2>1 DEF rec
  <2> QED
    BY <2>2
<1> HIDE DEF Good
<1>4. CASE r \in Facts
  <2>1. r \notin Updates
    BY <1>4, RowsDiffer
  <2>2. Returns(w, r, "suppressed") \/ Sends(w, r, "send", r)
    BY <1>4 DEF LoadReport
  <2>3. \E rec : Good(rec)
    BY <1>1, <1>2, <1>4, <2>1, <2>2
  <2> QED
    BY <2>3 DEF Good
<1>5. CASE r \notin Facts
  <2>1. \/ Returns(w, r, "suppressed")
        \/ ~NeedsFacts /\ Sends(w, r, "send", Nothing)
        \/ FactsLevel < verbosity /\ Sends(w, r, "send", facts)
        \/ Sends(w, r, "refresh", facts)
        \/ worker' = [worker EXCEPT ![w] = [Resting EXCEPT !.at = "fail", !.row = r]]
    BY <1>5 DEF LoadUpdate
  <2>2. ~NeedsFacts => reported # Nothing
    BY <1>0, RowsDiffer DEF NeedsFacts
  <2>3. FactsLevel < verbosity => ~(FactsLevel >= verbosity)
    <3>1. verbosity \in Int
      BY CaseReportsConstants
    <3> QED
      BY <3>1 DEF FactsLevel
  <2>4. \E rec : Good(rec)
    BY <1>0, <1>1, <1>2, <1>3, <2>1, <2>2, <2>3
  <2> QED
    BY <2>4 DEF Good
<1> QED
  BY <1>4, <1>5

\* What it writes of the rows: it claims its own, and perhaps requests the
\* report of the facts, which nobody is working on.
LEMMA LoadRows ==
    ASSUME ReportsInv, NEW w \in Workers, NEW r \in Facts \cup Updates,
           row[r].status \in {"pending", "due"},
           IF r \in Facts THEN LoadReport(w, r) ELSE LoadUpdate(w, r)
    PROVE  /\ row' \in [Rows -> RowType] /\ now' \in Nat /\ now <= now'
           /\ row'[r].status = "claimed" /\ row'[r].note = row[r].note
           /\ row'[r].rev = row[r].rev /\ row'[r].made = row[r].made
           /\ \A s \in Rows : s # r /\ row'[s] # row[s] =>
                /\ s \in Facts /\ row[s].status \in {"none", "done"}
                /\ row'[s].status = "pending" /\ row'[s].note = "none"
                /\ row'[s].rev <= now' /\ row'[s].made <= now'
<1> USE DEF ReportsInv, TypeOK, StateOK
<1>0. r \in Rows /\ facts \in Facts /\ row[r] \in RowType /\ now \in Nat /\ row[r].rev \in Nat
      /\ row \in [Rows -> RowType] /\ row[r].rev <= now
  BY RowsDiffer DEF RowType, RowsOK
<1>1. CASE row' = [row EXCEPT ![r].status = "claimed"] /\ now' = now
  <2>1. row' = [row EXCEPT ![r] = [row[r] EXCEPT !.status = "claimed"]]
    BY <1>1
  <2>2. "claimed" \in Statuses
    BY DEF Statuses
  <2> QED
    BY <1>0, <1>1, <2>1, <2>2, StatusForm
<1>2. CASE /\ r \notin Facts
           /\ row' = [Requested(facts, row[r].rev) EXCEPT ![r].status = "claimed"]
           /\ now' = IF row[facts].status = "none" THEN now + 1 ELSE now
  <2> DEFINE q == Requested(facts, row[r].rev)
  <2>1. q \in [Rows -> RowType] /\ q[r] = row[r] /\ facts # r
    BY <1>0, <1>2, RequestedForm
  <2>2. row' = [q EXCEPT ![r] = [row[r] EXCEPT !.status = "claimed"]]
    BY <1>2, <2>1
  <2>3. now' \in Nat /\ now <= now'
    BY <1>0, <1>2
  <2>4. "claimed" \in Statuses
    BY DEF Statuses
  <2>5. ASSUME NEW s \in Rows, s # r, q[s] # row[s]
        PROVE  /\ s \in Facts /\ row[s].status \in {"none", "done"}
               /\ q[s].status = "pending" /\ q[s].note = "none"
               /\ q[s].rev <= now' /\ q[s].made <= now'
    <3>1. s = facts
      BY <1>0, <2>5, RequestedForm
    <3>2. /\ row[s].status \in {"none", "done"} /\ q[s].status = "pending" /\ q[s].note = "none"
          /\ \/ q[s].rev = row[r].rev /\ q[s].made = now
             \/ q[s].rev = row[s].rev /\ q[s].made = row[s].made
      BY <1>0, <2>5, <3>1, RequestedForm
    <3>3. row[s].rev <= now /\ row[s].made <= now /\ row[s].rev \in Nat /\ row[s].made \in Nat
      BY RowTyped DEF RowsOK
    <3> QED
      BY <1>0, <2>3, <3>1, <3>2, <3>3
  <2> HIDE DEF q
  <2> QED
    BY <1>0, <2>1, <2>2, <2>3, <2>4, <2>5, StatusForm
<1> QED
  BY <1>1, <1>2 DEF LoadReport, LoadUpdate

LEMMA ClaimKeeps ==
    ASSUME ReportsInv, NEW w \in Workers, NEW r \in Facts \cup Updates,
           row[r].status \in {"pending", "due"}, Claim(w, r)
    PROVE  ReportsInv'
<1>1. PICK rec \in WorkerType :
        /\ worker' = [worker EXCEPT ![w] = rec]
        /\ rec.row = r /\ rec.at \in {"refresh", "send", "complete", "fail"}
        /\ rec.at \in {"refresh", "send"} => rec.shows \in Facts
        /\ rec.at = "refresh" => rec.stamp \in Facts
        /\ rec.at = "send" => rec.stamp \in Facts \cup {Nothing}
        /\ rec.at = "complete" => rec.stamp = "suppressed"
        /\ rec.at = "send" /\ r \in Updates /\ FactsLevel >= verbosity => reported # Nothing
  BY LoadForm DEF Claim
<1>2. /\ row' \in [Rows -> RowType] /\ now' \in Nat /\ now <= now'
      /\ row'[r].status = "claimed" /\ row'[r].note = row[r].note
      /\ row'[r].rev = row[r].rev /\ row'[r].made = row[r].made
  BY LoadRows DEF Claim
<1>3. ASSUME NEW s \in Rows, s # r, row'[s] # row[s]
      PROVE  /\ s \in Facts /\ row[s].status \in {"none", "done"}
             /\ row'[s].status = "pending" /\ row'[s].note = "none"
             /\ row'[s].rev <= now' /\ row'[s].made <= now'
  BY <1>3, LoadRows DEF Claim
<1>4. /\ worker[w].at = "rest" /\ batch' = batch \ {r} /\ fresh' = fresh \ {r}
      /\ UNCHANGED <<facts, reported, spool, quarantine, tick, card, file, verbosity>>
  BY DEF Claim
<1>5. /\ worker'[w] = rec /\ \A v \in Workers : v # w => worker'[v] = worker[v]
      /\ worker' \in [Workers -> WorkerType]
  BY <1>1 DEF ReportsInv, TypeOK, StateOK
<1>6. r \in Rows /\ row[r].note = "none"
  BY RowsDiffer DEF ReportsInv, TypeOK, RowsOK
<1>7. StateOK'
  BY <1>2, <1>4, <1>5 DEF ReportsInv, TypeOK, StateOK
<1>8. RowsOK'
  <2>1. ASSUME NEW s \in Rows
        PROVE  /\ row'[s].rev <= now' /\ row'[s].made <= now'
               /\ row'[s].note # "none" <=> row'[s].status = "done"
    <3>1. row[s].rev <= now /\ row[s].made <= now /\ (row[s].note # "none" <=> row[s].status = "done")
      BY DEF ReportsInv, TypeOK, RowsOK
    <3>2. row[s].rev \in Nat /\ row[s].made \in Nat /\ now \in Nat
      BY RowTyped DEF ReportsInv, TypeOK, StateOK
    <3>3. CASE s = r
      BY <1>2, <1>6, <3>1, <3>2, <3>3
    <3>4. CASE s # r
      BY <1>2, <1>3, <3>1, <3>2, <3>4
    <3> QED
      BY <3>3, <3>4
  <2>2. fresh' \subseteq {s \in Facts \cup Updates : row'[s].status = "pending"}
    BY <1>3, <1>4, RowsDiffer DEF ReportsInv, TypeOK, RowsOK
  <2>3. batch' \subseteq {s \in Facts \cup Updates : row'[s].status \in {"pending", "due"}}
    BY <1>3, <1>4, RowsDiffer DEF ReportsInv, TypeOK, RowsOK
  <2> QED
    BY <2>1, <2>2, <2>3 DEF RowsOK
<1>9. \A v \in Workers : v # w /\ worker[v].at # "rest" => /\ worker[v].row \in Rows \ {r}
                                                          /\ row'[worker[v].row] = row[worker[v].row]
  BY <1>3, RowsDiffer DEF ReportsInv, TypeOK, HandlersOK
<1>10. HandlersOK'
  BY <1>1, <1>2, <1>5, <1>9 DEF ReportsInv, TypeOK, HandlersOK
<1>11. ContentsOK'
  BY <1>1, <1>5 DEF ReportsInv, TypeOK, ContentsOK, Outcomes
<1>12. UpdateIsKept'
  <2>1. ASSUME NEW u \in Updates, row'[u].made > 0
        PROVE  row'[u].status # "none" \/ u \in spool' \cup quarantine'
    <3>1. u = r \/ row'[u] = row[u]
      BY <1>3, RowsDiffer
    <3> QED
      BY <1>2, <1>4, <2>1, <3>1 DEF ReportsInv, UpdateIsKept
  <2> QED
    BY <2>1 DEF UpdateIsKept
<1>13. DeliveredInv'
  <2>1. ASSUME NEW s \in Rows, row'[s].note = "delivered" PROVE row'[s].rev <= file.rev
    <3>1. row'[s] = row[s]
      BY <1>2, <1>3, <1>6, <2>1
    <3> QED
      BY <2>1, <3>1 DEF ReportsInv, DeliveredInv
  <2>2. ASSUME NEW v \in Workers,
               worker'[v].at = "stamp" \/ (worker'[v].at = "complete" /\ worker'[v].stamp = "delivered")
        PROVE  row'[worker'[v].row].rev <= file.rev
    <3>1. v # w
      BY <1>1, <1>5, <2>2
    <3> QED
      BY <1>5, <1>9, <2>2, <3>1 DEF ReportsInv, DeliveredInv
  <2> QED
    BY <1>4, <2>1, <2>2 DEF ReportsInv, DeliveredInv
<1>14. FactsInv'
  BY <1>1, <1>4, <1>5 DEF ReportsInv, FactsInv
<1> QED
  BY <1>7, <1>8, <1>10, <1>11, <1>12, <1>13, <1>14 DEF ReportsInv, TypeOK

-----------------------------------------------------------------------------
(* Every step keeps the invariant. *)

\* Steps that make or change rows nobody works on, or none.
LEMMA QuietRows ==
    ASSUME ReportsInv, UNCHANGED <<reported, worker, card, file, verbosity, facts, tick, row, now,
                                   fresh, batch, spool, quarantine>>
    PROVE  ReportsInv'
BY DEF ReportsInv, TypeOK, StateOK, RowsOK, HandlersOK, ContentsOK, UpdateIsKept, DeliveredInv, FactsInv

LEMMA ObserveKeeps ==
    ASSUME ReportsInv, NEW f \in Facts, Observe(f)
    PROVE  ReportsInv'
<1> USE DEF ReportsInv, TypeOK, StateOK
<1>1. now \in Nat /\ row \in [Rows -> RowType] /\ f \in Rows
  BY RowsDiffer
<1>2. CASE row' = Requested(f, now) /\ now' = IF row[f].status = "none" THEN now + 1 ELSE now
  <2>1. row' \in [Rows -> RowType] /\ now' \in Nat /\ now <= now'
    BY <1>1, <1>2, RequestedForm
  <2>2. ASSUME NEW s \in Rows, row'[s] # row[s]
        PROVE  /\ s = f /\ row[s].status \in {"none", "done"}
               /\ row'[s].note = "none" /\ row'[s].status = "pending"
               /\ row'[s].rev <= now' /\ row'[s].made <= now'
    <3>1. s = f
      BY <1>1, <1>2, <2>2, RequestedForm
    <3>2. /\ row[s].status \in {"none", "done"} /\ row'[s].status = "pending" /\ row'[s].note = "none"
          /\ \/ row'[s].rev = now /\ row'[s].made = now
             \/ row'[s].rev = row[s].rev /\ row'[s].made = row[s].made
      BY <1>1, <1>2, <2>2, <3>1, RequestedForm
    <3>3. row[s].rev <= now /\ row[s].made <= now /\ row[s].rev \in Nat /\ row[s].made \in Nat
      BY RowTyped DEF RowsOK
    <3> QED
      BY <1>1, <2>1, <3>1, <3>2, <3>3
  <2>3. ASSUME NEW s \in Rows, row'[s] # row[s], NEW w \in Workers, worker[w].at # "rest"
        PROVE  worker[w].row # s
    BY <2>2, <2>3 DEF HandlersOK
  <2>4. fresh' \subseteq {s \in Facts \cup Updates : row'[s].status = "pending"}
    <3>1. fresh' \subseteq fresh \cup {s \in {f} : row'[s].status = "pending"}
      BY <1>2 DEF Observe
    <3>2. \A s \in fresh : s \in Rows /\ s \in Facts \cup Updates /\ row[s].status = "pending"
      BY RowsDiffer DEF RowsOK
    <3> QED
      BY <2>2, <3>1, <3>2
  <2>5. batch' \subseteq {s \in Facts \cup Updates : row'[s].status \in {"pending", "due"}}
    <3>1. \A s \in batch : s \in Rows /\ s \in Facts \cup Updates /\ row[s].status \in {"pending", "due"}
      BY RowsDiffer DEF RowsOK
    <3>2. batch' = batch
      BY DEF Observe
    <3> QED
      BY <2>2, <3>1, <3>2
  <2>6. UpdateIsKept'
    <3>1. \A u \in Updates : row'[u] = row[u]
      BY <2>2, RowsDiffer
    <3> QED
      BY <3>1 DEF UpdateIsKept, Observe
  <2>7. UNCHANGED <<reported, worker, card, file, verbosity, tick, spool, quarantine>> /\ facts' \in Facts
    BY DEF Observe
  <2> QED
    BY <2>1, <2>2, <2>3, <2>4, <2>5, <2>6, <2>7, RowStep
<1>3. CASE UNCHANGED <<row, now, fresh>>
  <2>1. UNCHANGED <<reported, worker, card, file, verbosity, tick, spool, quarantine, batch>> /\ facts' \in Facts
    BY DEF Observe
  <2>2. UpdateIsKept'
    BY <1>3, <2>1 DEF UpdateIsKept
  <2> QED
    BY <1>1, <1>3, <2>1, <2>2, RowStep DEF RowsOK
<1> QED
  BY <1>2, <1>3 DEF Observe

\* An update that is queued or retained.
LEMMA FinishKeeps ==
    ASSUME ReportsInv, NEW u \in Updates, Finish(u) \/ FinishRetained(u)
    PROVE  ReportsInv'
<1> USE DEF ReportsInv, TypeOK, StateOK
<1>1. now \in Nat /\ row \in [Rows -> RowType] /\ u \in Rows /\ row[u].status = "none"
  BY RowsDiffer DEF Finish, FinishRetained, Unsent
<1>2. row[u] \in RowType /\ row[u].note = "none"
  BY <1>1 DEF RowsOK
<1> DEFINE retained == [row[u] EXCEPT !.made = now, !.rev = now]
<1>3. /\ retained \in RowType /\ retained.status = "none" /\ retained.note = "none"
      /\ retained.rev = now /\ retained.made = now
  BY <1>1, <1>2 DEF RowType
<1>4. [row EXCEPT ![u].made = now, ![u].rev = now] = [row EXCEPT ![u] = retained]
  BY <1>1
<1>5. \/ row' = [row EXCEPT ![u] = NewRow(now)]
      \/ row' = [row EXCEPT ![u] = retained] /\ u \in spool'
  BY <1>4 DEF Finish, FinishRetained
<1> HIDE DEF retained
<1>6. /\ row' \in [Rows -> RowType] /\ \A s \in Rows : s # u => row'[s] = row[s]
      /\ row'[u].status \in {"none", "pending"} /\ row'[u].note = "none"
      /\ row'[u].rev = now /\ row'[u].made = now
      /\ row'[u].status = "none" => u \in spool'
      /\ Finish(u) => row'[u].status = "pending"
  <2>1. CASE row' = [row EXCEPT ![u] = NewRow(now)]
    BY <1>1, <2>1, NewRowForm
  <2>2. CASE row' = [row EXCEPT ![u] = retained] /\ u \in spool' /\ ~Finish(u)
    BY <1>1, <1>3, <2>2
  <2>3. Finish(u) => row' = [row EXCEPT ![u] = NewRow(now)]
    BY DEF Finish
  <2> QED
    BY <1>5, <2>1, <2>2, <2>3
<1>7. /\ UNCHANGED <<reported, worker, card, file, verbosity, facts, tick, quarantine, batch>> /\ now' = now + 1
      /\ spool \subseteq spool' /\ spool' \subseteq Updates
      /\ fresh' = fresh \/ (Finish(u) /\ fresh' = fresh \cup {u})
  BY DEF Finish, FinishRetained
<1>8. ASSUME NEW w \in Workers, worker[w].at # "rest" PROVE worker[w].row # u
  BY <1>1, <1>8 DEF HandlersOK
<1>9. fresh' \subseteq {s \in Facts \cup Updates : row'[s].status = "pending"}
  <2>1. \A s \in fresh : s \in Rows /\ s # u /\ s \in Facts \cup Updates /\ row[s].status = "pending"
    BY <1>1, RowsDiffer DEF RowsOK
  <2> QED
    BY <1>6, <1>7, <2>1
<1>10. batch' \subseteq {s \in Facts \cup Updates : row'[s].status \in {"pending", "due"}}
  <2>1. \A s \in batch : s \in Rows /\ s # u /\ s \in Facts \cup Updates /\ row[s].status \in {"pending", "due"}
    BY <1>1, RowsDiffer DEF RowsOK
  <2> QED
    BY <1>6, <1>7, <2>1
<1>11. UpdateIsKept'
  <2>1. ASSUME NEW v \in Updates, row'[v].made > 0
        PROVE  row'[v].status # "none" \/ v \in spool' \cup quarantine'
    <3>1. CASE v = u
      BY <1>6, <3>1
    <3>2. CASE v # u
      BY <1>6, <1>7, <2>1, <3>2, RowsDiffer DEF UpdateIsKept
    <3> QED
      BY <3>1, <3>2
  <2> QED
    BY <2>1 DEF UpdateIsKept
<1>12. now' \in Nat /\ now <= now'
  BY <1>1, <1>7
<1>13. \A s \in Rows : row'[s] # row[s] =>
         /\ \A w \in Workers : worker[w].at # "rest" => worker[w].row # s
         /\ row'[s].note = "none" /\ row'[s].status # "done"
         /\ row'[s].rev <= now' /\ row'[s].made <= now'
  BY <1>6, <1>8, <1>12
<1> QED
  BY <1>6, <1>7, <1>9, <1>10, <1>11, <1>12, <1>13, RowStep

\* A row whose status alone is written, while nobody works on it.
LEMMA StatusKeeps ==
    ASSUME ReportsInv, NEW r \in Rows, NEW st \in Statuses \ {"done", "none"},
           row' = [row EXCEPT ![r].status = st],
           row[r].status \notin {"pending", "due", "done"},
           \A w \in Workers : worker[w].at # "rest" => worker[w].row # r,
           UNCHANGED <<reported, worker, card, file, verbosity, facts, fresh, batch, now, spool, quarantine>>,
           tick' \in {"replay", "unlink"}
    PROVE  ReportsInv'
<1> USE DEF ReportsInv, TypeOK, StateOK
<1>1. row \in [Rows -> RowType] /\ row[r] \in RowType /\ now \in Nat
  OBVIOUS
<1>2. /\ row' \in [Rows -> RowType] /\ \A s \in Rows : s # r => row'[s] = row[s]
      /\ row'[r].status = st /\ row'[r].note = row[r].note
      /\ row'[r].rev = row[r].rev /\ row'[r].made = row[r].made
  BY <1>1, StatusForm
<1>3. row[r].note = "none" /\ row[r].rev <= now /\ row[r].made <= now
  BY DEF RowsOK
<1>4. fresh' \subseteq {s \in Facts \cup Updates : row'[s].status = "pending"}
  <2>1. \A s \in fresh : s \in Rows /\ s # r /\ s \in Facts \cup Updates /\ row[s].status = "pending"
    BY RowsDiffer DEF RowsOK
  <2> QED
    BY <1>2, <2>1
<1>5. batch' \subseteq {s \in Facts \cup Updates : row'[s].status \in {"pending", "due"}}
  <2>1. \A s \in batch : s \in Rows /\ s # r /\ s \in Facts \cup Updates /\ row[s].status \in {"pending", "due"}
    BY RowsDiffer DEF RowsOK
  <2> QED
    BY <1>2, <2>1
<1>6. UpdateIsKept'
  BY <1>2, RowsDiffer DEF UpdateIsKept
<1>7. now' \in Nat /\ now <= now'
  BY <1>1
<1>8. \A s \in Rows : row'[s] # row[s] =>
         /\ \A w \in Workers : worker[w].at # "rest" => worker[w].row # s
         /\ row'[s].note = "none" /\ row'[s].status # "done"
         /\ row'[s].rev <= now' /\ row'[s].made <= now'
  BY <1>2, <1>3
<1> QED
  BY <1>2, <1>4, <1>5, <1>6, <1>7, <1>8, RowStep

\* Steps of the loop and of the environment that write no row.
LEMMA RowlessStep ==
    ASSUME ReportsInv, UNCHANGED <<reported, worker, card, file, verbosity, row, now>>,
           facts' \in Facts, tick' \in {"replay", "unlink"}, fresh' \subseteq fresh, batch' \subseteq batch,
           spool' \subseteq Updates, quarantine' \subseteq Updates,
           \A u \in spool \cup quarantine : u \in spool' \cup quarantine' \/ row[u].status # "none"
    PROVE  ReportsInv'
<1>1. UpdateIsKept'
  BY DEF ReportsInv, UpdateIsKept
<1>2. /\ fresh' \subseteq {s \in Facts \cup Updates : row'[s].status = "pending"}
      /\ batch' \subseteq {s \in Facts \cup Updates : row'[s].status \in {"pending", "due"}}
  BY DEF ReportsInv, TypeOK, RowsOK
<1>3. now' \in Nat /\ now <= now' /\ row' \in [Rows -> RowType]
  BY DEF ReportsInv, TypeOK, StateOK
<1> QED
  BY <1>1, <1>2, <1>3, RowStep

LEMMA LoopKeeps ==
    ASSUME ReportsInv,
           \/ \E u \in Updates : Replay(u) \/ Unlink(u) \/ Quarantine(u)
           \/ \E f \in Facts : Transition(f)
           \/ ClaimFails
    PROVE  ReportsInv'
<1> USE DEF ReportsInv, TypeOK, StateOK
<1>1. ASSUME NEW u \in Updates, Replay(u) PROVE ReportsInv'
  <2>1. u \in Rows /\ row \in [Rows -> RowType]
    BY RowsDiffer
  <2>2. /\ UNCHANGED <<reported, worker, card, file, verbosity, facts, fresh, batch, now, spool, quarantine>>
        /\ tick' \in {"replay", "unlink"}
    BY <1>1 DEF Replay
  <2>3. CASE row[u].status = "none"
    <3>1. row' = [row EXCEPT ![u].status = "pending"]
      BY <1>1, <2>3 DEF Replay
    <3>2. \A w \in Workers : worker[w].at # "rest" => worker[w].row # u
      BY <2>3 DEF HandlersOK
    <3>3. "pending" \in Statuses \ {"done", "none"}
      BY DEF Statuses
    <3> QED
      BY <2>1, <2>2, <2>3, <3>1, <3>2, <3>3, StatusKeeps
  <2>4. CASE row[u].status # "none"
    <3>1. row' = [row EXCEPT ![u].status = row[u].status]
      BY <1>1, <2>4 DEF Replay
    <3>2. row' = row
      BY <2>1, <3>1 DEF RowType
    <3> QED
      BY <2>2, <3>2, RowlessStep
  <2> QED
    BY <2>3, <2>4
<1>2. ASSUME NEW u \in Updates, Unlink(u) PROVE ReportsInv'
  BY <1>2, RowlessStep DEF Unlink
<1>3. ASSUME NEW u \in Updates, Quarantine(u) PROVE ReportsInv'
  BY <1>3, RowlessStep DEF Quarantine
<1>4. ASSUME NEW f \in Facts, Transition(f) PROVE ReportsInv'
  BY <1>4, RowlessStep DEF Transition
<1>5. ASSUME ClaimFails PROVE ReportsInv'
  BY <1>5, RowlessStep DEF ClaimFails
<1> QED
  BY <1>1, <1>2, <1>3, <1>4, <1>5

\* A batch is read, and the expired claims are given back before.
LEMMA BatchKeeps ==
    ASSUME ReportsInv, StartBatch \/ StartBatchAfterFailedReplay
    PROVE  ReportsInv'
<1> USE DEF ReportsInv, TypeOK, StateOK
<1>1. /\ row' = Recovered /\ batch' = Handled(DueBatch) /\ batch = {}
      /\ UNCHANGED <<facts, reported, fresh, spool, quarantine, tick, worker, card, file, verbosity, now>>
  BY DEF StartBatch, StartBatchAfterFailedReplay, Between
<1>2. row \in [Rows -> RowType] /\ now \in Nat
  OBVIOUS
<1>3. ASSUME NEW r \in Rows
      PROVE  \/ row'[r] = row[r]
             \/ /\ row[r].status = "expired" /\ row'[r].status = "pending" /\ row'[r] \in RowType
                /\ row'[r].note = "none" /\ row'[r].rev = row[r].rev /\ row'[r].made = row[r].made
                /\ row'[r].rev <= now /\ row'[r].made <= now
  <2>1. row[r] \in RowType /\ (row[r].note # "none" <=> row[r].status = "done")
        /\ row[r].rev <= now /\ row[r].made <= now
    BY <1>2 DEF RowsOK
  <2>2. CASE row[r].status = "expired"
    <3>1. row'[r] = [row[r] EXCEPT !.status = "pending"]
      BY <1>1, <2>2 DEF Recovered
    <3> QED
      BY <2>1, <2>2, <3>1 DEF RowType, Statuses
  <2>3. CASE row[r].status # "expired"
    BY <1>1, <2>3 DEF Recovered
  <2> QED
    BY <2>2, <2>3
<1>4. row' \in [Rows -> RowType]
  <2>1. row' = [r \in Rows |-> row'[r]]
    BY <1>1 DEF Recovered
  <2>2. \A r \in Rows : row'[r] \in RowType
    BY <1>2, <1>3
  <2> QED
    BY <2>1, <2>2
<1>5. fresh' \subseteq {s \in Facts \cup Updates : row'[s].status = "pending"}
  <2>1. \A s \in fresh : s \in Rows /\ s \in Facts \cup Updates /\ row[s].status = "pending"
    BY RowsDiffer DEF RowsOK
  <2> QED
    BY <1>1, <1>3, <2>1
<1>6. batch' \subseteq {s \in Facts \cup Updates : row'[s].status \in {"pending", "due"}}
  <2>1. DueBatch \subseteq {r \in Rows : Recovered[r].status \in {"pending", "due"}}
    BY DEF DueBatch
  <2> QED
    BY <1>1, <2>1 DEF Handled, Rows
<1>7. UpdateIsKept'
  <2>1. ASSUME NEW u \in Updates, row'[u].made > 0
        PROVE  row'[u].status # "none" \/ u \in spool' \cup quarantine'
    BY <1>1, <1>3, <2>1, RowsDiffer DEF UpdateIsKept
  <2> QED
    BY <2>1 DEF UpdateIsKept
<1>8. \A s \in Rows : row'[s] # row[s] =>
         /\ \A w \in Workers : worker[w].at # "rest" => worker[w].row # s
         /\ row'[s].note = "none" /\ row'[s].status # "done"
         /\ row'[s].rev <= now' /\ row'[s].made <= now'
  BY <1>1, <1>3 DEF HandlersOK
<1> QED
  BY <1>1, <1>2, <1>4, <1>5, <1>6, <1>7, <1>8, RowStep

\* Time.
LEMMA TimeKeeps ==
    ASSUME ReportsInv, NEW r \in Rows, TimePasses(r)
    PROVE  ReportsInv'
<1>1. \A w \in Workers : worker[w].at # "rest" => worker[w].row # r
  BY DEF ReportsInv, TypeOK, HandlersOK, TimePasses, BackoffEnds, ClaimExpires, Orphaned
<1>2. tick \in {"replay", "unlink"}
  BY DEF ReportsInv, TypeOK, StateOK
<1>3. "due" \in Statuses \ {"done", "none"} /\ "expired" \in Statuses \ {"done", "none"}
  BY DEF Statuses
<1>4. CASE BackoffEnds(r)
  BY <1>1, <1>2, <1>3, <1>4, StatusKeeps DEF BackoffEnds
<1>5. CASE ClaimExpires(r)
  BY <1>1, <1>2, <1>3, <1>5, StatusKeeps DEF ClaimExpires, Orphaned
<1> QED
  BY <1>4, <1>5 DEF TimePasses

\* The card is deleted, or its six hours are over.
LEMMA CardKeeps ==
    ASSUME ReportsInv, DeleteCard \/ RefreshDue
    PROVE  ReportsInv'
<1>1. /\ UNCHANGED <<facts, reported, row, fresh, spool, quarantine, tick, batch, worker, verbosity, now>>
      /\ card' \in CardType /\ file' \in FileType /\ file'.rev = file.rev
      /\ card'.alive => card'.rev = card.rev /\ card.alive
  <2>1. CASE DeleteCard
    BY <2>1, Records DEF DeleteCard, ReportsInv, TypeOK, StateOK
  <2>2. CASE RefreshDue
    BY <2>2 DEF RefreshDue, ReportsInv, TypeOK, StateOK, FileType
  <2> QED
    BY <2>1, <2>2
<1> QED
  BY <1>1 DEF ReportsInv, TypeOK, StateOK, RowsOK, HandlersOK, ContentsOK, UpdateIsKept, DeliveredInv, FactsInv

\* A restart forgets the handlers and what was to be tried.
LEMMA RestartKeeps ==
    ASSUME ReportsInv, Restart
    PROVE  ReportsInv'
<1>1. /\ \A w \in Workers : worker'[w] = Resting
      /\ worker' \in [Workers -> WorkerType]
      /\ fresh' = {} /\ batch' = {} /\ tick' = "replay" /\ verbosity' \in Verbosities
      /\ UNCHANGED <<facts, reported, row, spool, quarantine, card, file, now>>
  BY Records DEF Restart
<1>2. StateOK'
  BY <1>1 DEF ReportsInv, TypeOK, StateOK
<1>3. RowsOK'
  BY <1>1 DEF ReportsInv, TypeOK, RowsOK
<1>4. HandlersOK' /\ ContentsOK' /\ FactsInv'
  BY <1>1, Records DEF HandlersOK, ContentsOK, FactsInv
<1>5. UpdateIsKept' /\ DeliveredInv'
  BY <1>1, Records DEF ReportsInv, UpdateIsKept, DeliveredInv
<1> QED
  BY <1>2, <1>3, <1>4, <1>5 DEF ReportsInv, TypeOK

\* The two forms of a handler's move: it goes on, or it returns.
LEMMA GoesForm ==
    ASSUME ReportsInv, NEW w \in Workers, NEW place \in Places, Goes(w, place)
    PROVE  \E rec \in WorkerType :
             /\ worker' = [worker EXCEPT ![w] = rec] /\ rec.at = place
             /\ rec.row = worker[w].row /\ rec.shows = worker[w].shows /\ rec.stamp = worker[w].stamp
<1> DEFINE rec == [worker[w] EXCEPT !.at = place]
<1>1. worker' = [worker EXCEPT ![w] = rec]
  BY DEF Goes
<1>2. worker[w] \in WorkerType
  BY DEF ReportsInv, TypeOK, StateOK
<1>3. /\ rec \in WorkerType /\ rec.at = place
      /\ rec.row = worker[w].row /\ rec.shows = worker[w].shows /\ rec.stamp = worker[w].stamp
  BY <1>2, WorkerForm
<1> HIDE DEF rec
<1> QED
  BY <1>1, <1>3

LEMMA ReturnsForm ==
    ASSUME NEW w \in Workers, NEW r \in Rows, NEW note \in Outcomes, Returns(w, r, note)
    PROVE  \E rec \in WorkerType :
             /\ worker' = [worker EXCEPT ![w] = rec] /\ rec.at = "complete"
             /\ rec.row = r /\ rec.stamp = note
<1> DEFINE rec == [Resting EXCEPT !.at = "complete", !.row = r, !.stamp = note]
<1>1. worker' = [worker EXCEPT ![w] = rec]
  BY DEF Returns
<1>2. rec \in WorkerType /\ rec.at = "complete" /\ rec.row = r /\ rec.stamp = note
  BY DEF Resting, WorkerType, Places
<1> HIDE DEF rec
<1> QED
  BY <1>1, <1>2

\* The card of a row that is being worked on.
LEMMA PayloadForm ==
    ASSUME ReportsInv, NEW w \in Workers, worker[w].at \in {"refresh", "send"}
    PROVE  /\ Payload(w).facts \in Facts /\ Payload(w).of \in Rows
           /\ Payload(w).of = IF worker[w].at = "refresh" THEN worker[w].shows ELSE worker[w].row
           /\ worker[w].at = "refresh" => Payload(w).of \in Facts
           /\ worker[w].row \in Rows /\ row[worker[w].row].rev \in Nat
<1>1. worker[w].shows \in Facts /\ worker[w].row \in Facts \cup Updates
  BY DEF ReportsInv, TypeOK, ContentsOK, HandlersOK
<1>2. row[worker[w].row].rev \in Nat
  BY <1>1, RowTyped, RowsDiffer DEF ReportsInv
<1> QED
  BY <1>1, <1>2, RowsDiffer DEF Payload

\* The card is sent: the handler goes on, has been superseded, or fails.
LEMMA SendKeeps ==
    ASSUME ReportsInv, NEW w \in Workers, SendFacts(w) \/ Send(w)
    PROVE  ReportsInv'
<1>1. PICK answer \in Answers, force \in BOOLEAN, place \in {"stampfirst", "stamp"} :
        /\ Deliver(Payload(w), row[worker[w].row].rev, force, answer)
        /\ Proceeds(w, answer, place)
        /\ worker[w].at = IF place = "stamp" THEN "send" ELSE "refresh"
  BY DEF SendFacts, Send
<1>2. UNCHANGED <<facts, reported, row, fresh, spool, quarantine, tick, batch, verbosity, now>>
  BY DEF SendFacts, Send
<1>3. worker[w].at \in {"refresh", "send"}
  BY <1>1
<1> DEFINE p == Payload(w)
           rev == row[worker[w].row].rev
<1>4. p.facts \in Facts /\ p.of \in Rows /\ rev \in Nat /\ worker[w].row \in Rows
  BY <1>3, PayloadForm
<1>5. Deliver(p, rev, force, answer)
  BY <1>1
<1> HIDE DEF p
<1>6. /\ card' \in CardType /\ file' \in FileType /\ file.rev <= file'.rev
      /\ card'.alive => card'.rev >= file'.rev
      /\ answer = "ok" => rev <= file'.rev
  <2> HIDE DEF rev
  <2> QED
    BY <1>4, <1>5, DeliverForm
<1>7. /\ reported' \in Facts \cup {Nothing} /\ (reported # Nothing => reported' # Nothing)
      /\ worker[w].shows \in Facts /\ worker[w].stamp \in Facts \cup {Nothing}
      /\ worker[w].at = "refresh" => worker[w].stamp \in Facts
  BY <1>2, <1>3 DEF ReportsInv, TypeOK, StateOK, ContentsOK
<1>8. CASE answer = "ok"
  <2>1. Goes(w, place) /\ place \in Places
    BY <1>1, <1>8 DEF Proceeds, Places
  <2>2. PICK rec \in WorkerType :
             /\ worker' = [worker EXCEPT ![w] = rec] /\ rec.at = place
             /\ rec.row = worker[w].row /\ rec.shows = worker[w].shows /\ rec.stamp = worker[w].stamp
    BY <2>1, GoesForm
  <2>3. batch' \subseteq batch /\ worker[w].at # "rest"
    BY <1>2, <1>3
  <2>4. /\ rec.at \in {"refresh", "stampfirst"} => rec.stamp \in Facts
        /\ rec.at \in {"send", "stamp"} => rec.stamp \in Facts \cup {Nothing}
        /\ rec.shows \in Facts /\ rec.at \notin {"complete", "send"}
        /\ row[rec.row].rev <= file'.rev
    BY <1>1, <1>6, <1>7, <1>8, <2>2
  <2> QED
    BY <1>2, <1>6, <1>7, <2>2, <2>3, <2>4, HandlerMoves
<1>9. CASE answer = "superseded"
  <2>1. Returns(w, worker[w].row, "superseded") /\ "superseded" \in Outcomes
    BY <1>1, <1>9 DEF Proceeds, Outcomes
  <2>2. PICK rec \in WorkerType :
             /\ worker' = [worker EXCEPT ![w] = rec] /\ rec.at = "complete"
             /\ rec.row = worker[w].row /\ rec.stamp = "superseded"
    BY <1>4, <2>1, ReturnsForm
  <2>3. batch' \subseteq batch /\ worker[w].at # "rest"
    BY <1>2, <1>3
  <2> QED
    BY <1>2, <1>6, <1>7, <2>1, <2>2, <2>3, HandlerMoves
<1>10. CASE answer \notin {"ok", "superseded"}
  <2>1. Goes(w, "fail") /\ "fail" \in Places
    BY <1>1, <1>10 DEF Proceeds, Places
  <2>2. PICK rec \in WorkerType :
             /\ worker' = [worker EXCEPT ![w] = rec] /\ rec.at = "fail"
             /\ rec.row = worker[w].row /\ rec.shows = worker[w].shows /\ rec.stamp = worker[w].stamp
    BY <2>1, GoesForm
  <2>3. batch' \subseteq batch /\ worker[w].at # "rest"
    BY <1>2, <1>3
  <2> QED
    BY <1>2, <1>6, <1>7, <2>2, <2>3, HandlerMoves
<1> QED
  BY <1>8, <1>9, <1>10

\* What arrived is recorded, or the handler is given up.
LEMMA StampsKeep ==
    ASSUME ReportsInv, NEW w \in Workers,
           StampFirst(w) \/ Stamp(w) \/ HandlerFails(w) \/ CompletionLost(w)
    PROVE  ReportsInv'
<1>0. /\ worker[w] \in WorkerType /\ card \in CardType /\ file \in FileType /\ file.rev \in Nat
      /\ reported \in Facts \cup {Nothing} /\ (card.alive => card.rev >= file.rev)
  BY DEF ReportsInv, TypeOK, StateOK, DeliveredInv, FileType
<1>1. CASE StampFirst(w)
  <2>1. /\ worker[w].at = "stampfirst" /\ reported' = worker[w].stamp
        /\ UNCHANGED <<facts, row, fresh, spool, quarantine, tick, batch, card, file, verbosity, now>>
    BY <1>1 DEF StampFirst
  <2>2. worker[w].stamp \in Facts /\ worker[w].shows \in Facts
    BY <2>1 DEF ReportsInv, TypeOK, ContentsOK
  <2> DEFINE rec == [worker[w] EXCEPT !.at = "send", !.stamp = Nothing]
  <2>3. worker' = [worker EXCEPT ![w] = rec]
    <3>1. worker' = [worker EXCEPT ![w].at = "send", ![w].stamp = Nothing]
      BY <1>1 DEF StampFirst
    <3>2. worker \in [Workers -> WorkerType]
      BY DEF ReportsInv, TypeOK, StateOK
    <3> QED
      BY <3>1, <3>2
  <2>4. /\ rec \in WorkerType /\ rec.at = "send" /\ rec.row = worker[w].row
        /\ rec.shows = worker[w].shows /\ rec.stamp = Nothing
    BY <1>0 DEF WorkerType, Places
  <2> HIDE DEF rec
  <2>5. reported' # Nothing /\ reported' \in Facts \cup {Nothing}
    BY <2>1, <2>2, RowsDiffer
  <2>6. card' \in CardType /\ file' \in FileType /\ file.rev <= file'.rev /\ (card'.alive => card'.rev >= file'.rev)
    BY <1>0, <2>1
  <2> QED
    BY <2>1, <2>2, <2>3, <2>4, <2>5, <2>6, HandlerMoves
<1>2. CASE Stamp(w)
  <2>1. /\ worker[w].at = "stamp"
        /\ reported' = IF worker[w].stamp = Nothing THEN reported ELSE worker[w].stamp
        /\ UNCHANGED <<facts, row, fresh, spool, quarantine, tick, batch, card, file, verbosity, now>>
        /\ Returns(w, worker[w].row, "delivered")
    BY <1>2 DEF Stamp
  <2>2. /\ worker[w].stamp \in Facts \cup {Nothing} /\ worker[w].row \in Rows
        /\ row[worker[w].row].rev <= file.rev
    BY <2>1, RowsDiffer DEF ReportsInv, TypeOK, ContentsOK, HandlersOK, DeliveredInv
  <2>3. "delivered" \in Outcomes
    BY DEF Outcomes
  <2>4. PICK rec \in WorkerType :
          /\ worker' = [worker EXCEPT ![w] = rec] /\ rec.at = "complete"
          /\ rec.row = worker[w].row /\ rec.stamp = "delivered"
    BY <2>1, <2>2, <2>3, ReturnsForm
  <2>5. reported' \in Facts \cup {Nothing} /\ (reported # Nothing => reported' # Nothing)
    BY <1>0, <2>1, <2>2
  <2>6. card' \in CardType /\ file' \in FileType /\ file.rev <= file'.rev /\ (card'.alive => card'.rev >= file'.rev)
    BY <1>0, <2>1
  <2>7. batch' \subseteq batch /\ row[rec.row].rev <= file'.rev
    BY <2>1, <2>2, <2>4
  <2> QED
    BY <2>1, <2>3, <2>4, <2>5, <2>6, <2>7, HandlerMoves
<1>3. CASE HandlerFails(w)
  <2>1. /\ worker[w].at # "rest" /\ Goes(w, "fail") /\ "fail" \in Places
        /\ UNCHANGED <<facts, reported, row, fresh, spool, quarantine, tick, batch, card, file, verbosity, now>>
    BY <1>3 DEF HandlerFails, Places
  <2>2. PICK rec \in WorkerType :
          /\ worker' = [worker EXCEPT ![w] = rec] /\ rec.at = "fail"
          /\ rec.row = worker[w].row /\ rec.shows = worker[w].shows /\ rec.stamp = worker[w].stamp
    BY <2>1, GoesForm
  <2>3. /\ batch' \subseteq batch /\ reported' \in Facts \cup {Nothing} /\ (reported # Nothing => reported' # Nothing)
        /\ card' \in CardType /\ file' \in FileType /\ file.rev <= file'.rev /\ (card'.alive => card'.rev >= file'.rev)
    BY <1>0, <2>1
  <2> QED
    BY <2>1, <2>2, <2>3, HandlerMoves
<1>4. CASE CompletionLost(w)
  <2>1. /\ worker' = [worker EXCEPT ![w] = Resting] /\ batch' \subseteq batch
        /\ UNCHANGED <<facts, reported, row, fresh, spool, quarantine, tick, card, file, verbosity, now>>
    BY <1>4 DEF CompletionLost
  <2>2. /\ reported' \in Facts \cup {Nothing} /\ (reported # Nothing => reported' # Nothing)
        /\ card' \in CardType /\ file' \in FileType /\ file.rev <= file'.rev /\ (card'.alive => card'.rev >= file'.rev)
    BY <1>0, <2>1
  <2> QED
    BY <2>1, <2>2, Records, HandlerMoves
<1> QED
  BY <1>1, <1>2, <1>3, <1>4

\* The row is completed, with how it ended, or its failure is recorded.
LEMMA SettleKeeps ==
    ASSUME ReportsInv, NEW w \in Workers, Complete(w) \/ Fail(w)
    PROVE  ReportsInv'
<1> USE DEF ReportsInv, TypeOK, StateOK
<1> DEFINE k == worker[w].row
<1>1. /\ worker[w].at # "rest" /\ worker' = [worker EXCEPT ![w] = Resting]
      /\ UNCHANGED <<facts, reported, fresh, spool, quarantine, tick, batch, card, file, verbosity, now>>
  BY DEF Complete, Fail
<1>2. k \in Facts \cup Updates /\ k \in Rows /\ row[k].status = "claimed" /\ row[k] \in RowType
  BY <1>1, RowsDiffer DEF HandlersOK
<1>3. row[k].note = "none" /\ row[k].rev <= now /\ row[k].made <= now /\ row \in [Rows -> RowType]
  BY <1>2 DEF RowsOK
<1>4. PICK new \in RowType :
        /\ row' = [row EXCEPT ![k] = new]
        /\ new.status \in {"done", "failed"} /\ (new.note # "none" <=> new.status = "done")
        /\ new.rev = row[k].rev /\ new.made = row[k].made
        /\ new.note = "delivered" => new.rev <= file.rev
  <2> DEFINE New(new) ==
        /\ new \in RowType
        /\ row' = [row EXCEPT ![k] = new]
        /\ new.status \in {"done", "failed"} /\ (new.note # "none" <=> new.status = "done")
        /\ new.rev = row[k].rev /\ new.made = row[k].made
        /\ new.note = "delivered" => new.rev <= file.rev
  <2>1. ASSUME Complete(w) PROVE \E new : New(new)
    <3> DEFINE new == [row[k] EXCEPT !.status = "done", !.note = worker[w].stamp]
    <3>1. worker[w].at = "complete" /\ row' = [row EXCEPT ![k] = new]
      BY <2>1 DEF Complete
    <3>2. worker[w].stamp \in Outcomes /\ (worker[w].stamp = "delivered" => row[k].rev <= file.rev)
      BY <3>1 DEF ContentsOK, DeliveredInv
    <3>3. worker[w].stamp # "none"
      BY <3>2 DEF Outcomes
    <3>4. "done" \in Statuses
      BY DEF Statuses
    <3>5. /\ new \in RowType /\ new.status = "done" /\ new.note = worker[w].stamp
          /\ new.rev = row[k].rev /\ new.made = row[k].made
      <4> HIDE DEF k
      <4>1. worker[w].stamp \in Outcomes \cup {"none"}
        BY <3>2
      <4> QED
        BY <1>2, <3>4, <4>1 DEF RowType
    <3> HIDE DEF new
    <3>6. New(new)
      BY <3>1, <3>2, <3>3, <3>5
    <3> QED
      BY <3>6
  <2>2. ASSUME Fail(w) PROVE \E new : New(new)
    <3> DEFINE new == [row[k] EXCEPT !.status = "failed"]
    <3>1. row' = [row EXCEPT ![k] = new]
      BY <2>2 DEF Fail
    <3>2. "failed" \in Statuses
      BY DEF Statuses
    <3>3. /\ new \in RowType /\ new.status = "failed" /\ new.note = "none"
          /\ new.rev = row[k].rev /\ new.made = row[k].made
      BY <1>2, <1>3, <3>2, StatusForm
    <3> HIDE DEF new
    <3>4. New(new)
      BY <3>1, <3>3
    <3> QED
      BY <3>4
  <2> QED
    BY <2>1, <2>2
<1> HIDE DEF k
<1>5. row'[k] = new /\ \A s \in Rows : s # k => row'[s] = row[s]
  BY <1>3, <1>2, <1>4
<1>6. /\ worker'[w] = Resting /\ \A v \in Workers : v # w => worker'[v] = worker[v]
      /\ worker' \in [Workers -> WorkerType]
  BY <1>1, Records
<1>7. StateOK'
  BY <1>1, <1>3, <1>4, <1>6
<1>8. RowsOK'
  <2>1. \A s \in Rows : /\ row'[s].rev <= now' /\ row'[s].made <= now'
                        /\ row'[s].note # "none" <=> row'[s].status = "done"
    BY <1>1, <1>3, <1>4, <1>5 DEF RowsOK
  <2>2. \A s \in fresh \cup batch : s \in Rows /\ s # k
    BY <1>2, RowsDiffer DEF RowsOK
  <2> QED
    BY <1>1, <1>5, <2>1, <2>2 DEF RowsOK
<1>9. ASSUME NEW v \in Workers, v # w, worker[v].at # "rest"
      PROVE  worker[v].row \in Rows /\ worker[v].row # k /\ row'[worker[v].row] = row[worker[v].row]
  BY <1>1, <1>5, <1>9, RowsDiffer DEF HandlersOK, k
<1>10. HandlersOK'
  BY <1>6, <1>9, Records DEF HandlersOK
<1>11. ContentsOK' /\ FactsInv'
  BY <1>1, <1>6, Records DEF ContentsOK, FactsInv
<1>12. UpdateIsKept'
  <2>1. ASSUME NEW u \in Updates, row'[u].made > 0
        PROVE  row'[u].status # "none" \/ u \in spool' \cup quarantine'
    BY <1>1, <1>4, <1>5, <2>1, RowsDiffer DEF UpdateIsKept
  <2> QED
    BY <2>1 DEF UpdateIsKept
<1>13. DeliveredInv'
  <2>1. \A s \in Rows : row'[s].note = "delivered" => row'[s].rev <= file.rev
    BY <1>4, <1>5 DEF DeliveredInv
  <2>2. \A v \in Workers :
          worker'[v].at = "stamp" \/ (worker'[v].at = "complete" /\ worker'[v].stamp = "delivered")
            => row'[worker'[v].row].rev <= file.rev
    BY <1>6, <1>9, Records DEF DeliveredInv
  <2> QED
    BY <1>1, <2>1, <2>2 DEF DeliveredInv
<1> QED
  BY <1>7, <1>8, <1>10, <1>11, <1>12, <1>13

LEMMA NextReports == ReportsInv /\ [Next]_vars => ReportsInv'
<1> SUFFICES ASSUME ReportsInv, [Next]_vars PROVE ReportsInv'
  OBVIOUS
<1>1. CASE Input
  BY <1>1, ObserveKeeps, LoopKeeps, FinishKeeps, CardKeeps, RestartKeeps DEF Input
<1>2. \A r \in batch : r \in Facts \cup Updates /\ row[r].status \in {"pending", "due"}
  BY DEF ReportsInv, TypeOK, RowsOK
<1>3. \A r \in fresh : r \in Facts \cup Updates /\ row[r].status \in {"pending", "due"}
  BY DEF ReportsInv, TypeOK, RowsOK
<1>4. CASE ClaimNext
  <2>1. PICK r \in batch : Claim("loop", r)
    BY <1>4 DEF ClaimNext
  <2>2. "loop" \in Workers
    BY DEF Workers
  <2> QED
    BY <1>2, <2>1, <2>2, ClaimKeeps
<1>5. CASE TaskStep
  <2>1. PICK r \in Rows : r \in fresh /\ Claim("task", r)
    BY <1>5 DEF TaskStep, Attempt
  <2>2. "task" \in Workers
    BY DEF Workers
  <2> QED
    BY <1>3, <2>1, <2>2, ClaimKeeps
<1>6. CASE LoopStep
  BY <1>4, <1>6, BatchKeeps, LoopKeeps DEF LoopStep
<1>7. CASE LoopFault
  BY <1>7, BatchKeeps, LoopKeeps DEF LoopFault
<1>8. ASSUME NEW w \in Workers, HandlerStep(w) \/ HandlerFault(w) PROVE ReportsInv'
  BY <1>8, SendKeeps, StampsKeep, SettleKeeps DEF HandlerStep, HandlerFault
<1>9. ASSUME NEW r \in Rows, TimePasses(r) PROVE ReportsInv'
  BY <1>9, TimeKeeps
<1>10. CASE UNCHANGED vars
  BY <1>10, QuietRows DEF vars
<1> QED
  BY <1>1, <1>5, <1>6, <1>7, <1>8, <1>9, <1>10 DEF Next

-----------------------------------------------------------------------------
(* The theorems. *)

\* Whatever is stored, sent, lost, refused, retried or restarted, the inductive
\* invariant of the report handlers and the outbox loop holds.
THEOREM ReportsInvariant == Spec => []ReportsInv
BY InitReports, NextReports, PTL DEF Spec

\* Every claimed row is worked on by at most one worker, and what the workers,
\* the card and its file hold has its type (src/app/cases/outbox.py:83-93).
THEOREM ReportsTyped == Spec => []TypeOK
<1>1. ReportsInv => TypeOK
  BY DEF ReportsInv
<1> QED
  BY <1>1, ReportsInvariant, PTL

\* An update that was queued or retained stays in the outbox, the spool or the
\* quarantine (report_spool.py:142-176).
THEOREM UpdatesAreKept == Spec => []UpdateIsKept
<1>1. ReportsInv => UpdateIsKept
  BY DEF ReportsInv
<1> QED
  BY <1>1, ReportsInvariant, PTL

\* The card, while it exists, is never of an older revision than what was
\* recorded as delivered (case_cards.py:91-102).
THEOREM DeliveredNeverReplaced == Spec => []DeliveredStays
<1>1. ReportsInv => DeliveredStays
  <2> SUFFICES ASSUME ReportsInv, card.alive, NEW r \in Rows, row[r].note = "delivered"
               PROVE  card.rev >= row[r].rev
    BY DEF DeliveredStays
  <2>1. card.rev >= file.rev /\ row[r].rev <= file.rev
    BY DEF ReportsInv, DeliveredInv
  <2>2. card.rev \in Nat /\ file.rev \in Nat /\ row[r].rev \in Nat
    BY RowTyped DEF ReportsInv, TypeOK, StateOK, CardType, FileType
  <2> QED
    BY <2>1, <2>2
<1> QED
  BY <1>1, ReportsInvariant, PTL

\* A card comes to show an update only when facts were reported before, unless
\* the verbosity excludes them (handlers.py:133-171): the facts are stamped
\* before the update they precede is sent, and never forgotten.
THEOREM FactsComeFirst == Spec => FactsFirst
<1>1. ReportsInv /\ [Next]_vars
        => [(card'.of \in Updates /\ card'.of # card.of /\ FactsLevel >= verbosity)
              => reported # Nothing]_vars
  <2> SUFFICES ASSUME ReportsInv, Next, card'.of \in Updates, card'.of # card.of, FactsLevel >= verbosity
               PROVE  reported # Nothing
    BY DEF vars
  <2>1. card' # card
    OBVIOUS
  <2>2. ~DeleteCard
    BY Records, RowsDiffer DEF DeleteCard
  <2>3. PICK w \in Workers : SendFacts(w) \/ Send(w)
    BY <2>1, <2>2 DEF Next, Input, Observe, Transition, Finish, FinishRetained, RefreshDue, Restart,
         LoopStep, StartBatch, ClaimNext, Claim, Replay, Unlink, LoopFault, ClaimFails,
         StartBatchAfterFailedReplay, Quarantine, TaskStep, Attempt, HandlerStep, StampFirst, Stamp,
         Complete, Fail, HandlerFault, HandlerFails, CompletionLost, TimePasses, BackoffEnds, ClaimExpires
  <2>4. PICK answer \in Answers, force \in BOOLEAN :
          Deliver(Payload(w), row[worker[w].row].rev, force, answer)
    BY <2>3 DEF SendFacts, Send
  <2>5. worker[w].at \in {"refresh", "send"}
    BY <2>3 DEF SendFacts, Send
  <2>6. /\ Payload(w).facts \in Facts /\ Payload(w).of \in Rows /\ row[worker[w].row].rev \in Nat
        /\ Payload(w).of = IF worker[w].at = "refresh" THEN worker[w].shows ELSE worker[w].row
        /\ worker[w].at = "refresh" => Payload(w).of \in Facts
    BY <2>5, PayloadForm
  <2>7. card'.of \in {card.of, Payload(w).of}
    BY <2>4, <2>6, DeliverForm
  <2>8. worker[w].at = "send" /\ worker[w].row \in Updates
    BY <2>5, <2>6, <2>7, RowsDiffer
  <2> QED
    BY <2>8 DEF ReportsInv, FactsInv
<1> QED
  BY <1>1, ReportsInvariant, PTL DEF Spec, FactsFirst
===============================================================================
