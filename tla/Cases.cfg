SPECIFICATION MCSpec
CONSTANTS
    p = p
    q = q
    r = r
    w1 = w1
    w2 = w2
    Source = {p, q, r}
    Alias <- MCAlias
    First <- MCFirst
    More <- MCMore
    Storm = {{p, q}, {p, q, r}}
    Atomic = {1, 3, 4}
    Meta = {0, 2}
    Nobody = Nobody
    Process = {w1, w2}
    Nothing = Nothing
    Requests <- MCRequests
    Summaries <- MCSummaries
    Worker = {w1, w2}
    Outcome = {"o1"}
    Question = {"q1", "q2"}
    Citation = {"x", "y"}
    Guarded = {"o1"}
    Decisions = {"approved"}
    Reviewer = {"r1"}
SYMMETRY Symmetry
INVARIANTS MembershipInv OneCasePerSource LinksCauseDeadlocks ApprovedAsRead ReferencesHold
CHECK_DEADLOCK FALSE
