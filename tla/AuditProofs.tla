----------------------------- MODULE AuditProofs -----------------------------
(***************************************************************************)
(* Proofs about Audit, for any quotes, sessions, tasks and bounds.         *)
(***************************************************************************)
EXTENDS Audit, TLAPS

-----------------------------------------------------------------------------
(* Rows.                                                                   *)

LEMMA NoRowIsNone ==
  /\ \A r \in QuoteRow : r # NoRow
  /\ \A r \in AttemptRow : r # NoRow
BY AuditAssumption

\* Setting a status changes nothing else.
LEMMA WithStatusRows ==
  ASSUME NEW K, NEW table \in [K -> QuoteRow \cup {NoRow}], NEW these,
         NEW status \in {"quoted", "claimed", "expired", "rejected_unconfirmed",
                         "invalidated_restart", "confirmed", "failed"}
  PROVE  /\ WithStatus(table, these, status) \in [K -> QuoteRow \cup {NoRow}]
         /\ \A k \in K :
              LET new == WithStatus(table, these, status)[k]
              IN /\ new = NoRow <=> table[k] = NoRow
                 /\ k \notin these => new = table[k]
                 /\ table[k] # NoRow =>
                      /\ new.session = table[k].session /\ new.expires_at = table[k].expires_at
                      /\ k \in these => new.status = status
<1>1. DOMAIN table = K
  OBVIOUS
<1>2. ASSUME NEW k \in K, table[k] # NoRow
      PROVE  /\ [table[k] EXCEPT !.status = status] \in QuoteRow
             /\ [table[k] EXCEPT !.status = status].session = table[k].session
             /\ [table[k] EXCEPT !.status = status].expires_at = table[k].expires_at
             /\ [table[k] EXCEPT !.status = status].status = status
  BY <1>2 DEF QuoteRow
<1> QED
  BY <1>1, <1>2, NoRowIsNone DEF WithStatus

LEMMA WithStatusAttempts ==
  ASSUME NEW K, NEW table \in [K -> AttemptRow \cup {NoRow}], NEW these,
         NEW status \in {"claimed", "expired", "rejected_unconfirmed", "confirmed", "failed"}
  PROVE  /\ WithStatus(table, these, status) \in [K -> AttemptRow \cup {NoRow}]
         /\ \A k \in K :
              LET new == WithStatus(table, these, status)[k]
              IN /\ new = NoRow <=> table[k] = NoRow
                 /\ k \notin these => new = table[k]
                 /\ table[k] # NoRow => new.quote = table[k].quote
                 /\ table[k] # NoRow /\ k \in these => new.status = status
<1>1. DOMAIN table = K
  OBVIOUS
<1>2. ASSUME NEW k \in K, table[k] # NoRow
      PROVE  /\ [table[k] EXCEPT !.status = status] \in AttemptRow
             /\ [table[k] EXCEPT !.status = status].quote = table[k].quote
             /\ [table[k] EXCEPT !.status = status].status = status
  BY <1>2 DEF AttemptRow
<1> QED
  BY <1>1, <1>2, NoRowIsNone DEF WithStatus

\* The jobs are told apart by their stage.
LEMMA JobKinds ==
  ASSUME TypeOK, NEW t \in Tasks
  PROVE  /\ job[t].stage \in {"idle", "reading", "executing", "executed"}
         /\ job[t] = Idle <=> job[t].stage = "idle"
         /\ job[t].stage = "reading" =>
              /\ job[t].row \in QuoteRow /\ job[t].quote \in Quotes
              /\ job[t].confirmed \in BOOLEAN /\ job[t].at \in Times
         /\ Works(t) => job[t].attempt \in AttemptIds
         /\ job[t].stage = "executed" => job[t].result \in Results
BY DEF TypeOK, Idle, Reading, Executing, Executed, Works

\* QuoteShowsItsAttempt, without sets.
Matches(Q, A) ==
  /\ \A a \in AttemptIds : A[a] # NoRow =>
       LET row == Q[A[a].quote]
       IN row # NoRow => row.status = A[a].status /\ row.status \notin {"quoted", "invalidated_restart"}
  /\ \A a, b \in AttemptIds : A[a] # NoRow /\ A[b] # NoRow /\ A[a].quote = A[b].quote => a = b
  /\ \A q \in Quotes : Q[q] # NoRow /\ Q[q].status \notin {"quoted", "invalidated_restart"} =>
       \E a \in AttemptIds : A[a] # NoRow /\ A[a].quote = q

LEMMA MatchesIsEnough ==
  ASSUME NEW Q, NEW A,
         \A a \in AttemptIds : A[a] # NoRow => A[a].quote \in Quotes /\ Q[A[a].quote] # NoRow
  PROVE  Matches(Q, A) <=>
           \A q \in Quotes : Q[q] # NoRow =>
             LET mine == {a \in AttemptIds : A[a] # NoRow /\ A[a].quote = q}
             IN IF Q[q].status \in {"quoted", "invalidated_restart"} THEN mine = {}
                ELSE \E a \in mine : mine = {a} /\ A[a].status = Q[q].status
<1> DEFINE mine(q) == {a \in AttemptIds : A[a] # NoRow /\ A[a].quote = q}
           Shows == \A q \in Quotes : Q[q] # NoRow =>
                      IF Q[q].status \in {"quoted", "invalidated_restart"} THEN mine(q) = {}
                      ELSE \E a \in mine(q) : mine(q) = {a} /\ A[a].status = Q[q].status
<1>1. ASSUME Shows
      PROVE  Matches(Q, A)
  <2>1. ASSUME NEW a \in AttemptIds, A[a] # NoRow
        PROVE  LET q == A[a].quote
               IN /\ Q[q].status \notin {"quoted", "invalidated_restart"}
                  /\ A[a].status = Q[q].status
                  /\ \A b \in AttemptIds : A[b] # NoRow /\ A[b].quote = q => a = b
    BY <1>1, <2>1
  <2>2. \A q \in Quotes :
          Q[q] # NoRow /\ Q[q].status \notin {"quoted", "invalidated_restart"} =>
            \E a \in AttemptIds : A[a] # NoRow /\ A[a].quote = q
    BY <1>1
  <2> QED
    BY <2>1, <2>2 DEF Matches
<1>2. ASSUME Matches(Q, A)
      PROVE  Shows
  BY <1>2 DEF Matches
<1> QED
  BY <1>1, <1>2

LEMMA AttemptsHaveQuotes ==
  ASSUME IInv
  PROVE  /\ \A a \in AttemptIds : attempts[a] # NoRow =>
              /\ attempts[a] \in AttemptRow
              /\ attempts[a].quote \in Quotes /\ quotes[attempts[a].quote] # NoRow
         /\ Matches(quotes, attempts)
<1>1. \A a \in AttemptIds : attempts[a] # NoRow =>
        /\ attempts[a] \in AttemptRow
        /\ attempts[a].quote \in Quotes /\ quotes[attempts[a].quote] # NoRow
  BY DEF IInv, TypeOK, AttemptRow
<1>2. Matches(quotes, attempts)
  BY <1>1, MatchesIsEnough DEF IInv, QuoteShowsItsAttempt
<1> QED
  BY <1>1, <1>2

\* What the parts of the invariant follow from, after a step.
LEMMA StillShows ==
  ASSUME TypeOK', Matches(quotes', attempts')
  PROVE  QuoteShowsItsAttempt'
<1>1. \A a \in AttemptIds : attempts'[a] # NoRow =>
        attempts'[a].quote \in Quotes /\ quotes'[attempts'[a].quote] # NoRow
  BY DEF TypeOK, AttemptRow
<1> QED
  BY <1>1, MatchesIsEnough DEF QuoteShowsItsAttempt

-----------------------------------------------------------------------------
(* Sessions and quotes.                                                    *)

\* A commit leaves no snapshot that may still be written from.
LEMMA Committed ==
  ASSUME Commits
  PROVE  SnapshotOK'
BY DEF Commits, SnapshotOK

\* Steps that leave attempts and jobs alone.
LEMMA SameWork ==
  ASSUME IInv, UNCHANGED <<attempts, next_id, job, outcome>>
  PROVE  WorkOK' /\ ResultsAreTheirOwn'
BY DEF IInv, WorkOK, ResultsAreTheirOwn, Works

LEMMA Opens ==
  ASSUME IInv, NEW s \in Sessions, open(s)
  PROVE  IInv'
<1> DEFINE these == {q \in Quotes : quotes[q] # NoRow /\ quotes[q].status = "quoted"}
<1>1. quotes' = WithStatus(quotes, these, "invalidated_restart")
  BY DEF open
<1>2. quotes \in [Quotes -> QuoteRow \cup {NoRow}]
  BY DEF IInv, TypeOK
<1>3. /\ quotes' \in [Quotes -> QuoteRow \cup {NoRow}]
      /\ \A q \in Quotes : quotes'[q] = NoRow <=> quotes[q] = NoRow
      /\ \A q \in Quotes : q \notin these => quotes'[q] = quotes[q]
      /\ \A q \in these : quotes'[q].status = "invalidated_restart"
  BY <1>1, <1>2, WithStatusRows
<1> HIDE DEF these
<1>4. TypeOK'
  BY <1>3, AttemptsHaveQuotes DEF IInv, TypeOK, open, Commits
<1>5. Matches(quotes', attempts')
  <2>1. \A q \in these : quotes[q] # NoRow /\ quotes[q].status = "quoted"
    BY DEF these
  <2> QED
    BY <1>3, <2>1, AttemptsHaveQuotes DEF Matches, open, these
<1>6. QuotedIsLive'
  BY <1>3 DEF QuotedIsLive, these
<1> QED
  BY <1>4, <1>5, <1>6, StillShows, Committed, SameWork DEF IInv, open

LEMMA Quoted ==
  ASSUME IInv, NEW s \in Sessions, NEW q \in Quotes, NEW expires_at \in Times,
         record_quote(s, q, expires_at)
  PROVE  IInv'
<1> DEFINE row == [session |-> s, status |-> "quoted", expires_at |-> expires_at,
                   created_at |-> now]
<1>1. row \in QuoteRow /\ row # NoRow /\ row.status = "quoted" /\ row.session = s
  BY NoRowIsNone DEF IInv, TypeOK, QuoteRow
<1>2. quotes[q] = NoRow /\ quotes' = [quotes EXCEPT ![q] = row] /\ s = live
  BY DEF record_quote
<1>3. quotes \in [Quotes -> QuoteRow \cup {NoRow}]
  BY DEF IInv, TypeOK
<1> HIDE DEF row
<1>4. quotes'[q] = row /\ \A p \in Quotes : p # q => quotes'[p] = quotes[p]
  BY <1>2, <1>3
<1>5. TypeOK'
  BY <1>1, <1>2, <1>3, <1>4, AttemptsHaveQuotes
     DEF IInv, TypeOK, record_quote, sessions, Commits
<1>6. Matches(quotes', attempts')
  BY <1>1, <1>2, <1>4, AttemptsHaveQuotes DEF Matches, record_quote
<1>7. QuotedIsLive'
  BY <1>1, <1>2, <1>4 DEF IInv, QuotedIsLive, record_quote, sessions
<1> QED
  BY <1>5, <1>6, <1>7, StillShows, Committed, SameWork DEF IInv, record_quote

LEMMA Pruned ==
  ASSUME IInv, NEW older_than \in Times, prune(older_than)
  PROVE  IInv'
<1> DEFINE gone == {q \in Quotes : quotes[q] # NoRow /\ quotes[q].created_at < older_than}
<1>1. /\ quotes' = [q \in Quotes |-> IF q \in gone THEN NoRow ELSE quotes[q]]
      /\ attempts' = [a \in AttemptIds |-> IF a \in AttemptsOf(gone) THEN NoRow ELSE attempts[a]]
      /\ refs' = refs \ AttemptsOf(gone)
      /\ Commits /\ UNCHANGED <<sessions, next_id, job, now, outcome>>
  BY DEF prune
<1> HIDE DEF gone
<1>2. \A a \in AttemptIds : a \in AttemptsOf(gone) <=> attempts[a] # NoRow /\ attempts[a].quote \in gone
  BY DEF AttemptsOf
<1>3. /\ \A q \in Quotes : quotes'[q] = IF q \in gone THEN NoRow ELSE quotes[q]
      /\ \A a \in AttemptIds : attempts'[a] = IF a \in AttemptsOf(gone) THEN NoRow ELSE attempts[a]
  BY <1>1
<1>4. TypeOK'
  <2>1. /\ quotes' \in [Quotes -> QuoteRow \cup {NoRow}]
        /\ attempts' \in [AttemptIds -> AttemptRow \cup {NoRow}]
    BY <1>1 DEF IInv, TypeOK
  <2>2. \A a \in AttemptIds : attempts'[a] # NoRow => quotes'[attempts'[a].quote] # NoRow
    BY <1>2, <1>3, AttemptsHaveQuotes
  <2>3. refs' \subseteq {a \in AttemptIds : attempts'[a] # NoRow}
    BY <1>1, <1>3 DEF IInv, TypeOK
  <2> QED
    BY <1>1, <2>1, <2>2, <2>3 DEF IInv, TypeOK, sessions, Commits
<1>5. Matches(quotes', attempts')
  BY <1>2, <1>3, AttemptsHaveQuotes DEF Matches
<1>6. QuotedIsLive'
  BY <1>1, <1>3 DEF IInv, QuotedIsLive, sessions
<1>7. WorkOK' /\ ResultsAreTheirOwn'
  <2>1. \A t \in Tasks : Works(t) => job[t].attempt \in AttemptIds
    BY JobKinds DEF IInv
  <2> QED
    BY <1>1, <1>3, <2>1 DEF IInv, WorkOK, ResultsAreTheirOwn, Works
<1> QED
  BY <1>1, <1>4, <1>5, <1>6, <1>7, StillShows, Committed DEF IInv

-----------------------------------------------------------------------------
(* Claiming, executing, recording.                                         *)

\* Steps that leave the tables alone.
LEMMA SameTables ==
  ASSUME IInv, UNCHANGED <<quotes, attempts, live>>
  PROVE  QuoteShowsItsAttempt' /\ QuotedIsLive'
BY DEF IInv, QuoteShowsItsAttempt, QuotedIsLive

LEMMA Reads ==
  ASSUME IInv, NEW t \in Tasks, NEW s \in Sessions, NEW q \in Quotes, NEW confirmed \in BOOLEAN,
         ReadQuote(t, s, q, confirmed)
  PROVE  IInv'
<1> DEFINE read == [stage |-> "reading", row |-> quotes[q], quote |-> q,
                    confirmed |-> confirmed, at |-> now]
<1>1. /\ job' = [job EXCEPT ![t] = read] /\ stale' = stale \ {t}
      /\ UNCHANGED <<sessions, quotes, attempts, refs, next_id, now, outcome>>
  BY DEF ReadQuote
<1>2. read \in Reading /\ read.stage = "reading" /\ read.row = quotes[q] /\ read.quote = q
  BY DEF IInv, TypeOK, ReadQuote, Reading
<1> HIDE DEF read
<1>3. job'[t] = read /\ \A u \in Tasks : u # t => job'[u] = job[u]
  BY <1>1 DEF IInv, TypeOK
<1>4. TypeOK'
  BY <1>1, <1>2 DEF IInv, TypeOK, sessions
<1>5. WorkOK' /\ ResultsAreTheirOwn'
  <2>1. \A u \in Tasks : Works(u)' => u # t /\ job'[u] = job[u]
    BY <1>2, <1>3 DEF Works
  <2> QED
    BY <1>1, <1>2, <1>3, <2>1 DEF IInv, WorkOK, ResultsAreTheirOwn, Works
<1>6. SnapshotOK'
  BY <1>1, <1>2, <1>3 DEF IInv, SnapshotOK
<1> QED
  BY <1>1, <1>4, <1>5, <1>6, SameTables DEF IInv, sessions

\* What claim_quote does, in parts.
LEMMA ClaimStep ==
  ASSUME IInv, NEW t \in Tasks, claim_quote(t)
  PROVE  LET q == job[t].quote
             id == next_id
             status == next_status(job[t].row, job[t].at, job[t].confirmed)
             made == [quote |-> q, status |-> status]
         IN /\ q \in Quotes /\ id \in AttemptIds
            /\ status \in {"claimed", "expired", "rejected_unconfirmed"}
            /\ quotes[q] # NoRow /\ quotes[q].status = "quoted"
            /\ quotes[q] = job[t].row /\ quotes[q].session = live
            /\ attempts[id] = NoRow /\ outcome[id] = "none"
            /\ made \in AttemptRow /\ made # NoRow /\ made.quote = q /\ made.status = status
            /\ quotes' \in [Quotes -> QuoteRow \cup {NoRow}]
            /\ quotes'[q] # NoRow /\ quotes'[q].status = status
            /\ \A p \in Quotes : p # q => quotes'[p] = quotes[p]
            /\ attempts' = [attempts EXCEPT ![id] = made]
            /\ next_id' = id + 1
            /\ job' = [job EXCEPT ![t] = IF status = "claimed"
                                         THEN [stage |-> "executing", attempt |-> id] ELSE Idle]
            /\ Commits /\ UNCHANGED <<sessions, refs, now, outcome>>
<1> DEFINE q == job[t].quote
           status == next_status(job[t].row, job[t].at, job[t].confirmed)
           made == [quote |-> q, status |-> status]
<1>1. q \in Quotes
  BY JobKinds DEF IInv, claim_quote
<1>2. status \in {"claimed", "expired", "rejected_unconfirmed"}
  BY DEF next_status
<1>3. /\ quotes[q] # NoRow /\ quotes[q].status = "quoted"
      /\ next_id \in AttemptIds
      /\ quotes' = WithStatus(quotes, {q}, status)
      /\ attempts' = [attempts EXCEPT ![next_id] = made]
      /\ next_id' = next_id + 1
      /\ job' = [job EXCEPT ![t] = IF status = "claimed"
                                   THEN [stage |-> "executing", attempt |-> next_id] ELSE Idle]
      /\ Commits /\ UNCHANGED <<sessions, refs, now, outcome>>
  BY DEF claim_quote, FreeId
<1>4. quotes[q] = job[t].row
  BY DEF IInv, SnapshotOK, claim_quote
<1>5. quotes[q].session = live
  BY <1>1, <1>3 DEF IInv, QuotedIsLive
<1>6. attempts[next_id] = NoRow /\ outcome[next_id] = "none"
  BY <1>3 DEF IInv, WorkOK, AttemptIds
<1>7. made \in AttemptRow /\ made # NoRow /\ made.quote = q /\ made.status = status
  BY <1>1, <1>2, NoRowIsNone DEF AttemptRow
<1> HIDE DEF q, status, made
<1>8. /\ quotes' \in [Quotes -> QuoteRow \cup {NoRow}]
      /\ quotes'[q] # NoRow /\ quotes'[q].status = status
      /\ \A p \in Quotes : p # q => quotes'[p] = quotes[p]
  <2>1. quotes \in [Quotes -> QuoteRow \cup {NoRow}]
    BY DEF IInv, TypeOK
  <2>2. status \in {"quoted", "claimed", "expired", "rejected_unconfirmed", "invalidated_restart",
                   "confirmed", "failed"}
    BY <1>2
  <2> DEFINE new == WithStatus(quotes, {q}, status)
  <2>3. /\ new \in [Quotes -> QuoteRow \cup {NoRow}]
        /\ \A p \in Quotes : /\ new[p] = NoRow <=> quotes[p] = NoRow
                             /\ p \notin {q} => new[p] = quotes[p]
                             /\ quotes[p] # NoRow /\ p \in {q} => new[p].status = status
    BY <2>1, <2>2, WithStatusRows
  <2>4. quotes' = new
    BY <1>3
  <2> HIDE DEF new
  <2>5. quotes' \in [Quotes -> QuoteRow \cup {NoRow}]
    BY <2>3, <2>4
  <2>6. q \in Quotes /\ quotes[q] # NoRow
    BY <1>1, <1>3
  <2>7. quotes'[q] # NoRow /\ quotes'[q].status = status
    BY <2>3, <2>4, <2>6
  <2>8. \A p \in Quotes : p # q => quotes'[p] = quotes[p]
    BY <2>3, <2>4
  <2> QED
    BY <2>5, <2>7, <2>8
<1> QED
  BY <1>1, <1>2, <1>3, <1>4, <1>5, <1>6, <1>7, <1>8 DEF q, status, made

LEMMA Claims ==
  ASSUME IInv, NEW t \in Tasks, claim_quote(t)
  PROVE  IInv'
<1> DEFINE q == job[t].quote
           status == next_status(job[t].row, job[t].at, job[t].confirmed)
           made == [quote |-> q, status |-> status]
           next == IF status = "claimed" THEN [stage |-> "executing", attempt |-> next_id] ELSE Idle
<1>1. /\ q \in Quotes /\ next_id \in AttemptIds
      /\ status \in {"claimed", "expired", "rejected_unconfirmed"}
      /\ quotes[q] # NoRow /\ quotes[q].status = "quoted"
      /\ attempts[next_id] = NoRow /\ outcome[next_id] = "none"
      /\ made \in AttemptRow /\ made # NoRow /\ made.quote = q /\ made.status = status
      /\ quotes' \in [Quotes -> QuoteRow \cup {NoRow}]
      /\ quotes'[q] # NoRow /\ quotes'[q].status = status
      /\ \A p \in Quotes : p # q => quotes'[p] = quotes[p]
      /\ attempts' = [attempts EXCEPT ![next_id] = made]
      /\ next_id' = next_id + 1
      /\ job' = [job EXCEPT ![t] = next]
      /\ Commits /\ UNCHANGED <<sessions, refs, now, outcome>>
  BY ClaimStep
<1>2. /\ next \in Executing \cup {Idle}
      /\ next.stage = IF status = "claimed" THEN "executing" ELSE "idle"
      /\ status = "claimed" => next.attempt = next_id
  BY <1>1 DEF Executing, Idle
<1> HIDE DEF q, status, made, next
<1>3. /\ attempts'[next_id] = made
      /\ \A a \in AttemptIds : a # next_id => attempts'[a] = attempts[a]
      /\ attempts' \in [AttemptIds -> AttemptRow \cup {NoRow}]
  BY <1>1 DEF IInv, TypeOK
<1>4. job'[t] = next /\ \A u \in Tasks : u # t => job'[u] = job[u]
  BY <1>1 DEF IInv, TypeOK
<1>5. TypeOK'
  <2>1. \A a \in AttemptIds : attempts'[a] # NoRow => quotes'[attempts'[a].quote] # NoRow
    BY <1>1, <1>3, AttemptsHaveQuotes
  <2>2. refs' \subseteq {a \in AttemptIds : attempts'[a] # NoRow}
    BY <1>1, <1>3 DEF IInv, TypeOK
  <2>3. next_id' \in 1 .. MaxAttempts + 1
    BY <1>1, AuditAssumption DEF AttemptIds
  <2>4. job' \in [Tasks -> {Idle} \cup Reading \cup Executing \cup Executed]
    BY <1>1, <1>2 DEF IInv, TypeOK
  <2> QED
    BY <1>1, <1>3, <2>1, <2>2, <2>3, <2>4 DEF IInv, TypeOK, sessions, Commits
<1>6. Matches(quotes', attempts')
  BY <1>1, <1>3, AttemptsHaveQuotes DEF Matches
<1>7. QuotedIsLive'
  BY <1>1 DEF IInv, QuotedIsLive, sessions
<1>8. WorkOK'
  <2>1. \A u \in Tasks : Works(u) => job[u].attempt \in AttemptIds /\ job[u].attempt < next_id
    BY JobKinds DEF IInv, WorkOK
  <2>2. \A u \in Tasks : Works(u)' =>
          \/ u = t /\ job'[u].attempt = next_id /\ job'[u].stage = "executing"
          \/ u # t /\ Works(u) /\ job'[u] = job[u]
    BY <1>2, <1>4 DEF Works
  <2>3. next_id \in Nat /\ AttemptIds \subseteq Nat
    BY <1>1 DEF AttemptIds
  <2>4. \A a \in AttemptIds : a >= next_id' => attempts'[a] = NoRow /\ outcome'[a] = "none"
    BY <1>1, <1>3, <2>3 DEF IInv, WorkOK
  <2>5. \A u \in Tasks : Works(u)' => job'[u].attempt < next_id'
    <3> SUFFICES ASSUME NEW u \in Tasks, Works(u)'
                 PROVE  job'[u].attempt < next_id + 1
      BY <1>1
    <3>1. job'[u].attempt = next_id \/ (job'[u].attempt \in Nat /\ job'[u].attempt < next_id)
      BY <2>1, <2>2, <2>3
    <3> QED
      BY <2>3, <3>1
  <2>6. \A u, v \in Tasks :
          Works(u)' /\ Works(v)' /\ job'[u].attempt = job'[v].attempt => u = v
    BY <2>1, <2>2, <2>3 DEF IInv, WorkOK
  <2>7. \A u \in Tasks : job'[u].stage = "executed" => outcome'[job'[u].attempt] = job'[u].result
    BY <1>1, <2>2 DEF IInv, WorkOK, Works
  <2> QED
    BY <2>4, <2>5, <2>6, <2>7 DEF WorkOK
<1>9. ResultsAreTheirOwn'
  <2>1. \A u \in Tasks : u # t /\ Works(u) => job[u].attempt # next_id /\ job[u].attempt \in AttemptIds
    BY JobKinds DEF IInv, WorkOK, AttemptIds
  <2>2. \A u \in Tasks : Works(u)' =>
          \/ u = t /\ job'[u].attempt = next_id /\ status = "claimed"
          \/ u # t /\ Works(u) /\ job'[u] = job[u]
    BY <1>2, <1>4 DEF Works
  <2>3. \A a \in AttemptIds :
          attempts'[a] # NoRow /\ attempts'[a].status \in Results => outcome'[a] = attempts'[a].status
    BY <1>1, <1>3 DEF IInv, ResultsAreTheirOwn, Results
  <2>4. \A u \in Tasks : Works(u)' =>
          attempts'[job'[u].attempt] = NoRow \/ attempts'[job'[u].attempt].status = "claimed"
    BY <1>1, <1>3, <2>1, <2>2 DEF IInv, ResultsAreTheirOwn, Works
  <2> QED
    BY <2>3, <2>4 DEF ResultsAreTheirOwn, Works
<1> QED
  BY <1>1, <1>5, <1>6, <1>7, <1>8, <1>9, StillShows, Committed DEF IInv

LEMMA Executes ==
  ASSUME IInv, NEW t \in Tasks, NEW result \in Results, Execute(t, result)
  PROVE  IInv'
<1> DEFINE a == job[t].attempt
           next == [stage |-> "executed", attempt |-> a, result |-> result]
<1>1. /\ job[t].stage = "executing"
      /\ job' = [job EXCEPT ![t] = next]
      /\ outcome' = [outcome EXCEPT ![a] = result]
      /\ UNCHANGED <<sessions, quotes, attempts, refs, next_id, stale, now>>
  BY DEF Execute
<1>2. Works(t) /\ a \in AttemptIds
  BY <1>1, JobKinds DEF IInv, Works
<1>3. next \in Executed /\ next.stage = "executed" /\ next.attempt = a /\ next.result = result
  BY <1>2 DEF Executed
<1> HIDE DEF next
<1>4. job'[t] = next /\ \A u \in Tasks : u # t => job'[u] = job[u]
  BY <1>1 DEF IInv, TypeOK
<1> HIDE DEF a
<1>5. outcome'[a] = result /\ \A b \in AttemptIds : b # a => outcome'[b] = outcome[b]
  BY <1>1, <1>2 DEF IInv, TypeOK
<1>6. TypeOK'
  BY <1>1, <1>2, <1>3 DEF IInv, TypeOK, sessions
<1>7. \A u \in Tasks : Works(u) =>
        /\ job[u].attempt \in AttemptIds /\ job[u].attempt < next_id
        /\ u # t => job[u].attempt # a
  BY <1>2, JobKinds DEF IInv, WorkOK, a
<1>8. \A u \in Tasks :
        \/ u = t /\ job'[u].stage = "executed" /\ job'[u].attempt = a /\ job'[u].result = result
        \/ u # t /\ job'[u] = job[u]
  BY <1>3, <1>4
<1>9. WorkOK'
  <2>1. a < next_id /\ next_id \in Nat /\ AttemptIds \subseteq Nat
    BY <1>2, <1>7 DEF IInv, TypeOK, AttemptIds, a
  <2>2. \A b \in AttemptIds : b >= next_id => b # a
    BY <1>2, <2>1
  <2>3. \A b \in AttemptIds : b >= next_id' => attempts'[b] = NoRow /\ outcome'[b] = "none"
    BY <1>1, <1>5, <2>2 DEF IInv, WorkOK
  <2>4. \A u \in Tasks : Works(u)' => job'[u].attempt < next_id'
    BY <1>1, <1>7, <1>8, <2>1 DEF Works
  <2>5. \A u, v \in Tasks :
          Works(u)' /\ Works(v)' /\ job'[u].attempt = job'[v].attempt => u = v
    BY <1>7, <1>8 DEF IInv, WorkOK, Works
  <2>6. \A u \in Tasks : job'[u].stage = "executed" => outcome'[job'[u].attempt] = job'[u].result
    BY <1>5, <1>7, <1>8 DEF IInv, WorkOK, Works
  <2> QED
    BY <2>3, <2>4, <2>5, <2>6 DEF WorkOK
<1>10. ResultsAreTheirOwn'
  <2>1. attempts[a] = NoRow \/ attempts[a].status = "claimed"
    BY <1>2 DEF IInv, ResultsAreTheirOwn, Works, a
  <2>2. \A b \in AttemptIds :
          attempts'[b] # NoRow /\ attempts'[b].status \in Results => outcome'[b] = attempts'[b].status
    BY <1>1, <1>5, <2>1 DEF IInv, ResultsAreTheirOwn, Results
  <2>3. \A u \in Tasks : Works(u)' =>
          attempts'[job'[u].attempt] = NoRow \/ attempts'[job'[u].attempt].status = "claimed"
    BY <1>1, <1>8, <2>1 DEF IInv, ResultsAreTheirOwn, Works
  <2> QED
    BY <2>2, <2>3 DEF ResultsAreTheirOwn, Works
<1>11. SnapshotOK'
  BY <1>1, <1>8 DEF IInv, SnapshotOK
<1> QED
  BY <1>1, <1>6, <1>9, <1>10, <1>11, SameTables DEF IInv, sessions

\* A task that becomes idle disturbs nobody's work.
LEMMA Rests ==
  ASSUME IInv, NEW t \in Tasks, job' = [job EXCEPT ![t] = Idle], UNCHANGED <<next_id, outcome>>,
         \A a \in AttemptIds : a >= next_id => attempts'[a] = NoRow
  PROVE  /\ WorkOK' /\ \A u \in Tasks : Works(u)' => u # t /\ Works(u) /\ job'[u] = job[u]
         /\ \A u \in Tasks : job'[u].stage = "reading" => job'[u] = job[u]
         /\ job' \in [Tasks -> {Idle} \cup Reading \cup Executing \cup Executed]
<1>1. job'[t] = Idle /\ \A u \in Tasks : u # t => job'[u] = job[u]
  BY DEF IInv, TypeOK
<1>2. \A u \in Tasks : Works(u)' => u # t /\ Works(u) /\ job'[u] = job[u]
  BY <1>1 DEF Works, Idle
<1>3. \A u \in Tasks : job'[u].stage = "reading" => job'[u] = job[u]
  BY <1>1 DEF Idle
<1>4. job' \in [Tasks -> {Idle} \cup Reading \cup Executing \cup Executed]
  BY DEF IInv, TypeOK
<1>5. WorkOK'
  <2>1. \A a \in AttemptIds : a >= next_id' => attempts'[a] = NoRow /\ outcome'[a] = "none"
    BY DEF IInv, WorkOK
  <2>2. \A u \in Tasks : job'[u].stage = "executed" => Works(u)'
    BY DEF Works
  <2> QED
    BY <1>2, <2>1, <2>2 DEF IInv, WorkOK
<1> QED
  BY <1>2, <1>3, <1>4, <1>5

LEMMA Records ==
  ASSUME IInv, NEW t \in Tasks, NEW transactions \in BOOLEAN, record_execution(t, transactions)
  PROVE  IInv'
<1> DEFINE a == job[t].attempt
           status == job[t].result
<1>1. /\ job[t].stage = "executed"
      /\ transactions => status = "confirmed" /\ attempts[a] # NoRow
      /\ refs' = IF transactions THEN refs \cup {a} ELSE refs
      /\ attempts' = WithStatus(attempts, {a}, status)
      /\ quotes' = WithStatus(quotes, QuoteOf(a), status)
      /\ job' = [job EXCEPT ![t] = Idle]
      /\ Commits /\ UNCHANGED <<sessions, next_id, now, outcome>>
  BY DEF record_execution
<1>2. /\ a \in AttemptIds /\ status \in Results /\ Works(t)
      /\ outcome[a] = status /\ a < next_id
      /\ attempts[a] = NoRow \/ attempts[a].status = "claimed"
  BY <1>1, JobKinds DEF IInv, Works, WorkOK, ResultsAreTheirOwn
<1>3. \A q \in Quotes : q \in QuoteOf(a) <=> attempts[a] # NoRow /\ attempts[a].quote = q
  BY DEF QuoteOf
<1>4. \A u \in Tasks : Works(u) /\ u # t => job[u].attempt # a /\ job[u].attempt \in AttemptIds
  BY <1>2, JobKinds DEF IInv, WorkOK
<1> HIDE DEF a, status
<1>5. /\ attempts' \in [AttemptIds -> AttemptRow \cup {NoRow}]
      /\ \A b \in AttemptIds :
           /\ attempts'[b] = NoRow <=> attempts[b] = NoRow
           /\ b # a => attempts'[b] = attempts[b]
           /\ attempts[b] # NoRow => attempts'[b].quote = attempts[b].quote
      /\ attempts[a] # NoRow => attempts'[a].status = status
  <2>1. attempts \in [AttemptIds -> AttemptRow \cup {NoRow}]
    BY DEF IInv, TypeOK
  <2>2. status \in {"confirmed", "failed"}
    BY <1>2 DEF Results
  <2> DEFINE new == WithStatus(attempts, {a}, status)
  <2>3. /\ new \in [AttemptIds -> AttemptRow \cup {NoRow}]
        /\ \A b \in AttemptIds : /\ new[b] = NoRow <=> attempts[b] = NoRow
                                 /\ b \notin {a} => new[b] = attempts[b]
                                 /\ attempts[b] # NoRow => /\ new[b].quote = attempts[b].quote
                                                           /\ b \in {a} => new[b].status = status
    BY <2>1, <2>2, WithStatusAttempts
  <2>4. attempts' = new
    BY <1>1
  <2> HIDE DEF new
  <2>5. attempts' \in [AttemptIds -> AttemptRow \cup {NoRow}]
    BY <2>3, <2>4
  <2>6. \A b \in AttemptIds :
          /\ attempts'[b] = NoRow <=> attempts[b] = NoRow
          /\ b # a => attempts'[b] = attempts[b]
          /\ attempts[b] # NoRow => attempts'[b].quote = attempts[b].quote
    BY <2>3, <2>4
  <2>7. attempts[a] # NoRow => attempts'[a].status = status
    BY <1>2, <2>3, <2>4
  <2> QED
    BY <2>5, <2>6, <2>7
<1>6. /\ quotes' \in [Quotes -> QuoteRow \cup {NoRow}]
      /\ \A q \in Quotes :
           /\ quotes'[q] = NoRow <=> quotes[q] = NoRow
           /\ q \notin QuoteOf(a) => quotes'[q] = quotes[q]
           /\ quotes[q] # NoRow /\ q \in QuoteOf(a) => quotes'[q].status = status
  <2>1. quotes \in [Quotes -> QuoteRow \cup {NoRow}]
    BY DEF IInv, TypeOK
  <2> QED
    BY <1>1, <1>2, <2>1, WithStatusRows DEF Results
<1>7. \A b \in AttemptIds : b >= next_id => attempts'[b] = NoRow
  BY <1>5 DEF IInv, WorkOK
<1>8. /\ WorkOK' /\ \A u \in Tasks : Works(u)' => u # t /\ Works(u) /\ job'[u] = job[u]
      /\ job' \in [Tasks -> {Idle} \cup Reading \cup Executing \cup Executed]
  BY <1>1, <1>7, Rests
<1>9. TypeOK'
  <2>1. \A b \in AttemptIds : attempts'[b] # NoRow => quotes'[attempts'[b].quote] # NoRow
    BY <1>5, <1>6, AttemptsHaveQuotes
  <2>2. refs' \subseteq {b \in AttemptIds : attempts'[b] # NoRow}
    BY <1>1, <1>2, <1>5 DEF IInv, TypeOK
  <2> QED
    BY <1>1, <1>5, <1>6, <1>8, <2>1, <2>2 DEF IInv, TypeOK, sessions, Commits
<1>10. Matches(quotes', attempts')
  <2>1. status \notin {"quoted", "invalidated_restart"}
    BY <1>2 DEF Results
  <2> QED
    BY <1>2, <1>3, <1>5, <1>6, <2>1, AttemptsHaveQuotes DEF Matches
<1>11. QuotedIsLive'
  <2>1. status # "quoted"
    BY <1>2 DEF Results
  <2> QED
    BY <1>1, <1>6, <2>1 DEF IInv, QuotedIsLive, sessions
<1>12. ResultsAreTheirOwn'
  <2>1. \A b \in AttemptIds :
          attempts'[b] # NoRow /\ attempts'[b].status \in Results => outcome'[b] = attempts'[b].status
    BY <1>1, <1>2, <1>5 DEF IInv, ResultsAreTheirOwn
  <2>2. \A u \in Tasks : Works(u)' =>
          attempts'[job'[u].attempt] = NoRow \/ attempts'[job'[u].attempt].status = "claimed"
    BY <1>4, <1>5, <1>8 DEF IInv, ResultsAreTheirOwn, Works
  <2> QED
    BY <2>1, <2>2 DEF ResultsAreTheirOwn, Works
<1> QED
  BY <1>1, <1>8, <1>9, <1>10, <1>11, <1>12, StillShows, Committed DEF IInv

LEMMA Failing ==
  ASSUME IInv, NEW t \in Tasks, Fails(t)
  PROVE  IInv'
<1>1. /\ job' = [job EXCEPT ![t] = Idle]
      /\ UNCHANGED <<sessions, quotes, attempts, refs, next_id, stale, now, outcome>>
  BY DEF Fails
<1>2. \A a \in AttemptIds : a >= next_id => attempts'[a] = NoRow
  BY <1>1 DEF IInv, WorkOK
<1>3. /\ WorkOK' /\ \A u \in Tasks : Works(u)' => u # t /\ Works(u) /\ job'[u] = job[u]
      /\ \A u \in Tasks : job'[u].stage = "reading" => job'[u] = job[u]
      /\ job' \in [Tasks -> {Idle} \cup Reading \cup Executing \cup Executed]
  BY <1>1, <1>2, Rests
<1>4. TypeOK'
  BY <1>1, <1>3 DEF IInv, TypeOK, sessions
<1>5. ResultsAreTheirOwn'
  BY <1>1, <1>3 DEF IInv, ResultsAreTheirOwn, Works
<1>6. SnapshotOK'
  BY <1>1, <1>3 DEF IInv, SnapshotOK
<1> QED
  BY <1>1, <1>3, <1>4, <1>5, <1>6, SameTables DEF IInv, sessions

-----------------------------------------------------------------------------
(* The theorems.                                                           *)

LEMMA Inductive ==
  ASSUME IInv, [Next]_vars
  PROVE  IInv'
<1>1. CASE Tick \/ UNCHANGED vars
  <2>1. UNCHANGED <<sessions, quotes, attempts, refs, next_id, job, stale, outcome>>
    BY <1>1 DEF Tick, vars, sessions
  <2>2. TypeOK'
    BY <1>1, <2>1, AuditAssumption DEF IInv, TypeOK, Tick, vars, Times, sessions
  <2>3. SnapshotOK'
    BY <2>1 DEF IInv, SnapshotOK
  <2> QED
    BY <2>1, <2>2, <2>3, SameTables, SameWork DEF IInv, sessions
<1> QED
  BY <1>1, Opens, Quoted, Pruned, Reads, Claims, Executes, Records, Failing DEF Next

LEMMA Initial == Init => IInv
<1> SUFFICES ASSUME Init
             PROVE  IInv
  OBVIOUS
<1>1. \A t \in Tasks : job[t].stage = "idle"
  BY DEF Init, Idle
<1>2. TypeOK
  BY AuditAssumption DEF Init, TypeOK, Times
<1> QED
  BY <1>1, <1>2
     DEF Init, IInv, QuoteShowsItsAttempt, QuotedIsLive, ResultsAreTheirOwn, WorkOK, SnapshotOK,
         Works

\* The invariant holds throughout, whichever processes start, whatever they
\* claim and whatever is pruned meanwhile.
THEOREM Invariance == Spec => []IInv
<1>1. IInv /\ [Next]_vars => IInv'
  BY Inductive
<1> QED
  BY Initial, <1>1, PTL DEF Spec

\* The tables and the calls keep their types: among them that every attempt is of a
\* quote that is stored.
THEOREM TypesHold == Spec => []TypeOK
<1>1. IInv => TypeOK
  BY DEF IInv
<1> QED
  BY Invariance, <1>1, PTL

\* A consumed quote has exactly one attempt, with its status (ports.rs:
\* "Consumes a quote and creates an attempt atomically, even if rejected").
THEOREM OneAttempt == Spec => []QuoteShowsItsAttempt
<1>1. IInv => QuoteShowsItsAttempt
  BY DEF IInv
<1> QED
  BY Invariance, <1>1, PTL

\* A quote that may still be claimed belongs to the session that started last.
THEOREM RestartInvalidates == Spec => []QuotedIsLive
<1>1. IInv => QuotedIsLive
  BY DEF IInv
<1> QED
  BY Invariance, <1>1, PTL

\* Results are recorded with the attempt they belong to, and an attempt with
\* a result is not executed.
THEOREM OwnResults == Spec => []ResultsAreTheirOwn
<1>1. IInv => ResultsAreTheirOwn
  BY DEF IInv
<1> QED
  BY Invariance, <1>1, PTL

LEMMA DueStep ==
  ASSUME IInv, [Next]_vars, NEW t \in Tasks, job[t].stage # "executing",
         job'[t].stage = "executing"
  PROVE  /\ job[t].confirmed /\ job[t].row.session = live
         /\ job[t].at < quotes[job[t].quote].expires_at
<1>1. PICK u \in Tasks : claim_quote(u)
  <2>1. ASSUME NEW u \in Tasks, NEW next, job' = [job EXCEPT ![u] = next],
               next.stage # "executing"
        PROVE  FALSE
    BY <2>1 DEF IInv, TypeOK
  <2>2. ~UNCHANGED job
    OBVIOUS
  <2>3. ASSUME NEW u \in Tasks, NEW s \in Sessions, NEW q \in Quotes, NEW confirmed \in BOOLEAN,
               ReadQuote(u, s, q, confirmed)
        PROVE  FALSE
    BY <2>1, <2>3 DEF ReadQuote
  <2>4. ASSUME NEW u \in Tasks, NEW result \in Results, Execute(u, result)
        PROVE  FALSE
    BY <2>1, <2>4 DEF Execute
  <2>5. ASSUME NEW u \in Tasks, NEW flag \in BOOLEAN, record_execution(u, flag)
        PROVE  FALSE
    BY <2>1, <2>5 DEF record_execution, Idle
  <2>6. ASSUME NEW u \in Tasks, Fails(u)
        PROVE  FALSE
    BY <2>1, <2>6 DEF Fails, Idle
  <2> QED
    BY <2>2, <2>3, <2>4, <2>5, <2>6 DEF Next, open, record_quote, prune, Tick, vars
<1> DEFINE status == next_status(job[u].row, job[u].at, job[u].confirmed)
<1>2. /\ job' = [job EXCEPT ![u] = IF status = "claimed"
                                   THEN [stage |-> "executing", attempt |-> next_id] ELSE Idle]
      /\ quotes[job[u].quote] = job[u].row /\ quotes[job[u].quote].session = live
  BY <1>1, ClaimStep
<1>3. u = t
  BY <1>2 DEF IInv, TypeOK
<1>4. status = "claimed"
  BY <1>2, <1>3 DEF IInv, TypeOK, Idle
<1>5. job[t].row \in QuoteRow /\ job[t].at \in Times /\ job[t].confirmed \in BOOLEAN
  BY <1>1, <1>3, JobKinds DEF IInv, claim_quote
<1>6. ~(job[t].at >= job[t].row.expires_at) /\ job[t].confirmed
  BY <1>3, <1>4, <1>5 DEF next_status
<1>7. job[t].at \in Int /\ job[t].row.expires_at \in Int
  BY <1>5 DEF QuoteRow, Times
<1> QED
  BY <1>2, <1>3, <1>6, <1>7

\* What is executed was confirmed and claimed in time, in the live session.
THEOREM DueClaims == Spec => ClaimsAreDue
<1>1. IInv /\ [Next]_vars
      => [\A t \in Tasks :
            job[t].stage # "executing" /\ job'[t].stage = "executing" =>
              /\ job[t].confirmed /\ job[t].row.session = live
              /\ job[t].at < quotes[job[t].quote].expires_at]_vars
  BY DueStep
<1> QED
  BY Invariance, <1>1, PTL DEF Spec, ClaimsAreDue
=============================================================================
