-------------------------------- MODULE Audit --------------------------------
(***************************************************************************)
(* The audit store (storage/src/lib.rs): sessions of the processes that    *)
(* opened the database, quotes that may be claimed once, and the attempts  *)
(* to execute them.  A transaction that begins with a write is one step.   *)
(* Only claim_quote reads before it writes: SQLite lets it write if nobody *)
(* committed anything since it read.                                       *)
(*                                                                         *)
(* Research runs are written and never read back, and left out.            *)
(***************************************************************************)
EXTENDS Integers

CONSTANTS
  Quotes, Sessions,
  Tasks,          \* calls at work at the same time, of one process or of several
  MaxTime, MaxAttempts,
  NoRow, NoSession

AttemptIds == 1 .. MaxAttempts
Times == 0 .. MaxTime

QuoteRow == [session: Sessions, status: {"quoted", "claimed", "expired", "rejected_unconfirmed",
                                         "invalidated_restart", "confirmed", "failed"},
             expires_at: Times, created_at: Times]
AttemptRow == [quote: Quotes,
               status: {"claimed", "expired", "rejected_unconfirmed", "confirmed", "failed"}]

Results == {"confirmed", "failed"}

Idle == [stage |-> "idle"]
Reading   == [stage: {"reading"}, row: QuoteRow, quote: Quotes, confirmed: BOOLEAN, at: Times]
Executing == [stage: {"executing"}, attempt: AttemptIds]
Executed  == [stage: {"executed"}, attempt: AttemptIds, result: Results]

ASSUME AuditAssumption ==
  /\ MaxTime \in Nat /\ MaxAttempts \in Nat
  /\ NoRow \notin QuoteRow \cup AttemptRow /\ NoSession \notin Sessions

VARIABLES
  opened, live,   \* process_sessions: all of them, and the one that has not ended
  quotes, attempts,
  refs,           \* attempts with transaction_refs
  next_id,        \* AUTOINCREMENT of execution_attempts
  job,            \* the task's call
  stale,          \* tasks that read before the last commit
  now,
  outcome         \* observed: what an execution led to

vars == <<opened, live, quotes, attempts, refs, next_id, job, stale, now, outcome>>
sessions == <<opened, live>>

Init ==
  /\ opened = {} /\ live = NoSession
  /\ quotes = [q \in Quotes |-> NoRow]
  /\ attempts = [a \in AttemptIds |-> NoRow]
  /\ refs = {} /\ next_id = 1
  /\ job = [t \in Tasks |-> Idle] /\ stale = {}
  /\ now = 0
  /\ outcome = [a \in AttemptIds |-> "none"]

Commits == stale' = Tasks

\* The rows of table, with status where it is present and among these.
WithStatus(table, these, status) ==
  [k \in DOMAIN table |-> IF k \in these /\ table[k] # NoRow
                          THEN [table[k] EXCEPT !.status = status] ELSE table[k]]

-----------------------------------------------------------------------------
(* Sessions and quotes.                                                    *)

\* A process starts; the others may still be at work.
open(s) ==
  /\ s \notin opened
  /\ opened' = opened \cup {s} /\ live' = s
  /\ quotes' = WithStatus(quotes,
                 {q \in Quotes : quotes[q] # NoRow /\ quotes[q].status = "quoted"},
                 "invalidated_restart")
  /\ Commits
  /\ UNCHANGED <<attempts, refs, next_id, job, now, outcome>>

\* Mutant: nobody asks whether the session is still active.
record_quote_anyway(s, q, expires_at) ==
  /\ s \in opened
  /\ quotes[q] = NoRow
  /\ quotes' = [quotes EXCEPT ![q] = [session |-> s, status |-> "quoted",
                                      expires_at |-> expires_at, created_at |-> now]]
  /\ Commits
  /\ UNCHANGED <<sessions, attempts, refs, next_id, job, now, outcome>>

record_quote(s, q, expires_at) ==
  /\ s \in opened /\ s = live
  /\ quotes[q] = NoRow
  /\ quotes' = [quotes EXCEPT ![q] = [session |-> s, status |-> "quoted",
                                      expires_at |-> expires_at, created_at |-> now]]
  /\ Commits
  /\ UNCHANGED <<sessions, attempts, refs, next_id, job, now, outcome>>

\* Mutant: the rows that refer to a deleted quote are kept.
NothingOf(gone) == {}

\* ON DELETE CASCADE.
AttemptsOf(gone) == {a \in AttemptIds : attempts[a] # NoRow /\ attempts[a].quote \in gone}

prune(older_than) ==
  LET gone == {q \in Quotes : quotes[q] # NoRow /\ quotes[q].created_at < older_than}
  IN /\ gone # {}
     /\ quotes' = [q \in Quotes |-> IF q \in gone THEN NoRow ELSE quotes[q]]
     /\ attempts' = [a \in AttemptIds |-> IF a \in AttemptsOf(gone) THEN NoRow ELSE attempts[a]]
     /\ refs' = refs \ AttemptsOf(gone)
     /\ Commits
     /\ UNCHANGED <<sessions, next_id, job, now, outcome>>

-----------------------------------------------------------------------------
(* Claiming a quote.                                                       *)

\* Mutant: a quote may be claimed in the second it expires.
ExpiresLate(row, at, confirmed) ==
  IF at > row.expires_at THEN "expired"
  ELSE IF ~confirmed THEN "rejected_unconfirmed" ELSE "claimed"

next_status(row, at, confirmed) ==
  IF at >= row.expires_at THEN "expired"
  ELSE IF ~confirmed THEN "rejected_unconfirmed" ELSE "claimed"

\* Mutant: an id is free again when its row is gone.
AfterTheLast == CHOOSE id \in 1 .. MaxAttempts + 1 :
                  /\ \A a \in AttemptIds : a >= id => attempts[a] = NoRow
                  /\ id > 1 => attempts[id - 1] # NoRow

FreeId == next_id

ReadQuote(t, s, q, confirmed) ==
  /\ job[t] = Idle /\ s \in opened
  /\ quotes[q] # NoRow /\ quotes[q].session = s /\ quotes[q].status = "quoted"
  /\ job' = [job EXCEPT ![t] = [stage |-> "reading", row |-> quotes[q], quote |-> q,
                                confirmed |-> confirmed, at |-> now]]
  /\ stale' = stale \ {t}
  /\ UNCHANGED <<sessions, quotes, attempts, refs, next_id, now, outcome>>

claim_quote(t) ==
  /\ job[t].stage = "reading" /\ t \notin stale
  /\ LET q == job[t].quote
         s == job[t].row.session
         status == next_status(job[t].row, job[t].at, job[t].confirmed)
         id == FreeId
     IN /\ quotes[q] # NoRow /\ quotes[q].status = "quoted" /\ quotes[q].session = s
        /\ s = live
        /\ id \in AttemptIds
        /\ quotes' = WithStatus(quotes, {q}, status)
        /\ attempts' = [attempts EXCEPT ![id] = [quote |-> q, status |-> status]]
        /\ next_id' = id + 1
        /\ job' = [job EXCEPT ![t] = IF status = "claimed"
                                     THEN [stage |-> "executing", attempt |-> id] ELSE Idle]
  /\ Commits
  /\ UNCHANGED <<sessions, refs, now, outcome>>

-----------------------------------------------------------------------------
(* What becomes of the attempt.                                            *)

\* External: the trade succeeds or not.
Execute(t, result) ==
  /\ job[t].stage = "executing"
  /\ job' = [job EXCEPT ![t] = [stage |-> "executed", attempt |-> job[t].attempt,
                                result |-> result]]
  /\ outcome' = [outcome EXCEPT ![job[t].attempt] = result]
  /\ UNCHANGED <<sessions, quotes, attempts, refs, next_id, stale, now>>

\* Mutant: the result is written to the attempt alone.
NoQuoteOf(a) == {}

QuoteOf(a) == {q \in Quotes : attempts[a] # NoRow /\ attempts[a].quote = q}

\* Transactions of an attempt that was pruned violate a foreign key.
record_execution(t, transactions) ==
  LET a == job[t].attempt
      status == job[t].result
  IN /\ job[t].stage = "executed"
     /\ transactions => status = "confirmed" /\ attempts[a] # NoRow
     /\ refs' = IF transactions THEN refs \cup {a} ELSE refs
     /\ attempts' = WithStatus(attempts, {a}, status)
     /\ quotes' = WithStatus(quotes, QuoteOf(a), status)
     /\ job' = [job EXCEPT ![t] = Idle]
     /\ Commits
     /\ UNCHANGED <<sessions, next_id, now, outcome>>

\* An error is returned, or the process dies.
Fails(t) ==
  /\ job[t] # Idle
  /\ job' = [job EXCEPT ![t] = Idle]
  /\ UNCHANGED <<sessions, quotes, attempts, refs, next_id, stale, now, outcome>>

Tick ==
  /\ now < MaxTime /\ now' = now + 1
  /\ UNCHANGED <<sessions, quotes, attempts, refs, next_id, job, stale, outcome>>

-----------------------------------------------------------------------------
Next ==
  \/ \E s \in Sessions : open(s)
  \/ \E s \in Sessions, q \in Quotes, expires_at \in Times : record_quote(s, q, expires_at)
  \/ \E older_than \in Times : prune(older_than)
  \/ \E t \in Tasks, s \in Sessions, q \in Quotes, confirmed \in BOOLEAN :
       ReadQuote(t, s, q, confirmed)
  \/ \E t \in Tasks, result \in Results : Execute(t, result)
  \/ \E t \in Tasks, transactions \in BOOLEAN : record_execution(t, transactions)
  \/ \E t \in Tasks : claim_quote(t) \/ Fails(t)
  \/ Tick

Spec == Init /\ [][Next]_vars

-----------------------------------------------------------------------------
\* Types, and the foreign keys.
TypeOK ==
  /\ opened \subseteq Sessions /\ live \in opened \cup {NoSession}
  /\ quotes \in [Quotes -> QuoteRow \cup {NoRow}]
  /\ attempts \in [AttemptIds -> AttemptRow \cup {NoRow}]
  /\ \A a \in AttemptIds : attempts[a] # NoRow => quotes[attempts[a].quote] # NoRow
  /\ refs \subseteq {a \in AttemptIds : attempts[a] # NoRow}
  /\ next_id \in 1 .. MaxAttempts + 1
  /\ job \in [Tasks -> {Idle} \cup Reading \cup Executing \cup Executed]
  /\ stale \subseteq Tasks /\ now \in Times
  /\ outcome \in [AttemptIds -> Results \cup {"none"}]

\* "Consumes a quote and creates an attempt atomically, even if rejected": a
\* quote has one attempt if it was consumed and none otherwise, and the two
\* tell the same story through restarts, late results and pruning.
QuoteShowsItsAttempt ==
  \A q \in Quotes : quotes[q] # NoRow =>
    LET mine == {a \in AttemptIds : attempts[a] # NoRow /\ attempts[a].quote = q}
    IN IF quotes[q].status \in {"quoted", "invalidated_restart"} THEN mine = {}
       ELSE \E a \in mine : mine = {a} /\ attempts[a].status = quotes[q].status

\* Only quotes of the last process to start may still be claimed, though the
\* process before it may be alive and recording.
QuotedIsLive ==
  \A q \in Quotes : quotes[q] # NoRow /\ quotes[q].status = "quoted" => quotes[q].session = live

\* A result is written to the attempt it belongs to, however many attempts
\* were pruned while it was being executed; and nobody executes an attempt
\* whose result is known.
ResultsAreTheirOwn ==
  /\ \A a \in AttemptIds :
       attempts[a] # NoRow /\ attempts[a].status \in Results => outcome[a] = attempts[a].status
  /\ \A t \in Tasks : job[t].stage \in {"executing", "executed"} =>
       attempts[job[t].attempt] = NoRow \/ attempts[job[t].attempt].status = "claimed"

\* What is executed was confirmed by its user, in the session that is live
\* when it is claimed, and had not expired when the user asked.
ClaimsAreDue ==
  [][\A t \in Tasks :
       job[t].stage # "executing" /\ job'[t].stage = "executing" =>
         /\ job[t].confirmed /\ job[t].row.session = live
         /\ job[t].at < quotes[job[t].quote].expires_at]_vars

-----------------------------------------------------------------------------
(* The inductive invariant behind the properties above.                    *)

Works(t) == job[t].stage \in {"executing", "executed"}

\* An attempt is executed by one task, the one that made it.
WorkOK ==
  /\ \A a \in AttemptIds : a >= next_id => attempts[a] = NoRow /\ outcome[a] = "none"
  /\ \A t \in Tasks : Works(t) => job[t].attempt < next_id
  /\ \A t, u \in Tasks : Works(t) /\ Works(u) /\ job[t].attempt = job[u].attempt => t = u
  /\ \A t \in Tasks : job[t].stage = "executed" => outcome[job[t].attempt] = job[t].result

\* What a task read is what the table says until somebody commits.
SnapshotOK ==
  \A t \in Tasks : job[t].stage = "reading" /\ t \notin stale => quotes[job[t].quote] = job[t].row

IInv ==
  TypeOK /\ QuoteShowsItsAttempt /\ QuotedIsLive /\ ResultsAreTheirOwn /\ WorkOK /\ SnapshotOK
=============================================================================
