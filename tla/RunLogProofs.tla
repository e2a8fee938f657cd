---------------------------- MODULE RunLogProofs ----------------------------
(***************************************************************************)
(* Theorems about RunLog when only runs without a live worker elsewhere    *)
(* are marked cancelled: the log is numbered without gaps, run:done is its *)
(* last row, and a final status stays; and a page that follows the run     *)
(* shows each event once, and none before the earlier ones it listens to.  *)
(***************************************************************************)
EXTENDS RunLog, FiniteSetTheorems, SequenceTheorems, TLAPS

RowType == [seq: Nat, kind: {"event", "unlisted", "error", "done", "bye"}, status: Final \cup {"none"}]

Types ==
    /\ remote \in BOOLEAN
    /\ worker \in {"running", "errored", "finalised", "ended", "dead"}
    /\ log \in Seq(RowType) /\ seq \in Nat /\ nextSeq \in Nat
    /\ status \in Final \cup {"running"} /\ outcome \in Final \cup {"none"}

(* What the worker has written so far.                                     *)
WorkerWrote ==
    /\ Alive => seq = Len(log)
    /\ worker = "running" => status = "running"
    /\ worker = "errored" => status = "running" /\ outcome \in Final
    /\ worker \in {"finalised", "ended"} => status \in Final /\ status = outcome

(* The cancel handler only works while there is no worker, and what it has *)
(* written so far.                                                         *)
Cancelling == server \in {"cancelling", "finalising", "explaining", "concluding"}
CancelWrote ==
    /\ Cancelling => worker = "dead"
    /\ server \in {"cancelling", "finalising"} => status = "running"
    /\ server \in {"explaining", "concluding"} => status = "cancelled"
    /\ server \in {"finalising", "explaining"} => nextSeq = Len(log) + 1
    /\ server = "concluding" => nextSeq = Len(log)

(* While the end is not written, there is no run:done.                     *)
NotDoneYet ==
    (status = "running" \/ worker = "finalised" \/ server \in {"explaining", "concluding"})
        => \A i \in DOMAIN log: log[i].kind # "done"

LogInv == Types /\ WorkerWrote /\ CancelWrote /\ NotDoneYet /\ LogNumbered /\ DoneIsLast

(* A row appended with the next number keeps the log numbered.             *)
LEMMA AppendNumbered ==
    ASSUME log \in Seq(RowType), LogNumbered, NEW r \in RowType, r.seq = Len(log) + 1,
           log' = Append(log, r)
    PROVE  /\ LogNumbered' /\ log' \in Seq(RowType) /\ Len(log') = Len(log) + 1
           /\ \A i \in DOMAIN log: log'[i] = log[i]
           /\ log'[Len(log')] = r /\ DOMAIN log' = DOMAIN log \cup {Len(log')}
  <1>1. log' \in Seq(RowType) /\ Len(log') = Len(log) + 1
    OBVIOUS
  <1>2. /\ \A i \in DOMAIN log: log'[i] = log[i]
        /\ log'[Len(log')] = r /\ DOMAIN log' = DOMAIN log \cup {Len(log')}
    OBVIOUS
  <1>3. LogNumbered'
    BY <1>1, <1>2 DEF LogNumbered
  <1>. QED BY <1>1, <1>2, <1>3

(* A row that is not run:done keeps everything said of run:done, and needs *)
(* a log without one.                                                      *)
LEMMA AppendUndone ==
    ASSUME log \in Seq(RowType), LogNumbered, NEW r \in RowType, r.seq = Len(log) + 1,
           log' = Append(log, r), r.kind # "done",
           \A i \in DOMAIN log: log[i].kind # "done"
    PROVE  (\A i \in DOMAIN log: log[i].kind # "done")' /\ DoneIsLast'
  <1>1. \A i \in DOMAIN log': log'[i].kind # "done"
    BY AppendNumbered
  <1>. QED BY <1>1 DEF DoneIsLast

(* The first run:done, with the status of the run, is the last row.        *)
LEMMA AppendDone ==
    ASSUME log \in Seq(RowType), LogNumbered, NEW r \in RowType, r.seq = Len(log) + 1,
           log' = Append(log, r), r.status = status',
           \A i \in DOMAIN log: log[i].kind # "done"
    PROVE  DoneIsLast'
  <1>1. \A i \in DOMAIN log': i # Len(log') => log'[i].kind # "done"
    BY AppendNumbered
  <1>2. log'[Len(log')].status = status'
    BY AppendNumbered
  <1>3. \A i \in DOMAIN log': log'[i].kind = "done" => i = Len(log') /\ log'[i].status = status'
    BY <1>1, <1>2
  <1>. QED BY <1>3 DEF DoneIsLast

(* The highest number of a numbered log is its length.                     *)
LEMMA HighestNumber ==
    ASSUME log \in Seq(RowType), LogNumbered
    PROVE  Max(LoggedSeqs \cup {0}) = Len(log)
  <1>1. LoggedSeqs \cup {0} = 0 .. Len(log)
    <2>1. LoggedSeqs = 1 .. Len(log)
      BY DEF LoggedSeqs, LogNumbered
    <2>. QED BY <2>1
  <1>2. Len(log) \in 0 .. Len(log) /\ \A y \in 0 .. Len(log): Len(log) >= y
    OBVIOUS
  <1>3. \A x \in 0 .. Len(log): (\A y \in 0 .. Len(log): x >= y) => x = Len(log)
    <2>1. \A x \in 0 .. Len(log): x >= Len(log) => x = Len(log)
      OBVIOUS
    <2>. QED BY <2>1, <1>2
  <1>. QED BY <1>1, <1>2, <1>3 DEF Max

(* The run is inserted as running, with an empty log.                      *)
LEMMA InitLogInv == Init => LogInv
  BY DEF Init, LogInv, Types, WorkerWrote, CancelWrote, NotDoneYet, LogNumbered, DoneIsLast,
         Alive, Cancelling, Final, RowType

(* What a worker that emits a row changes.                                 *)
LEMMA EmitRow ==
    ASSUME LogInv, Alive, NEW k \in {"event", "unlisted", "error", "done"}, NEW s \in Final \cup {"none"},
           Emit(k, s)
    PROVE  /\ Row(seq + 1, k, s) \in RowType /\ Row(seq + 1, k, s).seq = Len(log) + 1
           /\ Row(seq + 1, k, s).kind = k /\ Row(seq + 1, k, s).status = s
           /\ log' = Append(log, Row(seq + 1, k, s))
           /\ LogNumbered' /\ log' \in Seq(RowType) /\ Len(log') = Len(log) + 1
           /\ seq' = Len(log')
           /\ UNCHANGED <<remote, server, nextSeq>>
  <1>1. Row(seq + 1, k, s) \in RowType /\ Row(seq + 1, k, s).seq = Len(log) + 1
        /\ Row(seq + 1, k, s).kind = k /\ Row(seq + 1, k, s).status = s
    BY DEF LogInv, Types, WorkerWrote, Row, RowType
  <1>2. log' = Append(log, Row(seq + 1, k, s)) /\ seq' = seq + 1 /\ UNCHANGED <<remote, server, nextSeq>>
    BY DEF Emit
  <1>3. LogNumbered' /\ log' \in Seq(RowType) /\ Len(log') = Len(log) + 1
    BY <1>1, <1>2, AppendNumbered DEF LogInv, Types
  <1>. QED BY <1>1, <1>2, <1>3 DEF LogInv, WorkerWrote, Types

(* The worker's rows and its final status.                                 *)
LEMMA WorkerKeeps == ASSUME LogInv, WorkerStep PROVE LogInv'
  <1>. USE DEF LogInv
  <1>1. CASE EmitEvent \/ ExplainFailure
    <2>1. Alive /\ status = "running" /\ status' = status /\ outcome' \in Final \cup {"none"}
          /\ worker' \in {"running", "errored"} /\ (worker' = "errored" => outcome' \in Final)
      BY <1>1 DEF EmitEvent, ExplainFailure, Alive, WorkerWrote, Types, Final
    <2>2. PICK k \in {"event", "unlisted", "error"}: Emit(k, "none")
      BY <1>1 DEF EmitEvent, ExplainFailure
    <2>3. \A i \in DOMAIN log: log[i].kind # "done"
      BY <2>1 DEF NotDoneYet
    <2>4. (\A i \in DOMAIN log: log[i].kind # "done")' /\ DoneIsLast'
      BY <2>1, <2>2, <2>3, EmitRow, AppendUndone DEF Types
    <2>5. Types' /\ WorkerWrote' /\ LogNumbered'
      BY <2>1, <2>2, EmitRow DEF Types, WorkerWrote, Alive
    <2>6. CancelWrote'
      BY <2>1, <2>2, EmitRow DEF CancelWrote, Cancelling, Alive
    <2>. QED BY <2>4, <2>5, <2>6 DEF NotDoneYet
  <1>2. CASE Finalise
    <2>1. /\ status = "running" /\ Alive /\ outcome' \in Final /\ status' = outcome'
          /\ worker' = "finalised" /\ UNCHANGED <<remote, seq, log, server, nextSeq>>
      BY <1>2 DEF Finalise, WorkerWrote, Outcomes, Final, Alive, serve
    <2>2. \A i \in DOMAIN log: log[i].kind # "done"
      BY <2>1 DEF NotDoneYet
    <2>3. ~Cancelling
      BY <2>1 DEF CancelWrote, Alive
    <2>4. Types' /\ WorkerWrote' /\ CancelWrote'
      BY <2>1, <2>3 DEF Types, WorkerWrote, CancelWrote, Cancelling, Alive
    <2>. QED BY <2>1, <2>2, <2>4 DEF NotDoneYet, LogNumbered, DoneIsLast
  <1>3. CASE Conclude
    <2>1. /\ Alive /\ worker = "finalised" /\ worker' = "ended" /\ status \in Final
          /\ status = outcome /\ UNCHANGED <<outcome, status>> /\ Emit("done", outcome)
      BY <1>3 DEF Conclude, WorkerWrote, Alive
    <2>2. \A i \in DOMAIN log: log[i].kind # "done"
      BY <2>1 DEF NotDoneYet
    <2>3. DoneIsLast'
      BY <2>1, <2>2, EmitRow, AppendDone DEF Types
    <2>4. Types' /\ WorkerWrote' /\ LogNumbered'
      BY <2>1, EmitRow DEF Types, WorkerWrote, Alive
    <2>5. ~Cancelling /\ ~Cancelling'
      BY <2>1, EmitRow DEF CancelWrote, Cancelling, Alive
    <2>6. CancelWrote' /\ NotDoneYet'
      BY <2>1, <2>5 DEF CancelWrote, NotDoneYet, Cancelling, Final
    <2>. QED BY <2>3, <2>4, <2>6
  <1>4. CASE WorkerDies
    <2>1. Alive /\ worker' = "dead" /\ UNCHANGED <<remote, outcome, seq, log, status, server, nextSeq>>
      BY <1>4 DEF WorkerDies, db, serve
    <2>. QED BY <2>1 DEF Types, WorkerWrote, CancelWrote, NotDoneYet, LogNumbered, DoneIsLast,
                         Cancelling, Alive
  <1>. QED BY <1>1, <1>2, <1>3, <1>4 DEF WorkerStep

(* The cancel handler's rows and status, of a run nobody works on.         *)
LEMMA CancelKeeps == ASSUME LogInv, CancelStep PROVE LogInv'
  <1>. USE DEF LogInv
  <1>0. worker = "dead" /\ UNCHANGED <<remote, worker, outcome, seq>>
    BY DEF CancelStep, CancelNumbers, CancelFinalises, CancelExplains, CancelConcludes, CancelWrote,
           Cancelling, run
  <1>1. CASE CancelNumbers
    <2>1. server = "cancelling" /\ server' = "finalising" /\ UNCHANGED <<log, status>>
      BY <1>1 DEF CancelNumbers, db
    <2>2. nextSeq' = Len(log) + 1
      BY <1>1, HighestNumber DEF CancelNumbers, Types
    <2>. QED BY <1>0, <2>1, <2>2 DEF Types, WorkerWrote, CancelWrote, NotDoneYet, LogNumbered,
                                     DoneIsLast, Cancelling, Alive
  <1>2. CASE CancelFinalises
    <2>1. /\ server = "finalising" /\ server' = "explaining" /\ status = "running"
          /\ status' = "cancelled" /\ UNCHANGED <<log, nextSeq>>
      BY <1>2 DEF CancelFinalises, CancelWrote
    <2>. QED BY <1>0, <2>1 DEF Types, WorkerWrote, CancelWrote, NotDoneYet, LogNumbered,
                               DoneIsLast, Cancelling, Alive, Final
  <1>3. CASE CancelExplains
    <2>1. /\ server = "explaining" /\ server' = "concluding" /\ status = "cancelled"
          /\ nextSeq = Len(log) + 1 /\ UNCHANGED <<status, nextSeq>>
          /\ log' = Append(log, Row(nextSeq, "error", "none"))
      BY <1>3 DEF CancelExplains, CancelWrote
    <2>2. /\ Row(nextSeq, "error", "none") \in RowType /\ Row(nextSeq, "error", "none").kind # "done"
          /\ Row(nextSeq, "error", "none").seq = Len(log) + 1
      BY <2>1 DEF Row, RowType, Types
    <2>3. \A i \in DOMAIN log: log[i].kind # "done"
      BY <2>1 DEF NotDoneYet
    <2>4. LogNumbered' /\ log' \in Seq(RowType) /\ Len(log') = Len(log) + 1
      BY <2>1, <2>2, AppendNumbered DEF Types
    <2>5. (\A i \in DOMAIN log: log[i].kind # "done")' /\ DoneIsLast'
      BY <2>1, <2>2, <2>3, AppendUndone DEF Types
    <2>. QED BY <1>0, <2>1, <2>4, <2>5 DEF Types, WorkerWrote, CancelWrote, NotDoneYet,
                                           Cancelling, Alive
  <1>4. CASE CancelConcludes
    <2>1. /\ server = "concluding" /\ server' = "idle" /\ status = "cancelled"
          /\ nextSeq = Len(log) /\ UNCHANGED <<status, nextSeq>>
          /\ log' = Append(log, Row(nextSeq + 1, "done", "cancelled"))
      BY <1>4 DEF CancelConcludes, CancelWrote
    <2>2. /\ Row(nextSeq + 1, "done", "cancelled") \in RowType
          /\ Row(nextSeq + 1, "done", "cancelled").seq = Len(log) + 1
          /\ Row(nextSeq + 1, "done", "cancelled").status = status'
      BY <2>1 DEF Row, RowType, Types, Final
    <2>3. \A i \in DOMAIN log: log[i].kind # "done"
      BY <2>1 DEF NotDoneYet
    <2>4. LogNumbered' /\ log' \in Seq(RowType) /\ Len(log') = Len(log) + 1
      BY <2>1, <2>2, AppendNumbered DEF Types
    <2>5. DoneIsLast'
      BY <2>1, <2>2, <2>3, AppendDone DEF Types
    <2>. QED BY <1>0, <2>1, <2>4, <2>5 DEF Types, WorkerWrote, CancelWrote, NotDoneYet,
                                           Cancelling, Alive
  <1>. QED BY <1>1, <1>2, <1>3, <1>4 DEF CancelStep

(* Every other step leaves the database alone; a handler that is entered   *)
(* is none of the cancel's, but for the click itself.                      *)
LEMMA OthersKeep ==
    ASSUME LiveCancels = FALSE, LogInv, [Next]_vars, ~WorkerStep, ~CancelStep
    PROVE  LogInv'
  <1>. USE DEF LogInv
  <1>1. CASE ServerDies
    <2>1. /\ server' = "idle" /\ worker' = (IF OwnsRun THEN "dead" ELSE worker)
          /\ UNCHANGED <<remote, outcome, seq, log, status, nextSeq>>
      BY <1>1 DEF ServerDies, db
    <2>. QED BY <2>1 DEF Types, WorkerWrote, CancelWrote, NotDoneYet, LogNumbered, DoneIsLast,
                         Cancelling, Alive, OwnsRun
  <1>2. CASE Cancel
    <2>1. /\ UNCHANGED <<remote, worker, outcome, seq, log, status, nextSeq>> /\ server = "idle"
          /\ server' = "idle" \/ (server' = "cancelling" /\ ~Alive /\ status = "running")
      BY <1>2 DEF Cancel, db, ServerIdle
    <2>2. ~Alive /\ status = "running" => worker = "dead"
      BY DEF WorkerWrote, Types, Alive, Final
    <2>. QED BY <2>1, <2>2 DEF Types, WorkerWrote, CancelWrote, NotDoneYet, LogNumbered, DoneIsLast,
                               Cancelling, Alive
  <1>3. CASE FetchRun \/ FetchEvents \/ Open \/ OpenCheck \/ PollReplay \/ PollCheck \/ Refetch
    <2>1. /\ UNCHANGED <<remote, worker, outcome, seq, log, status, nextSeq>> /\ ~Cancelling
          /\ ~Cancelling'
      BY <1>3 DEF FetchRun, FetchEvents, Open, OpenCheck, PollReplay, PollCheck, Refetch, db, run,
                  serve, ServerIdle, Cancelling
    <2>. QED BY <2>1 DEF Types, WorkerWrote, CancelWrote, NotDoneYet, LogNumbered, DoneIsLast,
                         Cancelling, Alive
  <1>4. CASE ClientStep \/ Lose \/ UNCHANGED vars
    <2>1. UNCHANGED <<remote, worker, outcome, seq, log, status, nextSeq, server>>
      BY <1>4 DEF ClientStep, ShowRefetched, Receive, Retry, Lose, vars, db, run, serve
    <2>. QED BY <2>1 DEF Types, WorkerWrote, CancelWrote, NotDoneYet, LogNumbered, DoneIsLast,
                         Cancelling, Alive
  <1>. QED BY <1>1, <1>2, <1>3, <1>4 DEF Next, ServerStep

(* The inductive invariant: what the writers know of the log while they    *)
(* are at work is true, so numbers are not used twice.                     *)
THEOREM LogCorrect == LiveCancels = FALSE /\ Spec => []LogInv
  <1>. SUFFICES ASSUME LiveCancels = FALSE PROVE Spec => []LogInv
    OBVIOUS
  <1>1. LogInv /\ [Next]_vars => LogInv'
    BY WorkerKeeps, CancelKeeps, OthersKeep
  <1>. QED BY InitLogInv, <1>1, PTL DEF Spec

(* The rows of run_events are numbered from one, whoever wrote them, and   *)
(* in spite of every crash (runs-store.ts, run-manager.ts, routes.ts).     *)
THEOREM NumbersUnique == LiveCancels = FALSE /\ Spec => []LogNumbered
  <1>. SUFFICES ASSUME LiveCancels = FALSE PROVE Spec => []LogNumbered
    OBVIOUS
  <1>1. LogInv => LogNumbered
    BY DEF LogInv
  <1>. QED BY LogCorrect, <1>1, PTL

(* run:done is the last row and carries the status of the run.             *)
THEOREM DoneOnce == LiveCancels = FALSE /\ Spec => []DoneIsLast
  <1>. SUFFICES ASSUME LiveCancels = FALSE PROVE Spec => []DoneIsLast
    OBVIOUS
  <1>1. LogInv => DoneIsLast
    BY DEF LogInv
  <1>. QED BY LogCorrect, <1>1, PTL

(* finalizeRun never overwrites a final status.                            *)
THEOREM FinalStays == LiveCancels = FALSE /\ Spec => FinalStatusStays
  <1>. SUFFICES ASSUME LiveCancels = FALSE PROVE Spec => FinalStatusStays
    OBVIOUS
  <1>1. LogInv /\ [Next]_vars => [status # "running" => status' = status]_vars
    <2>. SUFFICES ASSUME LogInv, Next, status # "running" PROVE status' = status
      OBVIOUS
    <2>1. CASE WorkerStep
      <3>1. ~Finalise
        BY DEF Finalise, LogInv, WorkerWrote
      <3>. QED BY <2>1, <3>1 DEF WorkerStep, EmitEvent, ExplainFailure, Conclude, WorkerDies, db
    <2>2. CASE CancelStep
      <3>1. ~CancelFinalises
        BY DEF CancelFinalises, LogInv, CancelWrote
      <3>. QED BY <2>2, <3>1 DEF CancelStep, CancelNumbers, CancelExplains, CancelConcludes, db
    <2>3. CASE FetchRun \/ FetchEvents \/ Open \/ OpenCheck \/ PollReplay \/ PollCheck \/ Refetch
      BY <2>3 DEF FetchRun, FetchEvents, Open, OpenCheck, PollReplay, PollCheck, Refetch, db
    <2>4. CASE ClientStep \/ Cancel \/ Lose \/ ServerDies
      BY <2>4 DEF ClientStep, ShowRefetched, Receive, Retry, Cancel, Lose, ServerDies, db
    <2>. QED BY <2>1, <2>2, <2>3, <2>4 DEF Next, ServerStep
  <1>. QED BY LogCorrect, <1>1, PTL DEF Spec, FinalStatusStays

-----------------------------------------------------------------------------
(* How many numbers there are from one to another.                         *)
LEMMA Interval ==
    ASSUME NEW a \in Nat, NEW b \in Nat, a <= b + 1
    PROVE  Cardinality(a .. b) = b - a + 1
  <1>1. a \in Int /\ b \in Int
    OBVIOUS
  <1>2. Cardinality(a .. b) = IF a > b THEN 0 ELSE b - a + 1
    BY <1>1, FS_Interval, Zenon
  <1>. QED BY <1>2

(* What readers of a numbered log get is what follows a number.            *)
LEMMA RowsFollow ==
    ASSUME log \in Seq(RowType), LogNumbered, NEW since \in 0 .. Len(log)
    PROVE  /\ Rows(since) \in Seq(RowType) /\ Len(Rows(since)) = Len(log) - since
           /\ \A n \in 1 .. Len(log) - since: Rows(since)[n] = log[since + n]
  <1>. DEFINE new == {i \in DOMAIN log: log[i].seq > since}
              Before(i) == {j \in new: log[j].seq < log[i].seq \/ (log[j].seq = log[i].seq /\ j < i)}
              Place(n) == CHOOSE i \in new: Cardinality(Before(i)) = n - 1
  <1>1. new = since + 1 .. Len(log)
    BY DEF LogNumbered
  <1>2. ASSUME NEW i \in new PROVE Before(i) = since + 1 .. i - 1
    BY <1>1 DEF LogNumbered
  <1>3. Cardinality(new) = Len(log) - since
    <2>1. since + 1 \in Nat /\ Len(log) \in Nat /\ since + 1 <= Len(log) + 1
      OBVIOUS
    <2>2. Cardinality(since + 1 .. Len(log)) = Len(log) - (since + 1) + 1
      BY <2>1, Interval, Zenon
    <2>3. Cardinality(new) = Len(log) - (since + 1) + 1
      BY <1>1, <2>2, Zenon
    <2>. HIDE DEF new
    <2>. QED BY <2>3
  <1>4. ASSUME NEW i \in new PROVE Cardinality(Before(i)) = i - since - 1
    <2>1. since + 1 \in Nat /\ i - 1 \in Nat /\ since + 1 <= (i - 1) + 1
      BY <1>1
    <2>2. Cardinality(since + 1 .. i - 1) = (i - 1) - (since + 1) + 1
      BY <2>1, Interval, Zenon
    <2>3. Cardinality(Before(i)) = (i - 1) - (since + 1) + 1
      BY <1>2, <2>2, Zenon
    <2>. HIDE DEF Before
    <2>. QED BY <2>1, <2>3
  <1>. HIDE DEF Before, new
  <1>5. ASSUME NEW n \in 1 .. Len(log) - since PROVE Place(n) = since + n
    <2>1. since + n \in new /\ Cardinality(Before(since + n)) = n - 1
      BY <1>1, <1>4
    <2>2. Place(n) \in new /\ Cardinality(Before(Place(n))) = n - 1
      BY <2>1
    <2>. QED BY <1>1, <1>4, <2>2
  <1>. HIDE DEF Place
  <1>6. Rows(since) = [n \in 1 .. Len(log) - since |-> log[Place(n)]]
    BY <1>3 DEF Rows, new, Before, Place
  <1>. QED BY <1>5, <1>6

-----------------------------------------------------------------------------
(* What is shown, and on its way to the page.                              *)
PageTypes ==
    /\ view \in Seq(RowType) /\ wire \in Seq(RowType) /\ cursor \in Nat /\ active \in BOOLEAN
    /\ stream \in {"closed", "subscribed", "polling"}
    /\ client \in {"loading", "connecting", "live", "retrying", "closed"}

(* Rows are numbered from one, but for goodbyes, which are not logged.     *)
Named(row) == IF row.kind = "bye" THEN row = Bye ELSE row.seq >= 1
RowsNamed ==
    /\ \A i \in DOMAIN log: log[i].kind # "bye"
    /\ \A i \in DOMAIN view: Named(view[i])
    /\ \A i \in DOMAIN wire: Named(wire[i])

(* The two sides of a connection agree on whether there is one, and what   *)
(* the server has sent of the log.                                         *)
Opened == server = "opened" /\ client = "connecting"
Connections ==
    /\ stream # "closed" => client = "live"
    /\ stream = "subscribed" => ~remote /\ worker # "dead"
    /\ stream = "polling" => (remote \/ worker = "dead") /\ cursor <= Len(log)
    /\ Opened => cursor <= Len(log) /\ (~remote => cursor = Len(log))
    /\ client \in {"connecting", "live", "retrying"} => active
    /\ client = "loading" => request = "none" /\ ~Cancelling
    /\ ~Opened /\ client # "live" => wire = <<>>
    /\ server = "fetching" => client = "loading"
    /\ server = "opened" => client = "connecting" \/ (client = "closed" /\ request # "refetched")

(* What is on its way follows what was shown, and what the server sends    *)
(* next follows that.                                                      *)
SentUpTo(n, last) == IF wire = <<>> THEN last <= n ELSE wire[Len(wire)].seq = last
Follows(n) ==
    /\ \A i \in DOMAIN wire: wire[i].kind = "bye" => i = Len(wire) /\ stream = "closed" /\ client = "live"
    /\ \A i \in DOMAIN wire: i # 1 /\ wire[i].kind # "bye" => wire[i].seq = wire[i - 1].seq + 1
    /\ wire # <<>> /\ wire[1].kind # "bye" => wire[1].seq <= n + 1
    /\ stream = "subscribed" => SentUpTo(n, Len(log))
    /\ stream = "polling" => SentUpTo(n, cursor)
    /\ Opened => SentUpTo(0, cursor)

(* The numbers of the first rows of the page, which shows the rows up to a *)
(* number but for those it does not listen to.                             *)
Told(k) == Numbers({view[j]: j \in 1 .. k})
ShownUpTo(n) ==
    Told(Len(view)) \subseteq 1 .. n /\ 1 .. n \subseteq Told(Len(view)) \cup Unlisted

InOrder == \E n \in Nat: ShownUpTo(n) /\ Follows(n)

(* A run of the server itself sends what it has logged; what the server    *)
(* makes up of another one are ends only.                                  *)
Logged(row) == row.kind = "bye" \/ (row.seq \in DOMAIN log /\ log[row.seq] = row)
OwnLogged ==
    /\ \A i \in DOMAIN wire: wire[i].kind = "unlisted" => Logged(wire[i])
    /\ ~remote /\ worker # "dead" =>
        (\A i \in DOMAIN view: Logged(view[i])) /\ (\A i \in DOMAIN wire: Logged(wire[i]))

PageInv == PageTypes /\ RowsNamed /\ Connections /\ InOrder /\ ViewGapless /\ OwnLogged

(* A log that grows.                                                       *)
LogStays == \A i \in DOMAIN log: i \in DOMAIN log' /\ log'[i] = log[i]

LEMMA LogStaysLogged ==
    ASSUME LogStays
    PROVE  /\ Unlisted \subseteq Unlisted' /\ \A q: Logged(q) => Logged(q)'
  BY DEF LogStays, Unlisted, Logged

LEMMA SameLogStays == ASSUME UNCHANGED log PROVE LogStays
  BY DEF LogStays

(* What has been shown stays gapless while it is not touched.              *)
LEMMA ViewStays ==
    ASSUME UNCHANGED view, LogStays
    PROVE  /\ ViewGapless => ViewGapless' /\ \A k \in Nat: Told(k)' = Told(k)
           /\ \A n \in Nat: view \in Seq(RowType) /\ ShownUpTo(n) => ShownUpTo(n)'
  <1>1. Unlisted \subseteq Unlisted'
    BY LogStaysLogged
  <1>2. \A k: Told(k)' = Told(k)
    BY DEF Told
  <1>3. ASSUME NEW n \in Nat, view \in Seq(RowType), ShownUpTo(n) PROVE ShownUpTo(n)'
    <2>1. Told(Len(view))' = Told(Len(view))
      BY DEF Told
    <2>. QED BY <1>1, <1>3, <2>1 DEF ShownUpTo
  <1>4. ASSUME ViewGapless PROVE ViewGapless'
    <2>. SUFFICES ASSUME NEW i \in DOMAIN view, view[i].kind # "bye"
                  PROVE  /\ view[i].seq \notin Numbers({view[j]: j \in 1 .. i - 1})
                         /\ 1 .. view[i].seq - 1 \subseteq Numbers({view[j]: j \in 1 .. i - 1}) \cup Unlisted'
      BY DEF ViewGapless
    <2>. QED BY <1>1, <1>4 DEF ViewGapless
  <1>. QED BY <1>2, <1>3, <1>4

(* Steps at which nothing is sent and nothing shown: the server may turn   *)
(* to another request, and a worker may go on, or die elsewhere.           *)
LEMMA NothingSent ==
    ASSUME PageInv, UNCHANGED <<remote, log, stream, cursor, wire, client, view, active>>,
           worker' = worker \/ remote \/ (worker # "dead" /\ worker' # "dead"),
           \/ UNCHANGED server /\ request' \in {request, "none"}
           \/ /\ server # "opened" /\ server' # "opened" /\ (server' = "fetching" => client = "loading")
              /\ client = "loading" => request' = request /\ ~Cancelling'
    PROVE  PageInv'
  <1>. USE DEF PageInv
  <1>1. PageTypes' /\ RowsNamed' /\ ViewGapless'
    BY ViewStays, SameLogStays DEF PageTypes, RowsNamed
  <1>2. Opened' = Opened
    BY DEF Opened
  <1>3. Connections'
    BY <1>2 DEF Connections, PageTypes, Cancelling, Opened
  <1>4. InOrder'
    <2>1. PICK n \in Nat: ShownUpTo(n) /\ Follows(n)
      BY DEF InOrder
    <2>2. Follows(n)'
      BY <1>2, <2>1 DEF Follows, SentUpTo
    <2>. QED BY <2>1, <2>2, ViewStays, SameLogStays DEF InOrder, PageTypes
  <1>5. OwnLogged'
    BY DEF OwnLogged, Logged
  <1>. QED BY <1>1, <1>3, <1>4, <1>5

(* A connection that is cut: what was on its way is lost.                  *)
LEMMA HangingUp ==
    ASSUME PageInv, UNCHANGED <<remote, log, view, cursor>>, wire' = <<>>, stream' = "closed",
           worker' = worker \/ worker' = "dead", Connections', PageTypes', ~Opened'
    PROVE  PageInv'
  <1>. USE DEF PageInv
  <1>1. DOMAIN wire' = {}
    OBVIOUS
  <1>2. RowsNamed' /\ ViewGapless'
    BY <1>1, ViewStays, SameLogStays DEF RowsNamed
  <1>3. InOrder'
    <2>1. PICK n \in Nat: ShownUpTo(n) /\ Follows(n)
      BY DEF InOrder
    <2>2. Follows(n)'
      BY <1>1 DEF Follows
    <2>. QED BY <2>1, <2>2, ViewStays, SameLogStays DEF InOrder, PageTypes
  <1>4. OwnLogged'
    BY <1>1 DEF OwnLogged, Logged
  <1>. QED BY <1>2, <1>3, <1>4

(* A row that comes last: the others stay.                                 *)
LEMMA RowAdded ==
    ASSUME NEW rows \in Seq(RowType), NEW row \in RowType, NEW more, more = Append(rows, row)
    PROVE  /\ more \in Seq(RowType) /\ Len(more) = Len(rows) + 1 /\ more # <<>>
           /\ DOMAIN more = DOMAIN rows \cup {Len(rows) + 1}
           /\ more[Len(rows) + 1] = row /\ \A i \in DOMAIN rows: more[i] = rows[i]
  <1>1. more # <<>>
    BY AppendProperties
  <1>. QED BY <1>1

(* The log grows and nobody is told.                                       *)
LEMMA LogGrows ==
    ASSUME PageInv, log \in Seq(RowType), LogNumbered, NEW row \in RowType, row.kind # "bye",
           row.seq = Len(log) + 1, log' = Append(log, row), stream # "subscribed",
           UNCHANGED <<remote, stream, cursor, wire, client, view, active>>, Opened' = Opened,
           remote \/ worker # "dead" \/ worker' = "dead", Connections'
    PROVE  PageInv'
  <1>. USE DEF PageInv
  <1>1. /\ DOMAIN log' = DOMAIN log \cup {Len(log) + 1} /\ log'[Len(log) + 1] = row
        /\ \A i \in DOMAIN log: log'[i] = log[i]
    BY RowAdded
  <1>6. LogStays
    BY <1>1 DEF LogStays
  <1>2. PageTypes' /\ ViewGapless'
    BY <1>1, <1>6, ViewStays DEF PageTypes
  <1>3. RowsNamed'
    BY <1>1 DEF RowsNamed, Named
  <1>4. InOrder'
    <2>1. PICK n \in Nat: ShownUpTo(n) /\ Follows(n)
      BY DEF InOrder
    <2>2. Follows(n)'
      BY <2>1 DEF Follows, SentUpTo
    <2>. QED BY <2>1, <2>2, <1>1, <1>6, ViewStays DEF InOrder, PageTypes
  <1>5. OwnLogged'
    <2>1. \A q: Logged(q) => Logged(q)'
      BY <1>6, LogStaysLogged
    <2>. QED BY <2>1 DEF OwnLogged
  <1>. QED BY <1>2, <1>3, <1>4, <1>5

(* A row is added to what is on its way.                                   *)
LEMMA RowSent ==
    ASSUME PageTypes, NEW n \in Nat, Follows(n), NEW row \in RowType, row.kind # "bye",
           wire' = Append(wire, row), client' = "live", ~Opened',
           \A i \in DOMAIN wire: wire[i].kind # "bye",
           IF wire = <<>> THEN row.seq <= n + 1 ELSE row.seq = wire[Len(wire)].seq + 1,
           stream' = "subscribed" => row.seq = Len(log'),
           stream' = "polling" => row.seq = cursor'
    PROVE  Follows(n)'
  <1>1. /\ DOMAIN wire' = DOMAIN wire \cup {Len(wire) + 1} /\ wire'[Len(wire) + 1] = row
        /\ Len(wire') = Len(wire) + 1 /\ wire' # <<>>
        /\ \A i \in DOMAIN wire: wire'[i] = wire[i]
    BY RowAdded DEF PageTypes
  <1>2. \A i \in DOMAIN wire': wire'[i].kind # "bye"
    BY <1>1
  <1>3. ASSUME NEW i \in DOMAIN wire', i # 1 PROVE wire'[i].seq = wire'[i - 1].seq + 1
    <2>1. CASE i \in DOMAIN wire
      <3>1. i - 1 \in DOMAIN wire
        BY <1>3, <2>1 DEF PageTypes
      <3>. QED BY <1>1, <1>3, <2>1, <3>1 DEF Follows
    <2>2. CASE i = Len(wire) + 1
      <3>1. wire # <<>> /\ Len(wire) \in DOMAIN wire /\ i - 1 = Len(wire)
        BY <1>3, <2>2 DEF PageTypes
      <3>. QED BY <1>1, <2>2, <3>1
    <2>. QED BY <1>1, <2>1, <2>2
  <1>4. wire'[1].seq <= n + 1
    <2>1. CASE wire = <<>>
      BY <1>1, <2>1
    <2>2. CASE wire # <<>>
      <3>1. 1 \in DOMAIN wire
        BY <2>2 DEF PageTypes
      <3>. QED BY <1>1, <2>2, <3>1 DEF Follows
    <2>. QED BY <2>1, <2>2
  <1>5. SentUpTo(n, row.seq)'
    BY <1>1 DEF SentUpTo
  <1>. QED BY <1>1, <1>2, <1>3, <1>4, <1>5 DEF Follows, SentUpTo

(* The worker writes a row, and sends it to who has subscribed.            *)
LEMMA EmittedInOrder ==
    ASSUME LogInv, PageInv, Alive, NEW k \in {"event", "unlisted", "error", "done"}, NEW s \in Final \cup {"none"},
           Emit(k, s), WorkerTurn, worker' # "dead"
    PROVE  PageInv'
  <1>. USE DEF PageInv
  <1>0. PICK row: row = Row(seq + 1, k, s)
    OBVIOUS
  <1>1. /\ row \in RowType /\ row.seq = Len(log) + 1 /\ row.kind = k
        /\ log' = Append(log, row) /\ Len(log') = Len(log) + 1
        /\ UNCHANGED <<remote, server, cursor, client, view, active, request>>
    BY <1>0, EmitRow DEF Emit, page, ask
  <1>2. /\ stream # "subscribed" => UNCHANGED <<wire, stream>>
        /\ stream = "subscribed" => wire' = Append(wire, row) /\ stream' \in {"subscribed", "closed"}
    BY <1>0 DEF Emit
  <1>3. Opened' = Opened
    BY <1>1 DEF Opened
  <1>4. worker # "dead" /\ (Opened => remote) /\ ~Cancelling /\ ~Cancelling'
    BY <1>1 DEF Alive, WorkerTurn, Opened, LogInv, CancelWrote, Cancelling
  <1>5. Connections'
    BY <1>1, <1>2, <1>3, <1>4 DEF Connections, LogInv, Types, PageTypes, Opened
  <1>6. CASE stream # "subscribed"
    BY <1>1, <1>2, <1>3, <1>4, <1>5, <1>6, LogGrows DEF LogInv, Types
  <1>7. CASE stream = "subscribed"
    <2>1. /\ DOMAIN log' = DOMAIN log \cup {Len(log) + 1} /\ log'[Len(log) + 1] = row
          /\ \A i \in DOMAIN log: log'[i] = log[i]
      BY <1>1, RowAdded DEF LogInv, Types
    <2>0. LogStays
      BY <2>1 DEF LogStays
    <2>2. /\ wire' \in Seq(RowType) /\ DOMAIN wire' = DOMAIN wire \cup {Len(wire) + 1}
          /\ wire'[Len(wire) + 1] = row /\ \A i \in DOMAIN wire: wire'[i] = wire[i]
      <3>1. wire' = Append(wire, row) /\ wire \in Seq(RowType) /\ row \in RowType
        BY <1>1, <1>2, <1>7 DEF PageTypes
      <3>. QED BY <3>1, RowAdded
    <2>3. PageTypes' /\ ViewGapless'
      BY <1>1, <1>2, <1>7, <2>2, <2>1, <2>0, ViewStays DEF PageTypes
    <2>4. RowsNamed'
      BY <1>1, <2>1, <2>2 DEF RowsNamed, Named, LogInv, Types
    <2>5. InOrder'
      <3>1. PICK n \in Nat: ShownUpTo(n) /\ Follows(n)
        BY DEF InOrder
      <3>2. client' = "live" /\ ~Opened' /\ \A i \in DOMAIN wire: wire[i].kind # "bye"
        BY <1>1, <1>7, <3>1 DEF Connections, Opened, Follows
      <3>3. IF wire = <<>> THEN row.seq <= n + 1 ELSE row.seq = wire[Len(wire)].seq + 1
        BY <1>1, <1>7, <3>1 DEF Follows, SentUpTo, LogInv, Types
      <3>4. Follows(n)'
        BY <1>1, <1>2, <1>7, <3>1, <3>2, <3>3, RowSent
      <3>. QED BY <1>1, <3>1, <3>4, <2>1, <2>0, ViewStays DEF InOrder, PageTypes
    <2>6. OwnLogged'
      <3>1. row.seq \in DOMAIN log' /\ log'[row.seq] = row
        BY <1>1, <2>1
      <3>2. Logged(row)'
        BY <3>1 DEF Logged
      <3>3. ASSUME NEW q, Logged(q) PROVE Logged(q)'
        BY <2>0, <3>3, LogStaysLogged
      <3>4. ASSUME ~remote'
            PROVE  (\A i \in DOMAIN view: Logged(view[i])) /\ (\A i \in DOMAIN wire: Logged(wire[i]))
        BY <1>1, <1>4, <3>4 DEF OwnLogged
      <3>5. ASSUME ~remote', NEW i \in DOMAIN view' PROVE Logged(view[i])'
        <4>1. Logged(view[i]) /\ view'[i] = view[i]
          BY <1>1, <3>4, <3>5
        <4>. QED BY <3>3, <4>1
      <3>6. ASSUME NEW i \in DOMAIN wire', ~remote' \/ wire'[i].kind = "unlisted"
            PROVE  Logged(wire[i])'
        <4>1. CASE i \in DOMAIN wire
          <5>1. Logged(wire[i]) /\ wire'[i] = wire[i]
            BY <2>2, <3>4, <3>6, <4>1 DEF OwnLogged
          <5>. QED BY <3>3, <5>1
        <4>2. CASE i = Len(wire) + 1
          BY <2>2, <3>2, <4>2
        <4>. QED BY <2>2, <3>6, <4>1, <4>2
      <3>. QED BY <3>5, <3>6 DEF OwnLogged
    <2>. QED BY <1>5, <2>3, <2>4, <2>5, <2>6
  <1>. QED BY <1>6, <1>7

(* The cancel handler writes a row, of a run that nobody works on: nobody  *)
(* has subscribed to it.                                                   *)
LEMMA CancelTells ==
    ASSUME LogInv, PageInv, CancelExplains \/ CancelConcludes
    PROVE  PageInv'
  <1>1. /\ Cancelling /\ worker = "dead" /\ log \in Seq(RowType) /\ LogNumbered
        /\ server # "opened" /\ server' \in {"concluding", "idle"} /\ stream # "subscribed"
        /\ client # "loading"
    BY DEF LogInv, PageInv, CancelWrote, Cancelling, CancelExplains, CancelConcludes, Connections, Types
  <1>2. /\ UNCHANGED <<remote, worker, stream, cursor, wire, client, view, active>>
        /\ request' \in {request, "answered"}
    BY DEF CancelExplains, CancelConcludes, run, page, ask
  <1>3. PICK row \in RowType: row.kind # "bye" /\ row.seq = Len(log) + 1 /\ log' = Append(log, row)
    <2>1. CASE CancelExplains
      <3>1. log' = Append(log, Row(nextSeq, "error", "none")) /\ nextSeq = Len(log) + 1
        BY <2>1 DEF CancelExplains, LogInv, CancelWrote
      <3>. QED BY <3>1 DEF Row, RowType, LogInv, Types
    <2>2. CASE CancelConcludes
      <3>1. log' = Append(log, Row(nextSeq + 1, "done", "cancelled")) /\ nextSeq = Len(log)
        BY <2>2 DEF CancelConcludes, LogInv, CancelWrote
      <3>. QED BY <3>1 DEF Row, RowType, LogInv, Types, Final
    <2>. QED BY <2>1, <2>2
  <1>4. Len(log') = Len(log) + 1 /\ Len(log) \in Nat
    BY <1>1, <1>3
  <1>5. Opened' = Opened
    BY <1>1 DEF Opened
  <1>6. Connections'
    BY <1>1, <1>2, <1>4, <1>5 DEF PageInv, Connections, PageTypes, Opened
  <1>. QED BY <1>1, <1>2, <1>3, <1>5, <1>6, LogGrows

(* The steps that neither send nor show anything.                          *)
LEMMA QuietSteps ==
    ASSUME LogInv, PageInv,
           \/ Finalise \/ WorkerDies \/ FetchRun \/ CancelNumbers \/ CancelFinalises
           \/ Cancel \/ Refetch \/ UNCHANGED vars
    PROVE  PageInv'
  <1>1. CASE Finalise \/ WorkerDies
    <2>1. /\ UNCHANGED <<remote, log, stream, cursor, wire, client, view, active, server, request>>
          /\ remote \/ (worker # "dead" /\ worker' # "dead")
      BY <1>1 DEF Finalise, WorkerDies, db, serve, page, ask
    <2>. QED BY <2>1, NothingSent
  <1>2. CASE FetchRun \/ CancelNumbers \/ CancelFinalises \/ Cancel \/ Refetch
    <2>1. UNCHANGED <<remote, worker, log, stream, cursor, wire, client, view, active>>
      BY <1>2 DEF FetchRun, CancelNumbers, CancelFinalises, Cancel, Refetch, run, db, serve, page
    <2>2. /\ server # "opened" /\ server' # "opened" /\ (server' = "fetching" => client = "loading")
          /\ client = "loading" => request' = request /\ ~Cancelling'
      BY <1>2 DEF FetchRun, CancelNumbers, CancelFinalises, Cancel, Refetch, ServerIdle, serve,
                  PageInv, Connections, Cancelling
    <2>. QED BY <2>1, <2>2, NothingSent
  <1>3. CASE UNCHANGED vars
    <2>1. UNCHANGED <<remote, worker, log, stream, cursor, wire, client, view, active, server, request>>
      BY <1>3 DEF vars, run, db, serve, page, ask
    <2>. QED BY <2>1, NothingSent
  <1>. QED BY <1>1, <1>2, <1>3

(* The steps at which the page or the server hangs up, or tries again.     *)
LEMMA HangUpSteps ==
    ASSUME PageInv, Lose \/ ServerDies \/ Retry \/ ShowRefetched
    PROVE  PageInv'
  <1>. USE DEF PageInv
  <1>1. CASE Lose \/ Retry
    <2>1. /\ UNCHANGED <<remote, worker, log, view, cursor, active, server, request>>
          /\ wire' = <<>> /\ stream' = "closed"
          /\ client \in {"live", "retrying"} /\ client' \in {"retrying", "connecting"}
      BY <1>1 DEF Lose, Retry, run, db, serve, ask, Connections, PageTypes, Opened
    <2>2. ~Opened' /\ server \notin {"opened", "fetching"} /\ active
      BY <2>1 DEF Opened, Connections
    <2>3. PageTypes' /\ Connections'
      BY <2>1, <2>2 DEF PageTypes, Connections, Opened
    <2>. QED BY <2>1, <2>2, <2>3, HangingUp
  <1>2. CASE ServerDies
    <2>1. /\ UNCHANGED <<remote, log, view, cursor, active>> /\ worker' \in {worker, "dead"}
          /\ wire' = <<>> /\ stream' = "closed" /\ server' = "idle" /\ request' = "none"
          /\ client' = IF client \in {"connecting", "live"} THEN "retrying" ELSE client
      BY <1>2 DEF ServerDies, db
    <2>2. ~Opened' /\ ~Cancelling'
      BY <2>1 DEF Opened, Cancelling
    <2>3. PageTypes' /\ Connections'
      BY <2>1, <2>2 DEF PageTypes, Connections
    <2>. QED BY <2>1, <2>2, <2>3, HangingUp
  <1>3. CASE ShowRefetched
    <2>1. /\ UNCHANGED <<remote, worker, log, view, cursor, server>>
          /\ request = "refetched" /\ request' = "none" /\ active' \in BOOLEAN
      BY <1>3 DEF ShowRefetched, run, db
    <2>2. CASE active' = active
      <3>1. UNCHANGED <<client, stream, wire, active>>
        BY <1>3, <2>2 DEF ShowRefetched
      <3>. QED BY <2>1, <3>1, NothingSent
    <2>3. CASE active' # active
      <3>1. /\ wire' = <<>> /\ stream' = "closed"
            /\ client' = IF active' THEN "connecting" ELSE "closed"
        BY <1>3, <2>3 DEF ShowRefetched
      <3>2. server # "fetching" /\ (server = "opened" => active)
        BY <2>1 DEF Connections
      <3>3. server = "opened" => client' = "closed"
        BY <2>1, <2>3, <3>1, <3>2 DEF PageTypes
      <3>4. ~Opened'
        BY <2>1, <3>3 DEF Opened
      <3>5. PageTypes' /\ Connections'
        BY <2>1, <3>1, <3>2, <3>3, <3>4 DEF PageTypes, Connections
      <3>. QED BY <2>1, <3>1, <3>4, <3>5, HangingUp
    <2>. QED BY <2>2, <2>3
  <1>. QED BY <1>1, <1>2, <1>3

(* The page shows what it is told of a run when it is opened.              *)
LEMMA FetchedInOrder == ASSUME LogInv, PageInv, FetchEvents PROVE PageInv'
  <1>. USE DEF PageInv
  <1>1. /\ UNCHANGED <<remote, worker, log, stream, cursor, wire, request>>
        /\ server = "fetching" /\ server' = "idle" /\ view' = Rows(0) /\ active' \in BOOLEAN
        /\ client' = IF active' THEN "connecting" ELSE "closed"
    BY DEF FetchEvents, run, db
  <1>2. client = "loading" /\ ~Opened /\ wire = <<>> /\ stream = "closed" /\ DOMAIN wire = {}
    BY <1>1 DEF Connections, Opened
  <1>3. ~Opened' /\ ~Cancelling'
    BY <1>1 DEF Opened, Cancelling
  <1>4. /\ view' \in Seq(RowType) /\ Len(view') = Len(log) /\ log \in Seq(RowType)
        /\ \A i \in 1 .. Len(log): view'[i] = log[i] /\ log[i].seq = i
    <2>1. log \in Seq(RowType) /\ LogNumbered /\ 0 \in 0 .. Len(log)
      BY DEF LogInv, Types
    <2>. QED BY <1>1, <2>1, RowsFollow DEF LogNumbered
  <1>5. PageTypes' /\ Connections'
    BY <1>1, <1>2, <1>3, <1>4 DEF PageTypes, Connections
  <1>6. RowsNamed'
    BY <1>1, <1>4 DEF RowsNamed, Named
  <1>7. \A k \in 0 .. Len(log): Told(k)' = 1 .. k
    <2>. SUFFICES ASSUME NEW k \in 0 .. Len(log) PROVE Told(k)' = 1 .. k
      OBVIOUS
    <2>1. \A j \in 1 .. k: view'[j].seq = j
      BY <1>4
    <2>. QED BY <2>1 DEF Told, Numbers, Bye, Row
  <1>8. ViewGapless'
    <2>. SUFFICES ASSUME NEW i \in DOMAIN view'
                  PROVE  Told(i - 1)' = 1 .. view'[i].seq - 1
      BY <1>4 DEF ViewGapless, Told
    <2>1. i \in 1 .. Len(log) /\ i - 1 \in 0 .. Len(log) /\ view'[i].seq = i
      BY <1>4
    <2>. QED BY <2>1, <1>7
  <1>9. InOrder'
    <2>1. Told(Len(view))' = 1 .. Len(log)
      BY <1>4, <1>7 DEF Told
    <2>2. Follows(Len(log))'
      <3>. DEFINE n == Len(log)
      <3>. SUFFICES \E m \in {n}: Follows(m)'
        BY <1>1
      <3>. HIDE DEF n
      <3>. QED BY <1>1, <1>2, <1>3 DEF Follows
    <2>3. ShownUpTo(Len(log))'
      <3>. DEFINE n == Len(log)
      <3>. SUFFICES \A m \in {n}: ShownUpTo(m)'
        BY <1>1
      <3>. HIDE DEF n
      <3>1. Told(Len(view))' = 1 .. n
        BY <2>1 DEF n
      <3>. QED BY <3>1 DEF ShownUpTo
    <2>. QED BY <1>1, <1>4, <2>2, <2>3 DEF InOrder
  <1>10. OwnLogged'
    BY <1>1, <1>2, <1>4 DEF OwnLogged, Logged
  <1>. QED BY <1>5, <1>6, <1>8, <1>9, <1>10

(* A page that connects is first sent the whole log.                       *)
LEMMA OpenedInOrder == ASSUME LogInv, PageInv, Open PROVE PageInv'
  <1>. USE DEF PageInv
  <1>1. /\ UNCHANGED <<remote, worker, log, stream, view, client, active, request>>
        /\ server = "idle" /\ server' = "opened" /\ client = "connecting"
        /\ wire' = Rows(0) /\ cursor' = LastSeq(wire')
    BY DEF Open, run, db, page, ask, ServerIdle
  <1>2. stream = "closed" /\ Opened' /\ ~Cancelling'
    BY <1>1 DEF Connections, Opened, Cancelling
  <1>3. /\ wire' \in Seq(RowType) /\ Len(wire') = Len(log) /\ log \in Seq(RowType)
        /\ \A i \in 1 .. Len(log): wire'[i] = log[i] /\ log[i].seq = i
    <2>1. log \in Seq(RowType) /\ LogNumbered /\ 0 \in 0 .. Len(log)
      BY DEF LogInv, Types
    <2>. QED BY <1>1, <2>1, RowsFollow DEF LogNumbered
  <1>4. cursor' = Len(log) /\ (wire' = <<>> => Len(log) = 0)
        /\ (wire' # <<>> => wire'[Len(wire')].seq = cursor')
    <2>1. CASE wire' = <<>>
      BY <1>1, <1>3, <2>1 DEF LastSeq
    <2>2. CASE wire' # <<>>
      <3>1. Len(log) \in 1 .. Len(log)
        BY <1>3, <2>2
      <3>. QED BY <1>1, <1>3, <2>2, <3>1 DEF LastSeq
    <2>. QED BY <2>1, <2>2
  <1>5. PageTypes' /\ Connections'
    BY <1>1, <1>2, <1>3, <1>4 DEF PageTypes, Connections
  <1>6. RowsNamed' /\ ViewGapless'
    BY <1>1, <1>3, ViewStays, SameLogStays DEF RowsNamed, Named
  <1>7. InOrder'
    <2>1. PICK n \in Nat: ShownUpTo(n)
      BY DEF InOrder
    <2>2. \A i \in DOMAIN wire': wire'[i].kind # "bye" /\ wire'[i].seq = i
      BY <1>3 DEF RowsNamed
    <2>3. wire' # <<>> => wire'[1].seq = 1
      BY <1>3, <2>2
    <2>4. \A i \in DOMAIN wire': i # 1 => wire'[i].seq = wire'[i - 1].seq + 1
      BY <1>3, <2>2
    <2>5. Follows(n)'
      BY <1>1, <1>2, <1>4, <2>2, <2>3, <2>4 DEF Follows, SentUpTo
    <2>. QED BY <1>1, <2>1, <2>5, ViewStays, SameLogStays DEF InOrder, PageTypes
  <1>8. OwnLogged'
    <2>1. ASSUME NEW i \in DOMAIN wire' PROVE Logged(wire[i])'
      BY <1>1, <1>3, <2>1 DEF Logged
    <2>2. \A q: Logged(q) => Logged(q)'
      BY <1>1 DEF Logged
    <2>. QED BY <1>1, <2>1, <2>2 DEF OwnLogged
  <1>. QED BY <1>5, <1>6, <1>7, <1>8

(* The page is connected: the server follows the run, or says goodbye.     *)
LEMMA OpenCheckedInOrder == ASSUME LogInv, PageInv, OpenCheck PROVE PageInv'
  <1>. USE DEF PageInv
  <1>1. /\ UNCHANGED <<remote, worker, log, cursor, view, active, request>>
        /\ server = "opened" /\ server' = "idle" /\ stream = "closed" /\ ~Opened' /\ ~Cancelling'
    <2>1. /\ UNCHANGED <<remote, worker, log, cursor, view, active, request>>
          /\ server = "opened" /\ server' = "idle"
      BY DEF OpenCheck, run, db, ask
    <2>. QED BY <2>1 DEF Connections, Opened, Cancelling
  <1>2. CASE client # "connecting"
    <2>1. wire' = <<>> /\ UNCHANGED <<stream, client>>
      BY <1>2 DEF OpenCheck
    <2>2. PageTypes' /\ Connections'
      BY <1>1, <1>2, <2>1 DEF PageTypes, Connections
    <2>. QED BY <1>1, <2>1, <2>2, HangingUp
  <1>3. CASE client = "connecting"
    <2>1. /\ client' = "live" /\ active /\ cursor <= Len(log) /\ (~remote => cursor = Len(log))
          /\ SentUpTo(0, cursor)
      <3>1. Opened
        BY <1>1, <1>3 DEF Opened
      <3>. QED BY <1>3, <3>1 DEF OpenCheck, Connections, InOrder, Follows
    <2>2. PICK n \in Nat: ShownUpTo(n) /\ Follows(n)
      BY DEF InOrder
    <2>3. \A i \in DOMAIN wire: wire[i].kind # "bye"
      BY <1>3, <2>2 DEF Follows
    <2>4. CASE status = "running"
      <3>1. UNCHANGED wire /\ stream' = IF OwnsRun THEN "subscribed" ELSE "polling"
        BY <1>3, <2>4 DEF OpenCheck
      <3>2. IF OwnsRun THEN ~remote /\ worker # "dead" ELSE remote \/ worker = "dead"
        BY <2>4 DEF OwnsRun, Alive, LogInv, WorkerWrote, Types, Final
      <3>3. PageTypes' /\ Connections'
        BY <1>1, <2>1, <3>1, <3>2 DEF PageTypes, Connections
      <3>4. SentUpTo(n, cursor)
        BY <2>1 DEF SentUpTo, PageTypes
      <3>5. Follows(n)'
        BY <1>1, <2>1, <2>2, <2>3, <3>1, <3>2, <3>4 DEF Follows, SentUpTo
      <3>6. RowsNamed' /\ ViewGapless'
        BY <1>1, <3>1, ViewStays, SameLogStays DEF RowsNamed
      <3>7. InOrder'
        BY <1>1, <2>2, <3>5, ViewStays, SameLogStays DEF InOrder, PageTypes
      <3>8. OwnLogged'
        BY <1>1, <3>1 DEF OwnLogged, Logged
      <3>. QED BY <3>3, <3>6, <3>7, <3>8
    <2>5. CASE status # "running"
      <3>1. wire' = Append(wire, Bye) /\ UNCHANGED stream
        BY <1>3, <2>5 DEF OpenCheck
      <3>2. Bye \in RowType /\ Bye.kind = "bye"
        BY DEF Bye, Row, RowType
      <3>3. /\ wire' \in Seq(RowType) /\ DOMAIN wire' = DOMAIN wire \cup {Len(wire) + 1}
            /\ wire'[Len(wire) + 1] = Bye /\ \A i \in DOMAIN wire: wire'[i] = wire[i]
            /\ Len(wire') = Len(wire) + 1
        <4>1. wire \in Seq(RowType)
          BY DEF PageTypes
        <4>. QED BY <3>1, <3>2, <4>1, RowAdded
      <3>4. PageTypes' /\ Connections'
        BY <1>1, <2>1, <3>1, <3>3 DEF PageTypes, Connections
      <3>5. RowsNamed' /\ ViewGapless'
        BY <1>1, <3>2, <3>3, ViewStays, SameLogStays DEF RowsNamed, Named
      <3>6. Follows(n)'
        <4>1. \A i \in DOMAIN wire': wire'[i].kind = "bye" => i = Len(wire')
          BY <2>3, <3>3
        <4>2. ASSUME NEW i \in DOMAIN wire', i # 1, wire'[i].kind # "bye"
              PROVE  wire'[i].seq = wire'[i - 1].seq + 1
          <5>1. i \in DOMAIN wire /\ i - 1 \in DOMAIN wire
            BY <3>2, <3>3, <4>2 DEF PageTypes
          <5>. QED BY <2>2, <3>3, <4>2, <5>1 DEF Follows
        <4>3. ASSUME wire'[1].kind # "bye" PROVE wire'[1].seq <= n + 1
          <5>1. 1 \in DOMAIN wire /\ wire # <<>>
            BY <3>2, <3>3, <4>3 DEF PageTypes
          <5>. QED BY <2>2, <3>3, <4>3, <5>1 DEF Follows
        <4>. QED BY <1>1, <2>1, <3>1, <4>1, <4>2, <4>3 DEF Follows
      <3>7. InOrder'
        BY <1>1, <2>2, <3>6, ViewStays, SameLogStays DEF InOrder, PageTypes
      <3>8. OwnLogged'
        BY <1>1, <3>2, <3>3 DEF OwnLogged, Logged
      <3>. QED BY <3>4, <3>5, <3>7, <3>8
    <2>. QED BY <2>4, <2>5
  <1>. QED BY <1>2, <1>3

(* A poll that finds the run over without its run:done makes one up.       *)
LEMMA PollCheckedInOrder == ASSUME LogInv, PageInv, PollCheck PROVE PageInv'
  <1>. USE DEF PageInv
  <1>1. /\ UNCHANGED <<remote, worker, log, cursor, view, client, active, request>>
        /\ server \notin {"opened", "fetching"} /\ server' = "idle" /\ ~Opened' /\ ~Cancelling'
    <2>1. /\ UNCHANGED <<remote, worker, log, cursor, view, client, active, request>>
          /\ server \notin {"opened", "fetching"} /\ server' = "idle"
      BY DEF PollCheck, run, db, page, ask
    <2>. QED BY <2>1 DEF Opened, Cancelling
  <1>2. CASE ~(stream = "polling" /\ status # "running")
    <2>1. UNCHANGED <<stream, wire>>
      BY <1>2 DEF PollCheck
    <2>. QED BY <1>1, <2>1, NothingSent
  <1>3. CASE stream = "polling" /\ status # "running"
    <2>1. /\ stream' = "closed"
          /\ wire' = wire \/ wire' = Append(wire, Row(cursor + 1, "done", status))
      BY <1>3 DEF PollCheck
    <2>2. client = "live" /\ (remote \/ worker = "dead") /\ ~Opened /\ active
      BY <1>3 DEF Connections, Opened
    <2>3. PICK n \in Nat: ShownUpTo(n) /\ Follows(n)
      BY DEF InOrder
    <2>4. SentUpTo(n, cursor) /\ \A i \in DOMAIN wire: wire[i].kind # "bye"
      BY <1>3, <2>3 DEF Follows
    <2>5. (\A i \in DOMAIN wire': wire'[i].kind = "unlisted" => Logged(wire[i])') => OwnLogged'
      BY <1>1, <2>2 DEF OwnLogged
    <2>6. CASE wire' = wire
      <3>1. PageTypes' /\ Connections'
        BY <1>1, <2>1, <2>2, <2>6 DEF PageTypes, Connections
      <3>2. RowsNamed' /\ ViewGapless'
        BY <1>1, <2>6, ViewStays, SameLogStays DEF RowsNamed
      <3>3. Follows(n)'
        BY <1>1, <2>1, <2>3, <2>4, <2>6 DEF Follows
      <3>4. OwnLogged'
        BY <1>1, <2>5, <2>6, LogStaysLogged, SameLogStays DEF OwnLogged
      <3>. QED BY <1>1, <2>3, <3>1, <3>2, <3>3, <3>4, ViewStays, SameLogStays DEF InOrder, PageTypes
    <2>7. CASE wire' = Append(wire, Row(cursor + 1, "done", status))
      <3>1. PICK row: row = Row(cursor + 1, "done", status)
        OBVIOUS
      <3>2. /\ row \in RowType /\ row.kind = "done" /\ row.seq = cursor + 1
            /\ wire' = Append(wire, row) /\ wire \in Seq(RowType)
        BY <1>3, <2>7, <3>1 DEF Row, RowType, PageTypes, LogInv, Types
      <3>3. /\ wire' \in Seq(RowType) /\ DOMAIN wire' = DOMAIN wire \cup {Len(wire) + 1}
            /\ wire'[Len(wire) + 1] = row /\ \A i \in DOMAIN wire: wire'[i] = wire[i]
        BY <3>2, RowAdded
      <3>4. PageTypes' /\ Connections'
        BY <1>1, <2>1, <2>2, <3>3 DEF PageTypes, Connections
      <3>5. RowsNamed' /\ ViewGapless'
        BY <1>1, <3>2, <3>3, ViewStays, SameLogStays DEF RowsNamed, Named, PageTypes
      <3>6. IF wire = <<>> THEN row.seq <= n + 1 ELSE row.seq = wire[Len(wire)].seq + 1
        BY <2>4, <3>2 DEF SentUpTo, PageTypes
      <3>7. Follows(n)'
        BY <1>1, <2>1, <2>2, <2>3, <2>4, <3>2, <3>6, RowSent
      <3>8. ASSUME NEW i \in DOMAIN wire', wire'[i].kind = "unlisted" PROVE Logged(wire[i])'
        <4>1. i \in DOMAIN wire /\ wire'[i] = wire[i]
          BY <3>2, <3>3, <3>8
        <4>2. Logged(wire[i])
          BY <3>8, <4>1 DEF OwnLogged
        <4>. QED BY <1>1, <4>1, <4>2 DEF Logged
      <3>9. OwnLogged'
        BY <2>5, <3>8
      <3>. QED BY <1>1, <2>3, <3>4, <3>5, <3>7, <3>9, ViewStays, SameLogStays DEF InOrder, PageTypes
    <2>. QED BY <2>1, <2>6, <2>7
  <1>. QED BY <1>2, <1>3

(* A poll sends what has been logged since the last one.                   *)
LEMMA PolledInOrder == ASSUME LogInv, PageInv, PollReplay PROVE PageInv'
  <1>. USE DEF PageInv
  <1>0. PICK new: new = Rows(cursor)
    OBVIOUS
  <1>1. /\ UNCHANGED <<remote, worker, log, stream, view, client, active, request>>
        /\ stream = "polling" /\ server' \in {"polled", "polled done"}
    BY DEF PollReplay, run, db, page, ask
  <1>a. wire' = wire \o new
    BY <1>0 DEF PollReplay
  <1>b. cursor' = IF new = <<>> THEN cursor ELSE LastSeq(new)
    BY <1>0 DEF PollReplay
  <1>2. /\ client = "live" /\ (remote \/ worker = "dead") /\ cursor <= Len(log) /\ ~Opened' /\ ~Cancelling'
    BY <1>1 DEF Connections, Opened, Cancelling
  <1>3. /\ new \in Seq(RowType) /\ Len(new) = Len(log) - cursor /\ log \in Seq(RowType)
        /\ \A i \in 1 .. Len(new): new[i] = log[cursor + i] /\ new[i].seq = cursor + i
                                    /\ new[i].kind # "bye"
    <2>1. log \in Seq(RowType) /\ LogNumbered /\ cursor \in 0 .. Len(log)
      BY <1>2 DEF LogInv, Types, PageTypes
    <2>2. /\ new \in Seq(RowType) /\ Len(new) = Len(log) - cursor
          /\ \A i \in 1 .. Len(log) - cursor: new[i] = log[cursor + i]
      BY <1>0, <2>1, RowsFollow
    <2>3. \A i \in 1 .. Len(log) - cursor: cursor + i \in DOMAIN log
      BY <2>1
    <2>. QED BY <2>1, <2>2, <2>3 DEF LogNumbered, RowsNamed
  <1>4. cursor' = Len(log)
    <2>1. CASE new = <<>>
      <3>1. Len(new) = 0 /\ Len(log) \in Nat /\ cursor \in Nat
        BY <1>3, <2>1 DEF PageTypes
      <3>2. cursor = Len(log)
        BY <1>3, <3>1
      <3>. QED BY <1>b, <2>1, <3>2
    <2>2. CASE new # <<>>
      <3>1. Len(new) \in 1 .. Len(new) /\ cursor + Len(new) = Len(log)
        BY <1>2, <1>3, <2>2 DEF PageTypes
      <3>. QED BY <1>b, <1>3, <2>2, <3>1 DEF LastSeq
    <2>. QED BY <2>1, <2>2
  <1>5. /\ wire' \in Seq(RowType) /\ Len(wire') = Len(wire) + Len(new)
        /\ \A i \in DOMAIN wire: wire'[i] = wire[i]
        /\ \A i \in 1 .. Len(new): wire'[Len(wire) + i] = new[i]
        /\ wire \in Seq(RowType)
    <2>1. wire \in Seq(RowType)
      BY DEF PageTypes
    <2>2. /\ wire \o new \in Seq(RowType) /\ Len(wire \o new) = Len(wire) + Len(new)
          /\ \A i \in 1 .. Len(wire) + Len(new):
                (wire \o new)[i] = IF i <= Len(wire) THEN wire[i] ELSE new[i - Len(wire)]
      BY <1>3, <2>1, ConcatProperties
    <2>3. \A i \in DOMAIN wire: i \in 1 .. Len(wire) + Len(new) /\ i <= Len(wire)
      BY <1>3, <2>1
    <2>4. \A i \in 1 .. Len(new): /\ Len(wire) + i \in 1 .. Len(wire) + Len(new)
                                 /\ ~(Len(wire) + i <= Len(wire)) /\ (Len(wire) + i) - Len(wire) = i
      BY <1>3, <2>1
    <2>. QED BY <1>a, <2>1, <2>2, <2>3, <2>4
  <1>6. \A i \in DOMAIN wire': i \in DOMAIN wire \/ (i - Len(wire) \in 1 .. Len(new))
    BY <1>3, <1>5
  <1>7. \A i \in DOMAIN wire': i \notin DOMAIN wire => /\ wire'[i].seq = cursor + (i - Len(wire))
                                                    /\ wire'[i].kind # "bye"
    <2>1. ASSUME NEW i \in DOMAIN wire', i \notin DOMAIN wire
          PROVE  wire'[i].seq = cursor + (i - Len(wire)) /\ wire'[i].kind # "bye"
      <3>1. i - Len(wire) \in 1 .. Len(new) /\ Len(wire) + (i - Len(wire)) = i
        BY <1>5, <1>6, <2>1
      <3>. QED BY <1>3, <1>5, <3>1
    <2>. QED BY <2>1
  <1>8. PageTypes' /\ Connections'
    <2>1. PageTypes' /\ Len(log) \in Nat
      <3>1. view' \in Seq(RowType) /\ active' \in BOOLEAN /\ stream' = "polling" /\ client' = client
        BY <1>1 DEF PageTypes
      <3>2. wire' \in Seq(RowType) /\ cursor' \in Nat /\ Len(log) \in Nat
        BY <1>3, <1>4, <1>5
      <3>. QED BY <1>2, <3>1, <3>2 DEF PageTypes
    <2>2. /\ stream' = "polling" /\ client' = "live" /\ server' \notin {"fetching", "opened"}
          /\ cursor' <= Len(log') /\ active' /\ (remote' \/ worker' = "dead")
      <3>1. Len(log) <= Len(log)
        BY <2>1
      <3>2. cursor' <= Len(log')
        BY <1>1, <1>4, <3>1
      <3>3. active
        BY <1>2 DEF Connections
      <3>. QED BY <1>1, <1>2, <3>2, <3>3
    <2>3. Connections'
      BY <1>2, <2>2 DEF Connections
    <2>. QED BY <2>1, <2>3
  <1>9. RowsNamed' /\ ViewGapless'
    <2>1. ASSUME NEW i \in DOMAIN wire' PROVE Named(wire'[i])
      <3>1. CASE i \in DOMAIN wire
        BY <1>5, <3>1 DEF RowsNamed
      <3>2. CASE i \notin DOMAIN wire
        BY <1>5, <1>6, <1>7, <2>1, <3>2 DEF Named, PageTypes
      <3>. QED BY <3>1, <3>2
    <2>. QED BY <1>1, <2>1, ViewStays, SameLogStays DEF RowsNamed, Named
  <1>10. InOrder'
    <2>1. PICK n \in Nat: ShownUpTo(n) /\ Follows(n)
      BY DEF InOrder
    <2>2. SentUpTo(n, cursor) /\ \A i \in DOMAIN wire: wire[i].kind # "bye"
      BY <1>1, <2>1 DEF Follows
    <2>3. \A i \in DOMAIN wire': wire'[i].kind # "bye"
      BY <1>5, <1>7, <2>2
    <2>4. ASSUME NEW i \in DOMAIN wire', i # 1 PROVE wire'[i].seq = wire'[i - 1].seq + 1
      <3>1. CASE i \in DOMAIN wire
        <4>1. i - 1 \in DOMAIN wire
          BY <1>5, <2>4, <3>1
        <4>. QED BY <1>5, <2>1, <2>2, <2>4, <3>1, <4>1 DEF Follows
      <3>2. CASE i = Len(wire) + 1
        <4>1. wire # <<>> /\ i - 1 = Len(wire) /\ Len(wire) \in DOMAIN wire /\ i \notin DOMAIN wire
          BY <1>5, <2>4, <3>2
        <4>2. wire[Len(wire)].seq = cursor
          BY <2>2, <4>1 DEF SentUpTo
        <4>3. wire'[i].seq = cursor + (i - Len(wire))
          BY <1>7, <2>4, <4>1
        <4>. QED BY <1>5, <3>2, <4>1, <4>2, <4>3 DEF PageTypes
      <3>3. CASE i \notin DOMAIN wire /\ i - 1 \notin DOMAIN wire
        <4>1. i - 1 \in DOMAIN wire'
          BY <1>5, <2>4
        <4>2. wire'[i].seq = cursor + (i - Len(wire)) /\ wire'[i - 1].seq = cursor + ((i - 1) - Len(wire))
          BY <1>7, <2>4, <3>3, <4>1
        <4>. QED BY <1>5, <2>4, <4>2 DEF PageTypes
      <3>4. i \notin DOMAIN wire /\ i - 1 \in DOMAIN wire => i = Len(wire) + 1
        BY <1>5, <2>4
      <3>. QED BY <3>1, <3>2, <3>3, <3>4
    <2>5. wire' # <<>> => wire'[1].seq <= n + 1
      <3>1. CASE wire = <<>>
        <4>1. wire' # <<>> => 1 \in DOMAIN wire' /\ 1 \notin DOMAIN wire /\ Len(wire) = 0
          BY <1>5, <3>1
        <4>2. cursor <= n
          BY <2>2, <3>1 DEF SentUpTo
        <4>3. wire' # <<>> => wire'[1].seq = cursor + 1
          BY <1>7, <4>1
        <4>. QED BY <4>2, <4>3 DEF PageTypes
      <3>2. CASE wire # <<>>
        <4>1. 1 \in DOMAIN wire
          BY <1>5, <3>2
        <4>. QED BY <1>5, <2>1, <2>2, <3>2, <4>1 DEF Follows
      <3>. QED BY <3>1, <3>2
    <2>6. SentUpTo(n, cursor)'
      <3>1. CASE Len(new) = 0
        <4>1. cursor' = cursor /\ wire' = wire
          <5>1. new = <<>>
            BY <1>3, <3>1
          <5>. QED BY <1>a, <1>b, <1>5, <5>1, EmptySeq, ConcatEmptySeq
        <4>. QED BY <2>2, <4>1 DEF SentUpTo
      <3>2. CASE Len(new) # 0
        <4>1. Len(wire') \in DOMAIN wire' /\ Len(wire') \notin DOMAIN wire /\ wire' # <<>>
          BY <1>3, <1>5, <3>2
        <4>2. wire'[Len(wire')].seq = cursor + (Len(wire') - Len(wire))
          BY <1>7, <4>1
        <4>. QED BY <1>2, <1>3, <1>4, <1>5, <4>1, <4>2 DEF SentUpTo, PageTypes
      <3>. QED BY <3>1, <3>2
    <2>7. Follows(n)'
      BY <1>1, <1>2, <2>3, <2>4, <2>5, <2>6 DEF Follows
    <2>8. ShownUpTo(n)'
      BY <1>1, <2>1, ViewStays, SameLogStays DEF PageTypes
    <2>. QED BY <2>7, <2>8 DEF InOrder
  <1>11. OwnLogged'
    <2>1. ASSUME NEW i \in DOMAIN wire', wire'[i].kind = "unlisted" PROVE Logged(wire[i])'
      <3>1. CASE i \in DOMAIN wire
        <4>1. Logged(wire[i]) /\ wire'[i] = wire[i]
          BY <1>5, <2>1, <3>1 DEF OwnLogged
        <4>. QED BY <1>1, <4>1 DEF Logged
      <3>2. CASE i \notin DOMAIN wire
        <4>1. i - Len(wire) \in 1 .. Len(new) /\ Len(wire) + (i - Len(wire)) = i
          BY <1>5, <1>6, <2>1, <3>2
        <4>2. wire'[i] = new[i - Len(wire)]
          BY <1>5, <4>1
        <4>3. wire'[i] = log[cursor + (i - Len(wire))] /\ wire'[i].seq = cursor + (i - Len(wire))
          BY <1>3, <4>1, <4>2
        <4>4. cursor + (i - Len(wire)) \in DOMAIN log
          BY <1>2, <1>3, <4>1 DEF PageTypes
        <4>. QED BY <1>1, <4>3, <4>4 DEF Logged
      <3>. QED BY <3>1, <3>2
    <2>. QED BY <1>1, <1>2, <2>1 DEF OwnLogged
  <1>. QED BY <1>8, <1>9, <1>10, <1>11

(* What a page has been told of, when one more row is shown.               *)
LEMMA OneMoreTold ==
    ASSUME view \in Seq(RowType), NEW row \in RowType, view' = Append(view, row)
    PROVE  /\ \A k \in 0 .. Len(view): Told(k)' = Told(k)
           /\ Told(Len(view))' = Told(Len(view)) \cup ({row.seq} \ {0})
  <1>1. /\ Len(view') = Len(view) + 1 /\ Len(view) \in Nat /\ view'[Len(view) + 1] = row
        /\ \A i \in 1 .. Len(view): view'[i] = view[i]
    BY RowAdded
  <1>2. ASSUME NEW k \in 0 .. Len(view) PROVE Told(k)' = Told(k)
    <2>1. \A j \in 1 .. k: view'[j] = view[j]
      BY <1>1
    <2>2. {view'[j]: j \in 1 .. k} = {view[j]: j \in 1 .. k}
      BY <2>1
    <2>. QED BY <2>2 DEF Told, Numbers
  <1>3. {view'[j]: j \in 1 .. Len(view')} = {view[j]: j \in 1 .. Len(view)} \cup {row}
    <2>1. 1 .. Len(view') = 1 .. Len(view) \cup {Len(view) + 1}
      BY <1>1
    <2>. QED BY <1>1, <2>1
  <1>4. \A rows: Numbers(rows \cup {row}) = Numbers(rows) \cup ({row.seq} \ {0})
    BY DEF Numbers, Bye, Row
  <1>5. Told(Len(view))' = Told(Len(view)) \cup ({row.seq} \ {0})
    BY <1>3, <1>4 DEF Told, Numbers
  <1>. QED BY <1>2, <1>5

(* What has been seen is what has been told.                               *)
LEMMA SeenIsTold ==
    ASSUME view \in Seq(RowType)
    PROVE  Told(Len(view)) = Seen \ {0}
  BY DEF Told, Numbers, Seen, Bye, Row

(* A row that is new to the page, and of which it misses no earlier one.   *)
LEMMA ShownNext ==
    ASSUME view \in Seq(RowType), NEW row \in RowType, view' = Append(view, row), ViewGapless,
           UNCHANGED log,
           row.kind # "bye" => /\ row.seq \notin Told(Len(view))
                               /\ 1 .. row.seq - 1 \subseteq Told(Len(view)) \cup Unlisted
    PROVE  ViewGapless'
  <1>1. /\ DOMAIN view' = DOMAIN view \cup {Len(view) + 1} /\ Len(view) \in Nat
        /\ view'[Len(view) + 1] = row /\ \A i \in DOMAIN view: view'[i] = view[i]
    BY RowAdded
  <1>. SUFFICES ASSUME NEW i \in DOMAIN view', view'[i].kind # "bye"
                PROVE  /\ view'[i].seq \notin Told(i - 1)'
                       /\ 1 .. view'[i].seq - 1 \subseteq Told(i - 1)' \cup Unlisted
    BY DEF ViewGapless, Told, Unlisted
  <1>2. CASE i \in DOMAIN view
    <2>1. i - 1 \in 0 .. Len(view)
      BY <1>2
    <2>2. view[i].seq \notin Told(i - 1) /\ 1 .. view[i].seq - 1 \subseteq Told(i - 1) \cup Unlisted
      BY <1>1, <1>2 DEF ViewGapless, Told
    <2>. QED BY <1>1, <1>2, <2>1, <2>2, OneMoreTold
  <1>3. CASE i = Len(view) + 1
    <2>1. i - 1 = Len(view) /\ Len(view) \in 0 .. Len(view)
      BY <1>1, <1>3
    <2>2. Told(i - 1)' = Told(i - 1)
      BY <2>1, OneMoreTold
    <2>. QED BY <1>1, <1>3, <2>1, <2>2
  <1>. QED BY <1>1, <1>2, <1>3

(* The page shows a row it receives, unless it has seen it.                *)
LEMMA ReceivedInOrder == ASSUME LogInv, PageInv, Receive PROVE PageInv'
  <1>. USE DEF PageInv
  <1>1. /\ UNCHANGED <<remote, worker, log, cursor, server, request>>
        /\ client = "live" /\ wire # <<>>
    BY DEF Receive, run, db, ask
  <1>2. /\ wire \in Seq(RowType) /\ 1 \in DOMAIN wire /\ Len(wire) \in Nat /\ view \in Seq(RowType)
        /\ Tail(wire) \in Seq(RowType) /\ Len(Tail(wire)) = Len(wire) - 1
        /\ \A i \in 1 .. Len(wire) - 1: Tail(wire)[i] = wire[i + 1]
    BY <1>1 DEF PageTypes
  <1>3. PICK row \in RowType: row = wire[1]
    BY <1>2
  <1>4. Head(wire) = row
    BY <1>1, <1>2, <1>3
  <1>5. PICK n \in Nat: ShownUpTo(n) /\ Follows(n)
    BY DEF InOrder
  <1>6. IF row.kind = "bye" THEN row = Bye /\ row.seq = 0 ELSE row.seq \in 1 .. n + 1
    <2>1. row.seq \in Nat /\ Named(row)
      BY <1>2, <1>3 DEF RowType, RowsNamed
    <2>2. row.kind # "bye" => row.seq <= n + 1
      BY <1>1, <1>3, <1>5 DEF Follows
    <2>. QED BY <2>1, <2>2 DEF Named, Bye, Row
  <1>7. view' = IF Shows(row) THEN Append(view, row) ELSE view
    BY <1>4 DEF Receive
  <1>8. PICK m \in Nat: /\ ShownUpTo(m)' /\ n <= m /\ (row.kind # "bye" => row.seq <= m)
                         /\ ViewGapless' /\ view' \in Seq(RowType)
                         /\ \A i \in DOMAIN view': \/ i \in DOMAIN view /\ view'[i] = view[i]
                                                   \/ view'[i] = row /\ row.kind # "unlisted"
    <2>1. CASE ~Shows(row) /\ (row.kind = "bye" \/ row.seq <= n)
      <3>1. view' = view
        BY <1>7, <2>1
      <3>2. ShownUpTo(n)' /\ ViewGapless'
        BY <1>1, <1>2, <1>5, <3>1, ViewStays, SameLogStays
      <3>. QED BY <1>2, <2>1, <3>1, <3>2
    <2>2. CASE ~Shows(row) /\ row.kind # "bye" /\ row.seq = n + 1
      <3>1. view' = view
        BY <1>7, <2>2
      <3>2. row.seq \notin Seen
        <4>1. row.seq \notin 1 .. n /\ row.seq # 0
          BY <2>2
        <4>. QED BY <1>2, <1>5, <4>1, SeenIsTold DEF ShownUpTo
      <3>3. row.kind = "unlisted"
        BY <2>2, <3>2 DEF Shows, Listens
      <3>4. Logged(row)
        BY <1>2, <1>3, <3>3 DEF OwnLogged
      <3>5. row.seq \in Unlisted
        BY <3>3, <3>4 DEF Logged, Unlisted, Listens
      <3>6. Told(Len(view)) \subseteq 1 .. n + 1 /\ 1 .. n + 1 \subseteq Told(Len(view)) \cup Unlisted
        BY <1>5, <2>2, <3>5 DEF ShownUpTo
      <3>7. ShownUpTo(n + 1)
        BY <3>6 DEF ShownUpTo
      <3>8. ShownUpTo(n + 1)' /\ ViewGapless'
        BY <1>1, <1>2, <3>1, <3>7, ViewStays, SameLogStays
      <3>. QED BY <1>2, <2>2, <3>1, <3>8
    <2>3. CASE Shows(row)
      <3>1. view' = Append(view, row) /\ row.seq \notin Seen /\ row.kind # "unlisted"
        BY <1>7, <2>3 DEF Shows, Listens
      <3>2. /\ view' \in Seq(RowType) /\ DOMAIN view' = DOMAIN view \cup {Len(view) + 1}
            /\ view'[Len(view) + 1] = row /\ \A i \in DOMAIN view: view'[i] = view[i]
        BY <1>2, <3>1, RowAdded
      <3>3. Told(Len(view))' = Told(Len(view)) \cup ({row.seq} \ {0})
        BY <1>2, <3>1, OneMoreTold
      <3>4. row.kind # "bye" => /\ row.seq \notin Told(Len(view))
                                /\ 1 .. row.seq - 1 \subseteq Told(Len(view)) \cup Unlisted
        <4>1. row.seq \notin Told(Len(view))
          BY <1>2, <3>1, SeenIsTold
        <4>2. row.kind # "bye" => 1 .. row.seq - 1 \subseteq 1 .. n
          BY <1>6
        <4>. QED BY <1>5, <4>1, <4>2 DEF ShownUpTo
      <3>5. ViewGapless'
        BY <1>1, <1>2, <3>1, <3>4, ShownNext
      <3>6. Unlisted' = Unlisted
        BY <1>1 DEF Unlisted
      <3>7. CASE row.kind = "bye" \/ row.seq <= n
        <4>1. {row.seq} \ {0} \subseteq 1 .. n
          BY <1>6, <3>7
        <4>2. ShownUpTo(n)'
          BY <1>5, <3>3, <3>6, <4>1 DEF ShownUpTo
        <4>. QED BY <3>1, <3>2, <3>5, <3>7, <4>2
      <3>8. CASE row.kind # "bye" /\ row.seq = n + 1
        <4>1. 1 .. n + 1 = 1 .. n \cup {row.seq} /\ row.seq # 0
          BY <3>8
        <4>2. Told(Len(view))' = Told(Len(view)) \cup {row.seq}
          BY <3>3, <4>1
        <4>3. \A k \in {n + 1}: ShownUpTo(k)'
          BY <1>5, <3>6, <4>1, <4>2 DEF ShownUpTo
        <4>. QED BY <3>1, <3>2, <3>5, <3>8, <4>3
      <3>. QED BY <1>6, <3>7, <3>8
    <2>. QED BY <1>6, <2>1, <2>2, <2>3
  <1>9. ~Opened' /\ server \notin {"opened", "fetching"} /\ active
    BY <1>1 DEF Opened, Connections
  <1>10. CASE row.kind \in {"done", "bye"}
    <2>1. client' = "closed" /\ stream' = "closed" /\ wire' = <<>> /\ active' \in BOOLEAN
      BY <1>4, <1>10 DEF Receive, PageTypes
    <2>2. DOMAIN wire' = {} /\ wire' \in Seq(RowType)
      BY <2>1
    <2>3. PageTypes' /\ Connections'
      BY <1>1, <1>8, <1>9, <2>1, <2>2 DEF PageTypes, Connections
    <2>4. RowsNamed'
      BY <1>1, <1>2, <1>3, <1>8, <2>2 DEF RowsNamed
    <2>5. Follows(m)'
      BY <1>9, <2>1, <2>2 DEF Follows
    <2>6. OwnLogged'
      BY <1>1, <1>2, <1>3, <1>8, <2>2 DEF OwnLogged, Logged
    <2>. QED BY <1>8, <2>3, <2>4, <2>5, <2>6 DEF InOrder
  <1>11. CASE row.kind \notin {"done", "bye"}
    <2>1. wire' = Tail(wire) /\ UNCHANGED <<client, stream, active>>
      BY <1>4, <1>11 DEF Receive
    <2>2. /\ wire' \in Seq(RowType) /\ Len(wire') = Len(wire) - 1
          /\ \A i \in DOMAIN wire': i + 1 \in DOMAIN wire /\ wire'[i] = wire[i + 1]
      BY <1>2, <2>1
    <2>3. PageTypes' /\ Connections'
      BY <1>1, <1>8, <1>9, <2>1, <2>2 DEF PageTypes, Connections
    <2>4. RowsNamed'
      BY <1>1, <1>2, <1>3, <1>8, <2>2 DEF RowsNamed
    <2>5. \A i \in DOMAIN wire': wire'[i].kind = "bye" => i = Len(wire') /\ stream' = "closed" /\ client' = "live"
      BY <1>2, <1>5, <2>1, <2>2 DEF Follows
    <2>6. ASSUME NEW i \in DOMAIN wire', i # 1, wire'[i].kind # "bye"
          PROVE  wire'[i].seq = wire'[i - 1].seq + 1
      <3>1. i - 1 \in DOMAIN wire' /\ i + 1 \in DOMAIN wire /\ i + 1 # 1 /\ (i + 1) - 1 = (i - 1) + 1
        BY <2>2, <2>6
      <3>2. wire[i + 1].seq = wire[(i + 1) - 1].seq + 1
        BY <1>5, <2>2, <2>6, <3>1 DEF Follows
      <3>. QED BY <2>2, <3>1, <3>2
    <2>7. ASSUME wire' # <<>>, wire'[1].kind # "bye" PROVE wire'[1].seq <= m + 1
      <3>1. 1 \in DOMAIN wire' /\ 2 \in DOMAIN wire /\ wire'[1] = wire[2]
        BY <2>2, <2>7
      <3>2. wire[2].seq = wire[1].seq + 1
        BY <1>5, <2>7, <3>1 DEF Follows
      <3>3. row.seq <= m /\ row.seq \in Nat
        BY <1>8, <1>11 DEF RowType
      <3>. QED BY <1>3, <3>1, <3>2, <3>3
    <2>8. ASSUME NEW last \in Nat, SentUpTo(n, last) PROVE SentUpTo(m, last)'
      <3>1. wire[Len(wire)].seq = last
        BY <1>1, <2>8 DEF SentUpTo
      <3>2. CASE wire' = <<>>
        <4>1. Len(wire) = 1
          <5>1. Len(wire') = 0
            BY <3>2
          <5>2. Len(wire) \in Nat /\ Len(wire') = Len(wire) - 1
            BY <1>2, <2>2
          <5>. QED BY <5>1, <5>2
        <4>. QED BY <1>3, <1>8, <1>11, <3>1, <3>2, <4>1 DEF SentUpTo
      <3>3. CASE wire' # <<>>
        <4>1. Len(wire') \in DOMAIN wire' /\ Len(wire') + 1 = Len(wire)
          BY <1>2, <2>2, <3>3
        <4>2. wire'[Len(wire')].seq = last
          BY <2>2, <3>1, <4>1
        <4>. QED BY <3>3, <4>2 DEF SentUpTo
      <3>. QED BY <3>2, <3>3
    <2>9. Len(log) \in Nat /\ cursor \in Nat
      BY DEF LogInv, Types, PageTypes
    <2>10. stream' = "subscribed" => SentUpTo(m, Len(log))'
      BY <1>1, <1>5, <2>1, <2>8, <2>9 DEF Follows, SentUpTo
    <2>11. stream' = "polling" => SentUpTo(m, cursor)'
      BY <1>1, <1>5, <2>1, <2>8, <2>9 DEF Follows, SentUpTo
    <2>12. Follows(m)'
      BY <1>9, <2>5, <2>6, <2>7, <2>10, <2>11 DEF Follows
    <2>13. OwnLogged'
      <3>1. \A q: Logged(q) => Logged(q)'
        BY <1>1 DEF Logged
      <3>2. ASSUME NEW i \in DOMAIN wire', wire'[i].kind = "unlisted" PROVE Logged(wire'[i])
        BY <2>2, <3>2 DEF OwnLogged
      <3>3. ASSUME ~remote, worker # "dead"
            PROVE  (\A i \in DOMAIN view': Logged(view'[i])) /\ (\A i \in DOMAIN wire': Logged(wire'[i]))
        <4>1. (\A i \in DOMAIN view: Logged(view[i])) /\ (\A i \in DOMAIN wire: Logged(wire[i]))
          BY <3>3 DEF OwnLogged
        <4>. QED BY <1>2, <1>3, <1>8, <2>2, <4>1
      <3>. QED BY <1>1, <3>1, <3>2, <3>3 DEF OwnLogged
    <2>. QED BY <1>8, <2>3, <2>4, <2>12, <2>13 DEF InOrder
  <1>. QED BY <1>10, <1>11

(* At first nothing is shown and nothing is on its way.                    *)
LEMMA InitPageInv == Init => PageInv
  <1>. SUFFICES ASSUME Init PROVE PageInv
    OBVIOUS
  <1>1. DOMAIN log = {} /\ DOMAIN view = {} /\ DOMAIN wire = {} /\ Len(view) = 0
    BY DEF Init
  <1>2. RowsNamed /\ ViewGapless /\ OwnLogged
    BY <1>1 DEF RowsNamed, ViewGapless, OwnLogged
  <1>3. PageTypes
    <2>1. view = <<>> /\ wire = <<>> /\ active \in BOOLEAN
      BY DEF Init
    <2>2. cursor \in Nat /\ stream = "closed" /\ client = "loading"
      BY DEF Init
    <2>3. view \in Seq(RowType) /\ wire \in Seq(RowType)
      BY <2>1, EmptySeq
    <2>. QED BY <2>1, <2>2, <2>3 DEF PageTypes
  <1>4. Connections
    BY DEF Init, Connections, Opened, Cancelling
  <1>5. ShownUpTo(0) /\ Follows(0)
    <2>1. Told(Len(view)) = {}
      BY <1>1 DEF Told, Numbers
    <2>2. Follows(0)
      BY <1>1 DEF Init, Follows, Opened
    <2>. QED BY <2>1, <2>2 DEF ShownUpTo
  <1>. QED BY <1>1, <1>2, <1>3, <1>4, <1>5 DEF PageInv, InOrder

(* Every step keeps the page in order.                                     *)
LEMMA PageKept == ASSUME LogInv, PageInv, [Next]_vars PROVE PageInv'
  <1>1. CASE EmitEvent \/ ExplainFailure \/ Conclude
    <2>1. PICK k \in {"event", "unlisted", "error", "done"}, s \in Final \cup {"none"}: Emit(k, s)
      BY <1>1 DEF EmitEvent, ExplainFailure, Conclude, LogInv, Types
    <2>2. Alive /\ WorkerTurn /\ worker' # "dead"
      BY <1>1 DEF EmitEvent, ExplainFailure, Conclude, Alive
    <2>. QED BY <2>1, <2>2, EmittedInOrder
  <1>2. CASE Next /\ ~(EmitEvent \/ ExplainFailure \/ Conclude)
    BY <1>2, CancelTells, QuietSteps, HangUpSteps, FetchedInOrder, OpenedInOrder, OpenCheckedInOrder,
       PollCheckedInOrder, PolledInOrder, ReceivedInOrder
       DEF Next, WorkerStep, ServerStep, CancelStep, ClientStep
  <1>3. CASE UNCHANGED vars
    BY <1>3, QuietSteps
  <1>. QED BY <1>1, <1>2, <1>3

(* The inductive invariant of the page: it shows 1..n but for what it does *)
(* not listen to, and what is on its way, and what the server sends after  *)
(* that, goes on from there.                                               *)
THEOREM PageInTurn == LiveCancels = FALSE /\ Spec => []PageInv
  <1>. SUFFICES ASSUME LiveCancels = FALSE PROVE Spec => []PageInv
    OBVIOUS
  <1>1. LogInv /\ PageInv /\ [Next]_vars => PageInv'
    BY PageKept
  <1>. QED BY LogCorrect, InitPageInv, <1>1, PTL DEF Spec

(* Whatever connections break and whoever restarts, the page shows an event*)
(* once, after every earlier one that it listens to (the server's replay   *)
(* and polls, routes.ts; the page's list of numbers seen, RunDetail.tsx;   *)
(* its listeners, run-stream.ts).                                          *)
THEOREM NothingSkipped == LiveCancels = FALSE /\ Spec => []ViewGapless
  <1>. SUFFICES ASSUME LiveCancels = FALSE PROVE Spec => []ViewGapless
    OBVIOUS
  <1>1. PageInv => ViewGapless
    BY DEF PageInv
  <1>. QED BY PageInTurn, <1>1, PTL

(* A page that saw a run of the server itself end shows all of its log that*)
(* it has listeners for, and nothing the log does not hold (run-stream.ts, *)
(* run-events.ts, run-manager.ts).                                         *)
THEOREM ShownWhole == LiveCancels = FALSE /\ Spec => []OwnRunShownWhole
  <1>. SUFFICES ASSUME LiveCancels = FALSE PROVE Spec => []OwnRunShownWhole
    OBVIOUS
  <1>1. LogInv /\ PageInv => OwnRunShownWhole
    <2>. SUFFICES ASSUME LogInv, PageInv, ~remote, worker = "ended", HasDone(view)
                  PROVE  /\ {row \in {log[i]: i \in DOMAIN log}: Listens(row)}
                                \subseteq {view[i]: i \in DOMAIN view} \ {Bye}
                         /\ {view[i]: i \in DOMAIN view} \ {Bye} \subseteq {log[i]: i \in DOMAIN log}
      BY DEF OwnRunShownWhole
    <2>1. /\ log \in Seq(RowType) /\ view \in Seq(RowType)
          /\ \A i \in DOMAIN view: Named(view[i]) /\ Logged(view[i])
          /\ \A i \in DOMAIN log: log[i].kind # "bye" /\ log[i].seq = i
      BY DEF LogInv, PageInv, Types, PageTypes, RowsNamed, OwnLogged, LogNumbered
    <2>2. PICK d \in DOMAIN view: view[d].kind = "done"
      BY DEF HasDone
    <2>3. view[d].seq = Len(log) /\ Len(log) \in DOMAIN log
      BY <2>1, <2>2 DEF Logged, LogInv, DoneIsLast
    <2>4. PICK n \in Nat: ShownUpTo(n)
      BY DEF PageInv, InOrder
    <2>5. \A x: x \in Told(Len(view)) <=> x # 0 /\ \E i \in DOMAIN view: view[i].seq = x
      BY <2>1 DEF Told, Numbers, Bye, Row
    <2>6. Len(log) \in 1 .. n
      BY <2>1, <2>3, <2>4, <2>5 DEF ShownUpTo
    <2>7. ASSUME NEW i \in DOMAIN view, view[i] # Bye PROVE view[i] \in {log[j]: j \in DOMAIN log}
      BY <2>1, <2>7 DEF Named, Logged
    <2>8. ASSUME NEW j \in DOMAIN log, Listens(log[j])
          PROVE  \E i \in DOMAIN view: view[i] = log[j] /\ view[i] # Bye
      <3>1. j \in 1 .. n /\ j # 0
        BY <2>1, <2>6
      <3>2. j \notin Unlisted
        BY <2>1, <2>8 DEF Unlisted
      <3>3. j \in Told(Len(view))
        BY <2>4, <3>1, <3>2 DEF ShownUpTo
      <3>4. PICK i \in DOMAIN view: view[i].seq = j
        BY <2>5, <3>3
      <3>5. view[i].kind # "bye"
        BY <2>1, <3>1, <3>4 DEF Named, Bye, Row
      <3>6. view[i] = log[j]
        BY <2>1, <3>4, <3>5 DEF Logged
      <3>. QED BY <3>5, <3>6 DEF Bye, Row
    <2>. QED BY <2>7, <2>8
  <1>. QED BY LogCorrect, PageInTurn, <1>1, PTL
=============================================================================
