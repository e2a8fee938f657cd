------------------------------- MODULE RunLog -------------------------------
(***************************************************************************)
(* The log of one run and a browser page that follows it.  A worker writes *)
(* the run's events into the runs database and in the end its status; the  *)
(* UI server reads the database, streams the events to the page and may    *)
(* mark a run cancelled.  Either the worker is the server itself (runs     *)
(* started from the page) or it is another process (openthk run, the REPL);*)
(* then the statements of the two interleave, each one a transaction.      *)
(*                                                                         *)
(* A row of run_events is its sequence number and its kind; payloads are   *)
(* left out but for the status that run:done carries.  An event is         *)
(* "unlisted" when its type is not one of RUN_EVENT_TYPES                  *)
(* (stage:error-paused, stage:model-fallback): it is logged and streamed   *)
(* like the others, and the page has no listener for it.                   *)
(***************************************************************************)
EXTENDS Naturals, Sequences, FiniteSetsExt

CONSTANTS
    MaxEvents,    \* pipeline events of the run, a bound of the model only
    MaxLosses,    \* lost connections and server crashes, likewise
    MaxCancels,   \* clicks on cancel, likewise
    LiveCancels   \* whether runs of live workers elsewhere are cancelled too

ASSUME RunLogAssumption ==
    /\ MaxEvents \in Nat /\ MaxLosses \in Nat /\ MaxCancels \in Nat
    /\ LiveCancels \in BOOLEAN

VARIABLES
    remote,   \* the worker is another process than the server
    worker,   \* how far the worker is
    outcome,  \* the status with which it finishes
    seq,      \* its counter of events
    aborted,  \* controller.signal.aborted, of runs of the server
    log,      \* run_events, in the order of insertion
    status,   \* runs.status
    server,   \* the handler the server is in the middle of, between statements
    stream,   \* its side of the connection
    cursor,   \* lastSeq
    nextSeq,  \* nextSeq of the cancel handler
    wire,     \* rows on their way to the page
    client,   \* the page's side of the connection
    view,     \* the events on the page
    active,   \* active
    request,  \* the click on cancel that has not been worked off
    reply,    \* what getRun said of the run, on its way to the page
    losses, cancels

run    == <<remote, worker, outcome, seq, aborted>>
db     == <<log, status>>
serve  == <<server, stream, cursor, nextSeq>>
page   == <<client, view, active>>
ask    == <<request, reply, cancels>>
vars   == <<run, db, serve, wire, page, ask, losses>>

Final == {"success", "failed", "cancelled"}
Row(n, k, s) == [seq |-> n, kind |-> k, status |-> s]
Bye == Row(0, "bye", "none")

(* RUN_EVENT_TYPES and "done", the names the page adds listeners for.      *)
Listens(row) == row.kind # "unlisted"

Alive   == worker \in {"running", "errored", "finalised"}
OwnsRun == ~remote /\ Alive      \* isRunActive

(* getRunEvents: the rows after one, ordered by their sequence number; how *)
(* many of them precede a row says where it comes.                         *)
Rows(since) ==
    LET new == {i \in DOMAIN log: log[i].seq > since}
        Before(i) == {j \in new: log[j].seq < log[i].seq \/ (log[j].seq = log[i].seq /\ j < i)}
    IN  [n \in 1 .. Cardinality(new) |-> log[CHOOSE i \in new: Cardinality(Before(i)) = n - 1]]

LastSeq(rows) == IF rows = <<>> THEN 0 ELSE rows[Len(rows)].seq
HasDone(rows) == \E i \in DOMAIN rows: rows[i].kind = "done"

Init ==
    /\ remote \in BOOLEAN
    /\ worker = "running" /\ outcome = "none" /\ seq = 0 /\ aborted = FALSE
    /\ log = <<>> /\ status = "running"
    /\ server = "idle" /\ stream = "closed" /\ cursor = 0 /\ nextSeq = 0
    /\ wire = <<>>
    /\ client = "loading" /\ view = <<>> /\ active = FALSE
    /\ request = "none" /\ reply = "none" /\ losses = 0 /\ cancels = 0

-----------------------------------------------------------------------------
(* Turns.  A handler of the server does not wait between its statements,   *)
(* so a run of the server itself stands still meanwhile, and the server    *)
(* while such a run is being finished.                                     *)

(* Mutant: the handlers await between their statements.                    *)
WorkerAnytime == TRUE

WorkerTurn == remote \/ server = "idle"

ServerIdle == server = "idle" /\ (remote \/ worker \notin {"errored", "finalised"})

-----------------------------------------------------------------------------
(* The worker: emitRunEvent and finishRun, or the persisted tracker.       *)

Emit(k, s) ==
    LET row == Row(seq + 1, k, s) IN
    /\ seq' = seq + 1
    /\ log' = Append(log, row)
    /\ IF stream = "subscribed"
       THEN /\ wire' = Append(wire, row)
            /\ stream' = IF k = "done" THEN "closed" ELSE stream
       ELSE UNCHANGED <<wire, stream>>
    /\ UNCHANGED <<remote, aborted, server, cursor, nextSeq, page, ask, losses>>

(* Mutant: the tracker does not unsubscribe from the event bus.            *)
EmitEventLate ==
    /\ WorkerTurn /\ worker \in {"running", "ended"} /\ seq < MaxEvents
    /\ \E k \in {"event", "unlisted"}: Emit(k, "none")
    /\ UNCHANGED <<worker, outcome, status>>

EmitEvent ==
    /\ WorkerTurn /\ worker = "running" /\ seq < MaxEvents
    /\ \E k \in {"event", "unlisted"}: Emit(k, "none")
    /\ UNCHANGED <<worker, outcome, status>>

(* A run of the server that was aborted can still succeed but not fail; a  *)
(* command line has other signals, which the model leaves open.            *)
Outcomes == IF remote THEN Final
            ELSE IF aborted THEN {"success", "cancelled"} ELSE {"success", "failed"}

ExplainFailure ==
    /\ WorkerTurn /\ worker = "running" /\ "failed" \in Outcomes
    /\ worker' = "errored" /\ outcome' = "failed"
    /\ Emit("error", "none")
    /\ UNCHANGED status

Finalise ==
    /\ WorkerTurn
    /\ \/ worker = "running" /\ outcome' \in Outcomes
       \/ worker = "errored" /\ UNCHANGED outcome
    /\ worker' = "finalised" /\ status' = outcome'
    /\ UNCHANGED <<remote, seq, aborted, log, serve, wire, page, ask, losses>>

Conclude ==
    /\ WorkerTurn /\ worker = "finalised"
    /\ worker' = "ended"
    /\ Emit("done", outcome)
    /\ UNCHANGED <<outcome, status>>

(* The worker of another process dies, or ends without telling its tracker.*)
WorkerDies ==
    /\ remote /\ Alive /\ worker' = "dead"
    /\ UNCHANGED <<remote, outcome, seq, aborted, db, serve, wire, page, ask, losses>>

Finishing == worker # "running" /\ (Finalise \/ Conclude)
WorkerStep == EmitEvent \/ ExplainFailure \/ Finalise \/ Conclude \/ WorkerDies

-----------------------------------------------------------------------------
(* The page is opened: GET /api/runs/:id is two statements.                *)

FetchRun ==
    /\ ServerIdle /\ client = "loading"
    /\ reply' = IF status = "running" THEN "running" ELSE "final"
    /\ server' = "fetching"
    /\ UNCHANGED <<run, db, stream, cursor, nextSeq, wire, page, request, losses, cancels>>

FetchEvents ==
    /\ server = "fetching"
    /\ server' = "idle" /\ reply' = "none"
    /\ view' = Rows(0)
    /\ active' = (reply = "running")
    /\ client' = IF reply = "running" THEN "connecting" ELSE "closed"
    /\ UNCHANGED <<run, db, stream, cursor, nextSeq, wire, request, losses, cancels>>

-----------------------------------------------------------------------------
(* GET /api/runs/:id/stream.                                               *)

Open ==
    /\ ServerIdle /\ client = "connecting"
    /\ wire' = Rows(0) /\ cursor' = LastSeq(Rows(0))
    /\ server' = "opened"
    /\ UNCHANGED <<run, db, stream, nextSeq, page, ask, losses>>

(* The page may have hung up meanwhile.                                    *)
OpenCheck ==
    /\ server = "opened" /\ server' = "idle"
    /\ IF client # "connecting"
       THEN wire' = <<>> /\ UNCHANGED <<stream, client>>
       ELSE /\ client' = "live"
            /\ IF status = "running"
               THEN /\ stream' = IF OwnsRun THEN "subscribed" ELSE "polling"
                    /\ UNCHANGED wire
               ELSE wire' = Append(wire, Bye) /\ UNCHANGED stream
    /\ UNCHANGED <<run, db, cursor, nextSeq, view, active, ask, losses>>

PollReplay ==
    /\ ServerIdle /\ stream = "polling"
    /\ wire' = wire \o Rows(cursor)
    /\ cursor' = IF Rows(cursor) = <<>> THEN cursor ELSE LastSeq(Rows(cursor))
    /\ server' = IF HasDone(Rows(cursor)) THEN "polled done" ELSE "polled"
    /\ UNCHANGED <<run, db, stream, nextSeq, page, ask, losses>>

PollCheck ==
    /\ server \in {"polled", "polled done"} /\ server' = "idle"
    /\ IF stream = "polling" /\ status # "running"
       THEN /\ stream' = "closed"
            /\ wire' = IF server = "polled done" THEN wire
                       ELSE Append(wire, Row(cursor + 1, "done", status))
       ELSE UNCHANGED <<stream, wire>>
    /\ UNCHANGED <<run, db, cursor, nextSeq, page, ask, losses>>

-----------------------------------------------------------------------------
(* POST /api/runs/:id/cancel, and what the page does with the answer.      *)

Cancel ==
    /\ ServerIdle /\ client # "loading" /\ active /\ request = "none"
    /\ cancels < MaxCancels /\ cancels' = cancels + 1
    /\ LiveCancels \/ OwnsRun \/ ~Alive
    /\ \/ /\ OwnsRun
          /\ aborted' = TRUE /\ request' = "answered" /\ UNCHANGED server
       \/ /\ ~OwnsRun /\ status = "running"
          /\ server' = "cancelling" /\ request' = "posted" /\ UNCHANGED aborted
       \/ /\ ~OwnsRun /\ status # "running"
          /\ UNCHANGED <<aborted, request, server>>
    /\ UNCHANGED <<remote, worker, outcome, seq, db, stream, cursor, nextSeq, wire, page, reply, losses>>

LoggedSeqs == {log[i].seq: i \in DOMAIN log}

CancelNumbers ==
    /\ server = "cancelling" /\ server' = "finalising"
    /\ nextSeq' = Max(LoggedSeqs \cup {0}) + 1
    /\ UNCHANGED <<run, db, stream, cursor, wire, page, ask, losses>>

CancelFinalises ==
    /\ server = "finalising" /\ server' = "explaining"
    /\ status' = "cancelled"
    /\ UNCHANGED <<run, log, stream, cursor, nextSeq, wire, page, ask, losses>>

CancelExplains ==
    /\ server = "explaining" /\ server' = "concluding"
    /\ log' = Append(log, Row(nextSeq, "error", "none"))
    /\ UNCHANGED <<run, status, stream, cursor, nextSeq, wire, page, ask, losses>>

CancelConcludes ==
    /\ server = "concluding" /\ server' = "idle"
    /\ log' = Append(log, Row(nextSeq + 1, "done", "cancelled"))
    /\ request' = "answered"
    /\ UNCHANGED <<run, status, stream, cursor, nextSeq, wire, page, reply, losses, cancels>>

(* The page asks for the run again ...                                     *)
Refetch ==
    /\ ServerIdle /\ request = "answered" /\ request' = "refetched"
    /\ reply' = IF status = "running" THEN "running" ELSE "final"
    /\ UNCHANGED <<run, db, serve, wire, page, losses, cancels>>

(* ... and takes what it gets for the present: it subscribes again or hangs*)
(* up when active changes.                                                 *)
ShowRefetched ==
    /\ request = "refetched" /\ request' = "none" /\ reply' = "none"
    /\ active' = (reply = "running")
    /\ IF active' = active
       THEN UNCHANGED <<client, stream, wire>>
       ELSE /\ client' = IF active' THEN "connecting" ELSE "closed"
            /\ stream' = "closed" /\ wire' = <<>>
    /\ UNCHANGED <<run, db, server, cursor, nextSeq, view, losses, cancels>>

-----------------------------------------------------------------------------
(* subscribeRunStream and the page's onEvent.                              *)

Seen == {view[i].seq: i \in DOMAIN view}
Shows(row) == Listens(row) /\ row.seq \notin Seen

(* Mutant: events that come again after a reconnect are shown again.       *)
ReceiveAgain ==
    /\ client = "live" /\ wire # <<>>
    /\ view' = IF Listens(Head(wire)) THEN Append(view, Head(wire)) ELSE view
    /\ IF Head(wire).kind \in {"done", "bye"}
       THEN /\ client' = "closed" /\ stream' = "closed" /\ wire' = <<>>
            /\ active' = (active /\ Head(wire).kind # "done")
       ELSE wire' = Tail(wire) /\ UNCHANGED <<client, stream, active>>
    /\ UNCHANGED <<run, db, server, cursor, nextSeq, ask, losses>>

(* Mutant: the page listens to run:done only.                              *)
ReceiveNoBye ==
    /\ client = "live" /\ wire # <<>>
    /\ view' = IF Shows(Head(wire)) THEN Append(view, Head(wire)) ELSE view
    /\ IF Head(wire).kind = "done"
       THEN /\ client' = "closed" /\ stream' = "closed" /\ wire' = <<>>
            /\ active' = (active /\ Head(wire).seq \in Seen)
       ELSE wire' = Tail(wire) /\ UNCHANGED <<client, stream, active>>
    /\ UNCHANGED <<run, db, server, cursor, nextSeq, ask, losses>>

Receive ==
    /\ client = "live" /\ wire # <<>>
    /\ view' = IF Shows(Head(wire)) THEN Append(view, Head(wire)) ELSE view
    /\ IF Head(wire).kind \in {"done", "bye"}
       THEN /\ client' = "closed" /\ stream' = "closed" /\ wire' = <<>>
            /\ active' = (active /\ (Head(wire).kind = "bye" \/ Head(wire).seq \in Seen))
       ELSE wire' = Tail(wire) /\ UNCHANGED <<client, stream, active>>
    /\ UNCHANGED <<run, db, server, cursor, nextSeq, ask, losses>>

Retry ==
    /\ client = "retrying" /\ client' = "connecting"
    /\ UNCHANGED <<run, db, serve, wire, view, active, ask, losses>>

-----------------------------------------------------------------------------
(* Failures.                                                               *)

Lose ==
    /\ client = "live" /\ losses < MaxLosses
    /\ client' = "retrying" /\ stream' = "closed" /\ wire' = <<>>
    /\ losses' = losses + 1
    /\ UNCHANGED <<run, db, server, cursor, nextSeq, view, active, ask>>

(* The server dies, with the runs it works on, and is started again.       *)
ServerDies ==
    /\ losses < MaxLosses /\ losses' = losses + 1
    /\ worker' = IF OwnsRun THEN "dead" ELSE worker
    /\ server' = "idle" /\ stream' = "closed" /\ wire' = <<>>
    /\ client' = IF client \in {"connecting", "live"} THEN "retrying" ELSE client
    /\ request' = "none" /\ reply' = "none"
    /\ UNCHANGED <<remote, outcome, seq, aborted, db, cursor, nextSeq, view, active, cancels>>

-----------------------------------------------------------------------------
CancelStep == CancelNumbers \/ CancelFinalises \/ CancelExplains \/ CancelConcludes
ServerStep ==
    \/ FetchRun \/ FetchEvents \/ Open \/ OpenCheck \/ PollReplay \/ PollCheck
    \/ CancelStep \/ Refetch
ClientStep == ShowRefetched \/ Receive \/ Retry

Next == WorkerStep \/ ServerStep \/ ClientStep \/ Cancel \/ Lose \/ ServerDies

(* The server works off its requests and timers, a run that is being       *)
(* finished is finished unless its process dies, and the page handles what *)
(* it receives.  Nobody need cancel and the run need not end.              *)
Fairness == WF_vars(Finishing) /\ WF_vars(ServerStep) /\ WF_vars(ClientStep)

Spec == Init /\ [][Next]_vars /\ Fairness

-----------------------------------------------------------------------------
(* Properties.                                                             *)

RowOK(r) == /\ r.seq \in 0 .. MaxEvents + 3 /\ r.kind \in {"event", "unlisted", "error", "done", "bye"}
            /\ r.status \in Final \cup {"none"}

(* Every variable has its type.                                            *)
TypeOK ==
    /\ remote \in BOOLEAN /\ aborted \in BOOLEAN /\ active \in BOOLEAN
    /\ worker \in {"running", "errored", "finalised", "ended", "dead"}
    /\ outcome \in Final \cup {"none"} /\ status \in Final \cup {"running"}
    /\ seq \in 0 .. MaxEvents + 2
    /\ \A s \in {log, wire, view}: \A i \in DOMAIN s: RowOK(s[i])
    /\ server \in {"idle", "fetching", "opened", "polled", "polled done",
                   "cancelling", "finalising", "explaining", "concluding"}
    /\ stream \in {"closed", "subscribed", "polling"}
    /\ cursor \in Nat /\ nextSeq \in Nat
    /\ client \in {"loading", "connecting", "live", "retrying", "closed"}
    /\ request \in {"none", "posted", "answered", "refetched"}
    /\ reply \in {"none", "running", "final"}
    /\ losses \in 0 .. MaxLosses /\ cancels \in 0 .. MaxCancels

(* The sequence numbers in run_events count the rows from one: readers ask *)
(* for "seq > lastSeq" and the page drops numbers it has seen, so a number *)
(* used twice would hide an event.                                         *)
LogNumbered == \A i \in DOMAIN log: log[i].seq = i

(* A run is over once: run:done is the last row, it is written after the   *)
(* status, and it carries that status.                                     *)
DoneIsLast ==
    \A i \in DOMAIN log: log[i].kind = "done" => i = Len(log) /\ log[i].status = status

(* A status that is not "running" is never overwritten.                    *)
FinalStatusStays == [][status # "running" => status' = status]_vars

(* What has come from the log, or in its place, is numbered; goodbyes are  *)
(* not.                                                                    *)
Numbers(rows) == {r.seq: r \in rows} \ {Bye.seq}

(* The numbers of the rows for which the page has no listener.             *)
Unlisted == {log[i].seq: i \in {j \in DOMAIN log: ~Listens(log[j])}}

(* Whatever the connections lost, the page shows each event once, and none *)
(* before all the earlier ones that it listens to: only rows of the types  *)
(* it has no listener for may be missing between two others.               *)
ViewGapless ==
    \A i \in DOMAIN view: view[i].kind # "bye" =>
        LET told == Numbers({view[j]: j \in 1 .. i - 1}) IN
        view[i].seq \notin told /\ 1 .. view[i].seq - 1 \subseteq told \cup Unlisted

(* A page that saw a run of the server itself end without being closed by  *)
(* a person shows every row of the run that it listens to, and nothing that*)
(* the run has not logged.                                                 *)
OwnRunShownWhole ==
    ~remote /\ worker = "ended" /\ HasDone(view) =>
        LET shown  == {view[i]: i \in DOMAIN view} \ {Bye}
            logged == {log[i]: i \in DOMAIN log}
        IN  {row \in logged: Listens(row)} \subseteq shown /\ shown \subseteq logged

(* Every page that follows a run hears that it is over and hangs up.       *)
FollowersHangUp == status # "running" ~> client = "closed"
=============================================================================
