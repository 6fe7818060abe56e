------------------------------- MODULE Dashboard -------------------------------
(***************************************************************************)
(* One open page of the dashboard (apps/web dashboard-frame.tsx and        *)
(* use-realtime.ts), with what it reads from the API, and the index and    *)
(* risk jobs of its wallet that change what there is to read.              *)
(*                                                                         *)
(* The page has two queries, the portfolio and the risk snapshot.  It      *)
(* fetches them again when an event arrives, and by interval while it      *)
(* waits for something.  Events are a signal to fetch, never data, and     *)
(* those published while the socket is down are lost.  React Query is      *)
(* external: an interval does not disturb a fetch in flight, an            *)
(* invalidation cancels it and fetches again unless it is the first one.   *)
(*                                                                         *)
(* A portfolio or risk snapshot is the number of snapshots so far.         *)
(***************************************************************************)
EXTENDS JobQueue, Sequences

CONSTANTS
    FaultKinds,         \* which faults may happen in this instance
    MaxFaults,          \* bound: faults of a behaviour
    MaxJobs             \* bound: index jobs, the page's and those of others

AllFaults == {"indexError", "fetchError", "drop", "timeout", "reload"}
Queries == {"portfolio", "risk"}

ASSUME DashboardAssumption ==
    /\ FaultKinds \subseteq AllFaults
    /\ MaxFaults \in Nat
    /\ MaxJobs \in Nat \ {0}

VARIABLES
    jobs,           \* index jobs of the wallet, each with its run and its risk job
    database,       \* the wallet's row, runs by startedAt, portfolio and risk snapshots
    joined,         \* the page's socket is up and in the wallet's room
    arriving,       \* events on their way to the page; two of a kind count as one
    page,           \* the page's queries, its indexing flag, its refresh mutation
    missed,         \* history, per query: a change was not announced, or the page made
                    \* nothing of it, and the page has not read the database since
    faults          \* faults so far

server == << jobs, database >>
network == << joined, arriving >>
vars == << server, network, page, missed, faults >>

Fault(kind) ==
    /\ kind \in FaultKinds
    /\ faults < MaxFaults
    /\ faults' = faults + 1

NoData == [status |-> "none", version |-> 0]

NewPage ==
    [data |-> [q \in Queries |-> NoData],
     fetch |-> [q \in Queries |-> IF q = "portfolio" THEN "sent" ELSE "idle"],
     answer |-> [q \in Queries |-> NoData],
     indexing |-> FALSE,            \* indexingSince is set
     refresh |-> "idle"]

\* A row without a run is one that signing in or an alert rule has made.
Init ==
    /\ jobs = << >>
    /\ \E row \in BOOLEAN : database = [row |-> row, runs |-> << >>, portfolio |-> 0, risk |-> 0]
    /\ joined = FALSE /\ arriving = {}
    /\ page = NewPage
    /\ missed = [q \in Queries |-> FALSE]
    /\ faults = 0

-----------------------------------------------------------------------------
(* The API.                                                                *)

\* getPortfolio: the status is that of the run that was started last.
GetPortfolio ==
    [version |-> database.portfolio,
     status |-> CASE ~database.row -> "not-indexed"
                  [] database.row /\ database.runs = << >> -> "indexed"
                  [] OTHER -> database.runs[Len(database.runs)]]

GetRisk ==
    [version |-> database.risk, status |-> IF database.risk = 0 THEN "risk-pending" ELSE "ready"]

Read(q) == IF q = "portfolio" THEN GetPortfolio ELSE GetRisk

\* risk: "none", or the state of the risk job that the index job has added.
NewJob == [state |-> "waiting", attempts |-> 0, run |-> 0, risk |-> "none"]

MayRequest == Len(jobs) + (IF page.refresh = "sent" THEN 1 ELSE 0) < MaxJobs

\* Another page, an SDK client or Chainhook asks for the wallet.
OtherRequest ==
    /\ MayRequest
    /\ jobs' = Append(jobs, NewJob)
    /\ UNCHANGED << database, network, page, missed, faults >>

-----------------------------------------------------------------------------
(* The workers, as far as the page can see them; RefreshPipeline has them  *)
(* whole.                                                                  *)

RunOf(j) == IF jobs[j].run = 0 THEN Len(database.runs) + 1 ELSE jobs[j].run

\* upsert by correlation id: later attempts keep the run's place.
RunsWith(j, status) ==
    [r \in 1..(Len(database.runs) + (IF jobs[j].run = 0 THEN 1 ELSE 0)) |->
        IF r = RunOf(j) THEN status ELSE database.runs[r]]

\* One transaction: "processing" is never seen, nor what a run does before it.
PersistPortfolio(j) ==
    /\ Startable(jobs, j, 1)
    /\ database' = [database EXCEPT !.row = TRUE, !.portfolio = @ + 1,
                                    !.runs = RunsWith(j, "completed")]
    /\ jobs' = [jobs EXCEPT ![j].state = "active", ![j].run = RunOf(j)]
    /\ UNCHANGED << network, page, missed, faults >>

\* failIndexingRun, which publishes nothing, and the queue's own handling; before the
\* transaction or after it.
IndexThrows(j) ==
    /\ Startable(jobs, j, 1) \/ jobs[j].state = "active"
    /\ Fault("indexError")
    /\ database' = [database EXCEPT !.row = TRUE, !.runs = RunsWith(j, "failed")]
    /\ jobs' = [jobs EXCEPT ![j] = [Thrown(@) EXCEPT !.run = RunOf(j)]]
    /\ missed' = [missed EXCEPT !["portfolio"] = @ \/ jobs[j].state = "active"]
    /\ UNCHANGED << network, page >>

\* Redis and the gateway relay an event to whoever is in the room.
Publish(q) ==
    IF joined THEN arriving' = arriving \cup {q} /\ UNCHANGED missed
    ELSE missed' = [missed EXCEPT ![q] = TRUE] /\ UNCHANGED arriving

\* portfolio.updated, the risk job, and the end of the index job.
AnnouncePortfolio(j) ==
    /\ jobs[j].state = "active"
    /\ Publish("portfolio")
    /\ jobs' = [jobs EXCEPT ![j].state = "done", ![j].risk = "waiting"]
    /\ UNCHANGED << database, joined, page, faults >>

\* persistRiskSnapshot, then risk.updated.
RecalculateRisk(j) ==
    /\ jobs[j].risk = "waiting"
    /\ database' = [database EXCEPT !.risk = @ + 1]
    /\ Publish("risk")
    /\ jobs' = [jobs EXCEPT ![j].risk = "done"]
    /\ UNCHANGED << joined, page, faults >>

-----------------------------------------------------------------------------
(* The page.                                                               *)

HasSnapshot(p) == p.data["portfolio"].version > 0

Enabled(p, q) == q = "portfolio" \/ HasSnapshot(p)

\* The effect that settles the indexing flag, which runs after every change.
Settle(p) ==
    LET status == p.data["portfolio"].status
    IN  [p EXCEPT !.indexing = @ /\ ~ \/ status = "failed"
                                      \/ status \in {"completed", "indexed"} /\ HasSnapshot(p)]

Ended(p, q) ==
    [p EXCEPT !.fetch[q] = "idle", !.answer[q] = NoData,
              !.refresh = IF q = "portfolio" /\ @ = "settling" THEN "idle" ELSE @]

\* invalidateQueries: a first fetch in flight is left to itself.
Invalidate(p, q) ==
    IF ~Enabled(p, q) \/ (p.fetch[q] # "idle" /\ p.data[q] = NoData) THEN p
    ELSE [Ended(p, q) EXCEPT !.fetch[q] = "sent"]

\* Mutant: nothing is asked again while the first index runs.
Polls_ByStatus(q) ==
    \/ q = "portfolio" /\ page.data[q].status \in {"processing", "queued"}
    \/ q = "risk" /\ page.data[q].status = "risk-pending"

\* refetchInterval.
Polls(q) ==
    \/ q = "portfolio" /\ (page.data[q].status \in {"processing", "queued"} \/ page.indexing)
    \/ q = "risk" /\ page.data[q].status = "risk-pending"

Poll(q) ==
    /\ Polls(q) /\ page.fetch[q] = "idle"
    /\ page' = [page EXCEPT !.fetch[q] = "sent"]
    /\ UNCHANGED << server, network, missed, faults >>

Answer(q) ==
    /\ page.fetch[q] = "sent"
    /\ page' = [page EXCEPT !.fetch[q] = "answered", !.answer[q] = Read(q)]
    /\ missed' = [missed EXCEPT ![q] = FALSE]
    /\ UNCHANGED << server, network, faults >>

\* The answer that shows the first snapshot enables the risk query.
Receive(q) ==
    /\ page.fetch[q] = "answered"
    /\ LET shown == Settle([Ended(page, q) EXCEPT !.data[q] = page.answer[q]])
       IN  page' = IF HasSnapshot(shown) /\ ~HasSnapshot(page)
                   THEN [shown EXCEPT !.fetch["risk"] = "sent"] ELSE shown
    /\ UNCHANGED << server, network, missed, faults >>

\* Every try of a fetch failed; data that is there stays.
FetchFails(q) ==
    /\ page.fetch[q] # "idle"
    /\ Fault("fetchError")
    /\ page' = Ended(page, q)
    /\ missed' = [missed EXCEPT ![q] = TRUE]
    /\ UNCHANGED << server, network >>

\* Mutant: risk.updated only raises a toast.
OnMessage_PortfolioOnly(q) == IF q = "portfolio" THEN Invalidate(page, q) ELSE page

OnMessage(q) == Invalidate(page, q)

ReceiveEvent(q) ==
    /\ q \in arriving
    /\ page' = OnMessage(q)
    /\ missed' = [missed EXCEPT ![q] = @ \/
          (Enabled(page, q) /\ page.data[q] = NoData /\ page.fetch[q] = "answered")]
    /\ arriving' = arriving \ {q}
    /\ UNCHANGED << server, joined, faults >>

\* isIndexing
Indexing(p) ==
    p.indexing \/ (p.data["portfolio"].status \in {"processing", "queued"} /\ ~HasSnapshot(p))

PressRefresh ==
    /\ page.refresh = "idle" /\ ~Indexing(page)
    /\ MayRequest
    /\ page' = [page EXCEPT !.refresh = "sent"]
    /\ UNCHANGED << server, network, missed, faults >>

AcceptRefresh ==
    /\ page.refresh = "sent"
    /\ jobs' = Append(jobs, NewJob)
    /\ page' = [page EXCEPT !.refresh = "accepted"]
    /\ UNCHANGED << database, network, missed, faults >>

\* onSuccess, which waits for the fetch it starts.
RefreshSucceeds ==
    /\ page.refresh = "accepted"
    /\ page' = Settle([Invalidate([page EXCEPT !.indexing = TRUE], "portfolio")
                          EXCEPT !.refresh = "settling"])
    /\ UNCHANGED << server, network, missed, faults >>

RefreshFails ==
    /\ page.refresh \in {"sent", "accepted"}
    /\ Fault("fetchError")
    /\ page' = [page EXCEPT !.refresh = "idle"]
    /\ UNCHANGED << server, network, missed >>

\* INDEX_TIMEOUT_MS
Timeout ==
    /\ page.indexing
    /\ Fault("timeout")
    /\ page' = [page EXCEPT !.indexing = FALSE]
    /\ UNCHANGED << server, network, missed >>

\* What was on the wire is lost with the connection.
LoseArriving == [q \in Queries |-> missed[q] \/ q \in arriving]

\* The socket connects and the gateway puts it into the wallet's room.
Join ==
    /\ ~joined
    /\ joined' = TRUE
    /\ UNCHANGED << server, arriving, page, missed, faults >>

Drop ==
    /\ joined
    /\ Fault("drop")
    /\ joined' = FALSE /\ arriving' = {}
    /\ missed' = LoseArriving
    /\ UNCHANGED << server, page >>

Reload ==
    /\ Fault("reload")
    /\ page' = NewPage
    /\ joined' = FALSE /\ arriving' = {}
    /\ missed' = [q \in Queries |-> FALSE]
    /\ UNCHANGED server

-----------------------------------------------------------------------------
JobStep(j) == PersistPortfolio(j) \/ AnnouncePortfolio(j) \/ RecalculateRisk(j)

FetchStep(q) == Poll(q) \/ Answer(q) \/ Receive(q)

Next ==
    \/ \E j \in DOMAIN jobs : JobStep(j) \/ IndexThrows(j)
    \/ \E q \in Queries : FetchStep(q) \/ FetchFails(q) \/ ReceiveEvent(q)
    \/ OtherRequest
    \/ PressRefresh \/ AcceptRefresh \/ RefreshSucceeds \/ RefreshFails
    \/ Timeout \/ Join \/ Drop \/ Reload

Spec == Init /\ [][Next]_vars

\* Workers, the API and the browser keep going.  The socket need not connect (it gives
\* up after five attempts), nobody has to press anything, and no timeout is counted on.
Fairness ==
    /\ \A j \in 1..MaxJobs : WF_vars(j \in DOMAIN jobs /\ JobStep(j))
    /\ \A q \in Queries : WF_vars(FetchStep(q)) /\ WF_vars(ReceiveEvent(q))
    /\ WF_vars(AcceptRefresh \/ RefreshSucceeds)

FairSpec == Spec /\ Fairness

-----------------------------------------------------------------------------
(* Properties.                                                             *)

\* Database, page and network have their shapes, and the page knows no snapshot that
\* the database does not.
DashboardTypeOK ==
    LET answers(limit) == [status : {"none", "not-indexed", "indexed", "completed", "failed",
                                     "risk-pending", "ready"}, version : 0..limit]
        known(f) == /\ f["portfolio"] \in answers(database.portfolio)
                    /\ f["risk"] \in answers(database.risk)
    IN  /\ jobs \in Seq([state : JobStates, attempts : 0..MaxAttempts,
                         run : 0..Len(database.runs), risk : {"none", "waiting", "done"}])
        /\ database.runs \in Seq({"failed", "completed"})
        /\ database.row \in BOOLEAN /\ joined \in BOOLEAN /\ page.indexing \in BOOLEAN
        /\ arriving \subseteq Queries
        /\ known(page.data) /\ known(page.answer)
        /\ page.fetch \in [Queries -> {"idle", "sent", "answered"}]
        /\ page.refresh \in {"idle", "sent", "accepted", "settling"}
        /\ missed \in [Queries -> BOOLEAN]

Shown(q) == Enabled(page, q) => page.data[q].version = Read(q).version

\* use-realtime.ts: "Socket events are a signal to refetch, never the source of truth".
\* In the end the page shows the newest portfolio and risk snapshots, in whatever order
\* answers, events, polls and refreshes came, unless a fetch failed, or an announcement
\* was never made or never arrived, and nothing made the page read again afterwards.
PageCatchesUp == \A q \in Queries : <>[](missed[q] \/ Shown(q))

\* dashboard-frame.tsx:80-82: "Without this branch the onboarding card never went away":
\* the page stops waiting for an index run, with the socket up or down, without the
\* hard timeout.
SpinnerStops == Indexing(page) ~> ~Indexing(page)

\* dashboard-frame.tsx:91: the flag is settled "once the run reaches a terminal state".
PressedRunEnds ==
    [][page.indexing /\ ~page'.indexing /\ faults' = faults => Settled(jobs)]_vars
=============================================================================
