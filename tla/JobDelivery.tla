---------------------------- MODULE JobDelivery ----------------------------
(***************************************************************************)
(* How a job travels from a portal request to an on-prem connector and how  *)
(* its result travels back: the connector_jobs table and its three queries  *)
(* (apps/portal/src/lib/connectorJobs.ts), the stage, poll and result       *)
(* routes of the portal, and the run loop of the Go connector               *)
(* (apps/connector/cmd/connector/main.go).  One tenant is modelled.         *)
(*                                                                         *)
(* A poll handler and the connector it answers are separate processes: the  *)
(* handler never looks at request.signal, so it outlives a client that gave *)
(* up or died and goes on leasing jobs nobody will receive.                 *)
(***************************************************************************)
EXTENDS Naturals

CONSTANTS
    Jobs,           \* connector_jobs rows the portal may insert (bound)
    Connectors,     \* connectors of the tenant (bound)
    Polls,          \* slots for poll handlers running at once (bound)
    None,           \* no job, no connector, no handler
    Undecodable,    \* jobs whose type or payload this connector build rejects
    Disturbances    \* what may go wrong in this instance

DisturbanceKinds ==
    {"crash",       \* a connector process dies
     "stop",        \* a connector process is asked to stop (SIGTERM, SCM stop)
     "loss",        \* requests, responses and transactions fail
     "restart",     \* the portal process restarts
     "revoke"}      \* an operator sets revoked_at

ASSUME NoneAssumption ==
    /\ None \notin Jobs
    /\ None \notin Connectors
    /\ None \notin Polls

ASSUME UndecodableAssumption == Undecodable \subseteq Jobs

ASSUME DisturbancesAssumption == Disturbances \subseteq DisturbanceKinds

VARIABLES
    (* connector_jobs rows *)
    status,     \* "absent" .. "inserting": the request has not committed a row
    owner,      \* connector_id
    older,      \* jobs with an earlier created_at
    seen,       \* history: jobs already committed when this one was stamped
    (* connectors rows *)
    reg,        \* "unknown", "active" or "revoked"
    elder,      \* connectors with an earlier enrolled_at
    (* poll handlers in the portal *)
    at,         \* where the handler is
    from,       \* the connector it authenticated
    picked,     \* the row it holds FOR UPDATE, then the job it answers with
    (* connector processes *)
    pc,         \* where the run loop is
    held,       \* the job being dispatched
    waitOn,     \* the handler whose answer the process waits for
    stopping,   \* ctx is cancelled
    (* result reports on their way to the portal *)
    posts,
    (* history: what dispatching the job returned *)
    ran

rows       == <<status, owner, older, seen>>
registry   == <<reg, elder>>
handlers   == <<at, from, picked>>
connectors == <<pc, held, waitOn, stopping>>
vars       == <<rows, registry, handlers, connectors, posts, ran>>

Statuses   == {"absent", "resolved", "inserting", "dropped",
               "pending", "leased", "succeeded", "failed"}
Terminal   == {"succeeded", "failed"}
Committed  == {"pending", "leased"} \union Terminal
Posts      == [conn : Connectors, job : Jobs, ok : BOOLEAN]

TypeOK ==
    /\ status \in [Jobs -> Statuses]
    /\ owner \in [Jobs -> Connectors \union {None}]
    /\ older \in [Jobs -> SUBSET Jobs]
    /\ seen \in [Jobs -> SUBSET Jobs]
    /\ reg \in [Connectors -> {"unknown", "active", "revoked"}]
    /\ elder \in [Connectors -> SUBSET Connectors]
    /\ at \in [Polls -> {"free", "check", "locked", "sleep", "reply"}]
    /\ from \in [Polls -> Connectors \union {None}]
    /\ picked \in [Polls -> Jobs \union {None}]
    /\ pc \in [Connectors -> {"down", "top", "polling", "handling",
                              "reporting", "backoff"}]
    /\ held \in [Connectors -> Jobs \union {None}]
    /\ waitOn \in [Connectors -> Polls \union {None}]
    /\ stopping \in [Connectors -> BOOLEAN]
    /\ posts \subseteq Posts
    /\ ran \in [Jobs -> {"no", "ok", "fail"}]

Init ==
    /\ status = [j \in Jobs |-> "absent"]
    /\ owner = [j \in Jobs |-> None]
    /\ older = [j \in Jobs |-> {}]
    /\ seen = [j \in Jobs |-> {}]
    /\ reg = [c \in Connectors |-> "unknown"]
    /\ elder = [c \in Connectors |-> {}]
    /\ at = [p \in Polls |-> "free"]
    /\ from = [p \in Polls |-> None]
    /\ picked = [p \in Polls |-> None]
    /\ pc = [c \in Connectors |-> "down"]
    /\ held = [c \in Connectors |-> None]
    /\ waitOn = [c \in Connectors |-> None]
    /\ stopping = [c \in Connectors |-> FALSE]
    /\ posts = {}
    /\ ran = [j \in Jobs |-> "no"]

-----------------------------------------------------------------------------
(* The connectors table.                                                    *)

(* The enroll-connector script inserts a row; enrolled_at defaults to now. *)
Enroll(c) ==
    /\ reg[c] = "unknown"
    /\ reg' = [reg EXCEPT ![c] = "active"]
    /\ elder' = [elder EXCEPT ![c] = {d \in Connectors : reg[d] # "unknown"}]
    /\ UNCHANGED <<rows, handlers, connectors, posts, ran>>

(* An operator sets revoked_at by hand. *)
Revoke(c) ==
    /\ "revoke" \in Disturbances
    /\ reg[c] = "active"
    /\ reg' = [reg EXCEPT ![c] = "revoked"]
    /\ UNCHANGED <<elder, rows, handlers, connectors, posts, ran>>

(* resolveConnectorForTenant: the newest connector that is not revoked. *)
NewestActive ==
    {c \in Connectors :
        /\ reg[c] = "active"
        /\ \A d \in Connectors : reg[d] = "active" => c \notin elder[d]}

-----------------------------------------------------------------------------
(* The stage route and enqueueJob: three transactions, of which the first   *)
(* (the document lookup) only reads.  A request that finds no active        *)
(* connector answers 503 and changes nothing.                               *)

Resolve(j) ==
    /\ status[j] = "absent"
    /\ \E c \in NewestActive :
        /\ owner' = [owner EXCEPT ![j] = c]
        /\ status' = [status EXCEPT ![j] = "resolved"]
    /\ UNCHANGED <<older, seen, registry, handlers, connectors, posts, ran>>

(* created_at defaults to now(), which is the start of the transaction. *)
InsertBegin(j) ==
    /\ status[j] = "resolved"
    /\ status' = [status EXCEPT ![j] = "inserting"]
    /\ older' = [older EXCEPT ![j] =
                    {i \in Jobs : status[i] \in Committed \union {"inserting"}}]
    /\ seen' = [seen EXCEPT ![j] = {i \in Jobs : status[i] \in Committed}]
    /\ UNCHANGED <<owner, registry, handlers, connectors, posts, ran>>

InsertCommit(j) ==
    /\ status[j] = "inserting"
    /\ status' = [status EXCEPT ![j] = "pending"]
    /\ UNCHANGED <<owner, older, seen, registry, handlers, connectors, posts, ran>>

-----------------------------------------------------------------------------
(* The poll route.                                                          *)

(* Mutant: authenticateConnector forgets to look at revoked_at. *)
AuthenticatedForever(c) == reg[c] # "unknown"

(* authenticateConnector, of a connector that sends the secret it enrolled  *)
(* with.                                                                    *)
Authenticated(c) == reg[c] = "active"

(* The request reaches the portal, and the handler authenticates it, once.  *)
StartPoll(c, p) ==
    /\ pc[c] = "top"
    /\ ~stopping[c]
    /\ Authenticated(c)
    /\ at[p] = "free"
    /\ at' = [at EXCEPT ![p] = "check"]
    /\ from' = [from EXCEPT ![p] = c]
    /\ pc' = [pc EXCEPT ![c] = "polling"]
    /\ waitOn' = [waitOn EXCEPT ![c] = p]
    /\ UNCHANGED <<picked, held, stopping, rows, registry, posts, ran>>

(* 401: the connector sees a status it does not know and backs off. *)
PollRefused(c) ==
    /\ pc[c] = "top"
    /\ ~stopping[c]
    /\ ~Authenticated(c)
    /\ pc' = [pc EXCEPT ![c] = "backoff"]
    /\ UNCHANGED <<held, waitOn, stopping, rows, registry, handlers, posts, ran>>

Locked(j) == \E p \in Polls : at[p] = "locked" /\ picked[p] = j

(* Mutants of the query: a plain SELECT; one for whoever asks; one that     *)
(* takes leased rows again.                                                 *)
LeasableUnlocked(c) == {j \in Jobs : status[j] = "pending" /\ owner[j] = c}

LeasableByAnyone(c) == {j \in Jobs : status[j] = "pending" /\ ~Locked(j)}

LeasableAgain(c) ==
    {j \in Jobs : status[j] \in {"pending", "leased"} /\ owner[j] = c /\ ~Locked(j)}

(* The rows leaseNextJob's SELECT ... FOR UPDATE SKIP LOCKED can return. *)
Leasable(c) == {j \in Jobs : status[j] = "pending" /\ owner[j] = c /\ ~Locked(j)}

(* Mutant: no ORDER BY. *)
AnyOf(S) == S

(* ORDER BY created_at ASC LIMIT 1, with the row lock it takes.             *)
Oldest(S) == {j \in S : \A i \in S : i \notin older[j]}

LeaseSelect(p) ==
    /\ at[p] = "check"
    /\ \E j \in Oldest(Leasable(from[p])) : picked' = [picked EXCEPT ![p] = j]
    /\ at' = [at EXCEPT ![p] = "locked"]
    /\ UNCHANGED <<from, rows, registry, connectors, posts, ran>>

LeaseNone(p) ==
    /\ at[p] = "check"
    /\ Leasable(from[p]) = {}
    /\ at' = [at EXCEPT ![p] = "sleep"]
    /\ UNCHANGED <<from, picked, rows, registry, connectors, posts, ran>>

(* The UPDATE to 'leased', committed together with the SELECT. *)
LeaseCommit(p) ==
    /\ at[p] = "locked"
    /\ status' = [status EXCEPT ![picked[p]] = "leased"]
    /\ at' = [at EXCEPT ![p] = "reply"]
    /\ UNCHANGED <<owner, older, seen, from, picked, registry, connectors, posts, ran>>

(* After POLL_INTERVAL_MS the handler checks again, or, once                *)
(* LONG_POLL_TIMEOUT_MS has passed, answers 204.                            *)
Wake(p) ==
    /\ at[p] = "sleep"
    /\ at' = [at EXCEPT ![p] = "check"]
    /\ UNCHANGED <<from, picked, rows, registry, connectors, posts, ran>>

Deadline(p) ==
    /\ at[p] = "sleep"
    /\ at' = [at EXCEPT ![p] = "reply"]
    /\ UNCHANGED <<from, picked, rows, registry, connectors, posts, ran>>

Free(p) ==
    /\ at' = [at EXCEPT ![p] = "free"]
    /\ from' = [from EXCEPT ![p] = None]
    /\ picked' = [picked EXCEPT ![p] = None]

(* The response is written: a connector still waiting for this handler gets *)
(* it; otherwise it goes into a socket nobody reads.                        *)
AnswerReceived(p) ==
    /\ at[p] = "reply"
    /\ waitOn[from[p]] = p
    /\ waitOn' = [waitOn EXCEPT ![from[p]] = None]
    /\ IF picked[p] = None
          THEN pc' = [pc EXCEPT ![from[p]] = "top"] /\ UNCHANGED held
          ELSE /\ pc' = [pc EXCEPT ![from[p]] = "handling"]
               /\ held' = [held EXCEPT ![from[p]] = picked[p]]
    /\ Free(p)
    /\ UNCHANGED <<stopping, rows, registry, posts, ran>>

AnswerUnread(p) ==
    /\ at[p] = "reply"
    /\ waitOn[from[p]] # p
    /\ Free(p)
    /\ UNCHANGED <<rows, registry, connectors, posts, ran>>

(* The handler ends without its answer arriving: an await of its throws     *)
(* (500, a lock it held is rolled back) or the response is lost on the way. *)
PollBreaks(p) ==
    /\ "loss" \in Disturbances
    /\ at[p] # "free"
    /\ waitOn' = [c \in Connectors |-> IF waitOn[c] = p THEN None ELSE waitOn[c]]
    /\ Free(p)
    /\ UNCHANGED <<pc, held, stopping, rows, registry, posts, ran>>

-----------------------------------------------------------------------------
(* The connector's run loop.                                                *)

(* Mutant: a client timeout shorter than the long poll. *)
PollFailsEarly(c) ==
    /\ pc[c] = "polling"
    /\ pc' = [pc EXCEPT ![c] = "backoff"]
    /\ waitOn' = [waitOn EXCEPT ![c] = None]
    /\ UNCHANGED <<held, stopping, rows, registry, handlers, posts, ran>>

(* pollNextJob returns an error: the request did not reach the portal, the  *)
(* answer is lost or later than the client's timeout, or ctx is cancelled.  *)
PollFails(c) ==
    /\ \/ pc[c] = "top" /\ ~stopping[c] /\ "loss" \in Disturbances
       \/ /\ pc[c] = "polling"
          /\ waitOn[c] = None \/ stopping[c] \/ "loss" \in Disturbances
    /\ pc' = [pc EXCEPT ![c] = "backoff"]
    /\ waitOn' = [waitOn EXCEPT ![c] = None]
    /\ UNCHANGED <<held, stopping, rows, registry, handlers, posts, ran>>

(* Mutant: the run loop ends at a poll error. *)
BackoffExits(c) ==
    /\ pc[c] = "backoff"
    /\ pc' = [pc EXCEPT ![c] = "down"]
    /\ UNCHANGED <<held, waitOn, stopping, rows, registry, handlers, posts, ran>>

(* sleep(ctx, 5s) ends, at once when ctx is cancelled. *)
Backoff(c) ==
    /\ pc[c] = "backoff"
    /\ pc' = [pc EXCEPT ![c] = "top"]
    /\ UNCHANGED <<held, waitOn, stopping, rows, registry, handlers, posts, ran>>

(* Mutant: a job that fails is logged and not reported. *)
DispatchReportingSuccess(c, ok) ==
    /\ pc[c] = "handling"
    /\ held[c] \in Undecodable => ~ok
    /\ ran' = [ran EXCEPT ![held[c]] = IF ok THEN "ok" ELSE "fail"]
    /\ posts' = IF stopping[c] \/ ~ok THEN posts
                ELSE posts \union {[conn |-> c, job |-> held[c], ok |-> ok]}
    /\ held' = [held EXCEPT ![c] = None]
    /\ pc' = [pc EXCEPT ![c] = "reporting"]
    /\ UNCHANGED <<waitOn, stopping, rows, registry, handlers>>

(* dispatch() returns and reportResult() sends what it returned, unless ctx *)
(* is cancelled already, in which case client.Do sends nothing.             *)
Dispatch(c, ok) ==
    /\ pc[c] = "handling"
    /\ held[c] \in Undecodable => ~ok
    /\ ran' = [ran EXCEPT ![held[c]] = IF ok THEN "ok" ELSE "fail"]
    /\ posts' = IF stopping[c] THEN posts
                ELSE posts \union {[conn |-> c, job |-> held[c], ok |-> ok]}
    /\ held' = [held EXCEPT ![c] = None]
    /\ pc' = [pc EXCEPT ![c] = "reporting"]
    /\ UNCHANGED <<waitOn, stopping, rows, registry, handlers>>

PostsOf(c) == {m \in posts : m.conn = c}

(* reportResult() returns; an error is only logged.  A cancelled ctx aborts *)
(* the request on its way; a client that merely gives up does not.          *)
ReportReturns(c) ==
    /\ pc[c] = "reporting"
    /\ \/ /\ PostsOf(c) = {} \/ "loss" \in Disturbances
          /\ UNCHANGED posts
       \/ stopping[c] /\ posts' \in {posts, posts \ PostsOf(c)}
    /\ pc' = [pc EXCEPT ![c] = "top"]
    /\ UNCHANGED <<held, waitOn, stopping, rows, registry, handlers, ran>>

-----------------------------------------------------------------------------
(* The result route and completeJob.                                        *)

(* 401 for a revoked connector, 400 for a report that names no job: what    *)
(* dispatch() returns for a job it cannot decode is Failure("").            *)
Accepted(m) == Authenticated(m.conn) /\ m.job \notin Undecodable

(* Mutant: every report counts as a success. *)
CompletedAlways(m) == "succeeded"

(* The UPDATE asks for the job's id and its connector, not for its status. *)
CompletedBy(m) == IF m.ok THEN "succeeded" ELSE "failed"

(* Mutant: a refused report is sent again until it is accepted. *)
ReportArrivesRetried(m) ==
    /\ m \in posts
    /\ posts' = IF Accepted(m) THEN posts \ {m} ELSE posts
    /\ status' = IF Accepted(m) THEN [status EXCEPT ![m.job] = CompletedBy(m)] ELSE status
    /\ UNCHANGED <<owner, older, seen, registry, handlers, connectors, ran>>

ReportArrives(m) ==
    /\ m \in posts
    /\ posts' = posts \ {m}
    /\ status' = IF Accepted(m) /\ owner[m.job] = m.conn
                 THEN [status EXCEPT ![m.job] = CompletedBy(m)]
                 ELSE status
    /\ UNCHANGED <<owner, older, seen, registry, handlers, connectors, ran>>

LoseReport(m) ==
    /\ "loss" \in Disturbances
    /\ m \in posts
    /\ posts' = posts \ {m}
    /\ UNCHANGED <<rows, registry, handlers, connectors, ran>>

-----------------------------------------------------------------------------
(* Processes starting and stopping.                                         *)

Start(c) ==
    /\ pc[c] = "down"
    /\ reg[c] # "unknown"
    /\ pc' = [pc EXCEPT ![c] = "top"]
    /\ UNCHANGED <<held, waitOn, stopping, rows, registry, handlers, posts, ran>>

Stop(c) ==
    /\ "stop" \in Disturbances
    /\ pc[c] # "down"
    /\ ~stopping[c]
    /\ stopping' = [stopping EXCEPT ![c] = TRUE]
    /\ UNCHANGED <<pc, held, waitOn, rows, registry, handlers, posts, ran>>

Down(c) ==
    /\ pc' = [pc EXCEPT ![c] = "down"]
    /\ held' = [held EXCEPT ![c] = None]
    /\ waitOn' = [waitOn EXCEPT ![c] = None]
    /\ stopping' = [stopping EXCEPT ![c] = FALSE]

(* run() sees ctx.Done at the top of its loop; as a Windows service the     *)
(* process also exits 30 s into a job that does not return.                 *)
Exit(c) ==
    /\ stopping[c]
    /\ pc[c] \in {"top", "handling"}
    /\ Down(c)
    /\ UNCHANGED <<rows, registry, handlers, posts, ran>>

Crash(c) ==
    /\ "crash" \in Disturbances
    /\ pc[c] # "down"
    /\ Down(c)
    /\ posts' \in {posts, posts \ PostsOf(c)}
    /\ UNCHANGED <<rows, registry, handlers, ran>>

(* Every handler dies and the transaction it had open is rolled back; a     *)
(* stage request between its transactions inserts nothing; a report on its  *)
(* way may be cut off.                                                      *)
PortalRestart ==
    /\ "restart" \in Disturbances
    /\ status' = [j \in Jobs |-> IF status[j] \in {"resolved", "inserting"}
                                 THEN "dropped" ELSE status[j]]
    /\ at' = [p \in Polls |-> "free"]
    /\ from' = [p \in Polls |-> None]
    /\ picked' = [p \in Polls |-> None]
    /\ waitOn' = [c \in Connectors |-> None]
    /\ posts' \in SUBSET posts
    /\ UNCHANGED <<owner, older, seen, registry, pc, held, stopping, ran>>

-----------------------------------------------------------------------------

StageStep(j) == Resolve(j) \/ InsertBegin(j) \/ InsertCommit(j)

HandlerStep(p) ==
    \/ LeaseSelect(p) \/ LeaseNone(p) \/ LeaseCommit(p)
    \/ Wake(p) \/ Deadline(p)
    \/ AnswerReceived(p) \/ AnswerUnread(p)

StartsPoll(c) == \E p \in Polls : StartPoll(c, p)

Dispatches(c) == \E ok \in BOOLEAN : Dispatch(c, ok)

ConnectorStep(c) ==
    \/ StartsPoll(c) \/ PollRefused(c) \/ PollFails(c) \/ Backoff(c)
    \/ Dispatches(c) \/ ReportReturns(c)

OperatorStep(c) == Enroll(c) \/ Revoke(c) \/ Start(c) \/ Stop(c)

Next ==
    \/ \E j \in Jobs : StageStep(j)
    \/ \E p \in Polls : HandlerStep(p) \/ PollBreaks(p)
    \/ \E c \in Connectors : ConnectorStep(c) \/ OperatorStep(c) \/ Exit(c) \/ Crash(c)
    \/ \E m \in posts : ReportArrives(m) \/ LoseReport(m)
    \/ PortalRestart

Spec == Init /\ [][Next]_vars

(* Started requests are carried on, a running process runs, a dispatched    *)
(* job returns.  Nothing is assumed of users, of operators, or of what is   *)
(* listed in Disturbances.                                                  *)
Fairness ==
    /\ \A j \in Jobs : WF_vars(InsertBegin(j) \/ InsertCommit(j))
    /\ \A p \in Polls : WF_vars(HandlerStep(p))
    /\ \A c \in Connectors : WF_vars(ConnectorStep(c))
    /\ \A m \in Posts : WF_vars(ReportArrives(m))

FairSpec == Spec /\ Fairness

(* A network and a database that fail now and then, but not every time.     *)
RecoveringSpec ==
    /\ FairSpec
    /\ \A c \in Connectors : SF_vars(StartsPoll(c))
    /\ \A p \in Polls : SF_vars(LeaseSelect(p)) /\ SF_vars(LeaseCommit(p))

-----------------------------------------------------------------------------
(* Safety.                                                                  *)

(* Everyone who has job j in hand after its lease has committed. *)
Custodians(j) ==
    {<<"handler", p>> : p \in {q \in Polls : at[q] = "reply" /\ picked[q] = j}}
    \union {<<"connector", c>> : c \in {d \in Connectors : held[d] = j}}
    \union {<<"report", m>> : m \in {n \in posts : n.job = j}}

(* A job is in at most one pair of hands - a handler answering with it, a   *)
(* connector dispatching it, a report carrying its result - and only while  *)
(* its row says leased, whatever overlapping polls, restarts and lost       *)
(* messages do (the claim of leaseNextJob's comment, followed to the end of *)
(* the job's life).                                                         *)
SingleCustody ==
    \A j \in Jobs :
        /\ \A x, y \in Custodians(j) : x = y
        /\ Custodians(j) # {} => status[j] = "leased"

(* No job is dispatched a second time: what a connector starts on has never *)
(* run before, although nothing in completeJob or in the connector looks.   *)
NeverRunTwice == \A c \in Connectors : held[c] # None => ran[held[c]] = "no"

(* The row the portal shows is the outcome of the job's one run. *)
TruthfulStatus ==
    \A j \in Jobs :
        /\ status[j] = "succeeded" => ran[j] = "ok"
        /\ status[j] = "failed" => ran[j] = "fail"

(* completeJob has no status guard, yet a finished row is never rewritten:  *)
(* no late or repeated report of the job is left.                           *)
TerminalIsFinal ==
    [][\A j \in Jobs : status[j] \in Terminal => status'[j] = status[j]]_vars

Stranded(j) ==
    /\ status[j] = "leased"
    /\ ~\E p \in Polls : at[p] = "reply" /\ picked[p] = j /\ waitOn[from[p]] = p
    /\ ~\E c \in Connectors : held[c] = j
    /\ ~\E m \in posts : m.job = j

(* Leases do not expire: once a leased job has no one left to finish it, no *)
(* restart and no later poll ever brings it back.                           *)
StrandedForever == [][\A j \in Jobs : Stranded(j) => Stranded(j)']_vars

(* The three ways to lose a leased job, all of them its own connector's: the *)
(* connector that has it goes down, or returns from it when it may no longer *)
(* report; it does not wait for the answer that brings the job; the job's   *)
(* report is lost or refused.  No other connector, poll or job can strand   *)
(* it.                                                                      *)
WhyStranded ==
    [][\A j \in Jobs : Stranded(j)' /\ ~Stranded(j) =>
        \/ held[owner[j]] = j /\ (pc'[owner[j]] = "down" \/ stopping[owner[j]])
        \/ \E p \in Polls : picked[p] = j /\ waitOn'[owner[j]] # p
        \/ \E m \in posts \ posts' : m.job = j]_vars

(* When nothing goes wrong, a leased job always has someone to finish it.   *)
LeasedIsHeld == \A j \in Jobs : ~Stranded(j)

(* When nothing goes wrong, a connector starts on a job only when every job *)
(* that was committed before that one was stamped has left the queue.       *)
FirstComeFirstServed ==
    \A j \in Jobs : ran[j] # "no" =>
        \A i \in seen[j] : owner[i] = owner[j] => status[i] # "pending"

(* A job that is, or is about to be, queued for a connector that is revoked *)
(* and has no poll under way.                                               *)
Abandoned(j) ==
    /\ status[j] \in {"resolved", "inserting", "pending"}
    /\ reg[owner[j]] = "revoked"
    /\ \A p \in Polls : at[p] # "free" => from[p] # owner[j]

(* The poll route authenticates once and then leases for up to 25 seconds,  *)
(* so a connector revoked meanwhile may still be given one job; but once it *)
(* is done with that it never polls or gets a job again.  And what is left  *)
(* to it is left for good, also a job inserted after the revocation because *)
(* its connector was resolved before it: no other connector gets it, and    *)
(* only a restart before the INSERT commits makes it go away.               *)
RevocationTakesHold ==
    [][/\ \A c \in Connectors :
            reg[c] = "revoked" /\ pc[c] \notin {"polling", "handling"}
                => pc'[c] \notin {"polling", "handling"}
       /\ \A j \in Jobs : Abandoned(j) => Abandoned(j)' \/ status'[j] = "dropped"]_vars

(* connectorJobs.ts:36, of overlapping polls: "shouldn't happen with one    *)
(* connector process".                                                      *)
OnePollPerConnector ==
    \A p, q \in Polls : at[p] # "free" /\ at[q] # "free" /\ from[p] = from[q] => p = q

(* jobs.go:72: "Result is reported back to the portal for every job,        *)
(* success or failure."                                                     *)
EveryResultReported ==
    \A j \in Jobs : ran[j] # "no" =>
        status[j] \in Terminal \/ \E m \in posts : m.job = j

-----------------------------------------------------------------------------
(* The inductive invariant behind the safety properties.                    *)

(* A row has a connector; it is not finished before its job has run, and    *)
(* then says what that did.                                                 *)
RowInv ==
    \A j \in Jobs :
        /\ status[j] # "absent" => owner[j] # None
        /\ status[j] \notin {"leased"} \union Terminal => ran[j] = "no"
        /\ status[j] = "succeeded" => ran[j] = "ok"
        /\ status[j] = "failed" => ran[j] = "fail"

(* A handler holds a row lock only between SELECT and COMMIT, alone.        *)
LockInv ==
    \A p \in Polls :
        /\ at[p] # "free" => from[p] \in Connectors
        /\ at[p] \notin {"locked", "reply"} => picked[p] = None
        /\ at[p] = "locked" =>
            /\ picked[p] \in Jobs
            /\ status[picked[p]] = "pending"
            /\ owner[picked[p]] = from[p]
            /\ \A q \in Polls : at[q] = "locked" /\ picked[q] = picked[p] => q = p

(* A handler answers with a job that is leased, and nobody else has it yet. *)
ReplyInv ==
    \A p \in Polls : at[p] = "reply" /\ picked[p] # None =>
        /\ status[picked[p]] = "leased"
        /\ owner[picked[p]] = from[p]
        /\ ran[picked[p]] = "no"
        /\ \A q \in Polls : at[q] = "reply" /\ picked[q] = picked[p] => q = p
        /\ \A c \in Connectors : held[c] # picked[p]

HeldInv ==
    \A c \in Connectors :
        /\ held[c] # None <=> pc[c] = "handling"
        /\ held[c] # None =>
            status[held[c]] = "leased" /\ owner[held[c]] = c /\ ran[held[c]] = "no"

ReportInv ==
    \A m \in posts :
        /\ status[m.job] = "leased"
        /\ owner[m.job] = m.conn
        /\ ran[m.job] = IF m.ok THEN "ok" ELSE "fail"

(* A connector waits only while polling, and only for a handler of its own. *)
WaitInv ==
    \A c \in Connectors : waitOn[c] # None =>
        pc[c] = "polling" /\ from[waitOn[c]] = c /\ at[waitOn[c]] # "free"

(* What every action preserves, and what the safety properties follow from. *)
Inv ==
    /\ TypeOK
    /\ RowInv
    /\ LockInv
    /\ ReplyInv
    /\ HeldInv
    /\ ReportInv
    /\ WaitInv

(* The same for an instance in which nothing is disturbed.                  *)
Undisturbed == Disturbances = {} /\ Undecodable = {}

(* Every handler has its connector waiting, every wait has its handler.     *)
PairInv ==
    /\ \A p \in Polls : at[p] # "free" => waitOn[from[p]] = p
    /\ \A c \in Connectors : pc[c] = "polling" => waitOn[c] # None

(* No connector in use is stopping or revoked. *)
InServiceInv ==
    /\ \A c \in Connectors :
        ~stopping[c] /\ reg[c] # "revoked" /\ (pc[c] # "down" => reg[c] = "active")
    /\ \A m \in posts : reg[m.conn] = "active"

(* What was committed before j was stamped is out of the queue by the time  *)
(* a handler has locked or leased j.                                        *)
OrderInv ==
    \A j \in Jobs : \A i \in seen[j] :
        /\ i \in older[j]
        /\ status[i] \in Committed
        /\ owner[i] = owner[j] /\ (Locked(j) \/ status[j] \in {"leased"} \union Terminal)
                => status[i] # "pending"

CalmInv == Inv /\ PairInv /\ InServiceInv /\ OrderInv /\ LeasedIsHeld

(* An instance in which messages arrive and processes keep running, while   *)
(* operators revoke connectors and jobs may be undecodable.                 *)
Steady == Disturbances \subseteq {"revoke"}

(* Then only refused reports strand jobs: those of revoked connectors (401) *)
(* and those that name no job (400).                                        *)
OnlyRefusalsStrand ==
    \A j \in Jobs : Stranded(j) => reg[owner[j]] = "revoked" \/ j \in Undecodable

(* Nobody stops, and who is in use is enrolled. *)
KnownInv ==
    /\ \A c \in Connectors : ~stopping[c] /\ (pc[c] # "down" => reg[c] # "unknown")
    /\ \A m \in posts : reg[m.conn] # "unknown"

SteadyInv == Inv /\ PairInv /\ KnownInv /\ OnlyRefusalsStrand

-----------------------------------------------------------------------------
(* Liveness.                                                                *)

Up(c) == pc[c] # "down" /\ reg[c] = "active"

(* When nothing goes wrong, a queued job of a running connector is finished. *)
JobsFinish ==
    \A j \in Jobs :
        status[j] = "pending" /\ Up(owner[j]) ~> status[j] \in Terminal

(* Lost requests and responses delay the lease of a queued job but do not   *)
(* prevent it.                                                              *)
JobsAreLeased ==
    \A j \in Jobs :
        status[j] = "pending" /\ Up(owner[j]) ~> status[j] \in {"leased"} \union Terminal

(* A leased job does not linger: it is finished, or stranded for good.      *)
LeaseSettles ==
    \A j \in Jobs : status[j] = "leased" ~> status[j] \in Terminal \/ Stranded(j)

-----------------------------------------------------------------------------
(* JobDelivery implements the queue's promise.                              *)

PhaseOf(s) ==
    CASE s = "pending" -> "queued"
      [] s = "leased" -> "taken"
      [] s \in Terminal -> "recorded"
      [] OTHER -> "new"

OutcomeOf(r) == IF r = "no" THEN "none" ELSE r

VerdictOf(s) ==
    CASE s = "succeeded" -> "ok" [] s = "failed" -> "fail" [] OTHER -> "none"

Queue == INSTANCE JobQueue WITH
    phase   <- [j \in Jobs |-> PhaseOf(status[j])],
    outcome <- [j \in Jobs |-> OutcomeOf(ran[j])],
    verdict <- [j \in Jobs |-> VerdictOf(status[j])]

(* Whatever is disturbed, the portal, the table and the connectors together *)
(* behave like the at-most-once queue of module JobQueue.                   *)
ImplementsQueue == Queue!Spec
=============================================================================
