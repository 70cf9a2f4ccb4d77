------------------------- MODULE JobDeliveryProofs -------------------------
(***************************************************************************)
(* Proofs about JobDelivery, for any number of jobs, connectors and poll    *)
(* handlers and any set of disturbances.  One lemma per action shows that   *)
(* the action preserves Inv; where the action hands a job on, one step per  *)
(* part of Inv.                                                             *)
(***************************************************************************)
EXTENDS JobDelivery, TLAPS

USE NoneAssumption
USE DEF rows, registry, handlers, connectors, vars,
        Statuses, Terminal, Committed, Posts, Authenticated

(* The initial state: no rows, no handlers, every connector down.           *)
LEMMA InitInv == Init => Inv
<1> SUFFICES ASSUME Init PROVE Inv
  OBVIOUS
<1>1. TypeOK
  BY DEF Init, TypeOK
<1>2. RowInv /\ LockInv /\ ReplyInv /\ HeldInv /\ ReportInv /\ WaitInv
  BY DEF Init, RowInv, LockInv, ReplyInv, HeldInv, ReportInv, WaitInv
<1> QED
  BY <1>1, <1>2 DEF Inv

-----------------------------------------------------------------------------
(* Actions that move no job from hand to hand.                              *)

USE DEF Inv, TypeOK, RowInv, LockInv, ReplyInv, HeldInv, ReportInv, WaitInv

(* The connectors table: no part of Inv speaks of it but TypeOK.            *)
LEMMA EnrollInv == ASSUME Inv, NEW c \in Connectors, Enroll(c) PROVE Inv'
  BY DEF Enroll

(* Revoking changes a registry entry and no row.                            *)
LEMMA RevokeInv == ASSUME Inv, NEW c \in Connectors, Revoke(c) PROVE Inv'
  BY DEF Revoke

(* A row that is not committed yet has not run and is in nobody's hands.    *)
LEMMA StageInv == ASSUME Inv, NEW j \in Jobs, StageStep(j) PROVE Inv'
<1>1. CASE Resolve(j)
  BY <1>1 DEF Resolve, NewestActive
<1>2. CASE InsertBegin(j)
  BY <1>2 DEF InsertBegin
<1>3. CASE InsertCommit(j)
  BY <1>3 DEF InsertCommit
<1> QED
  BY <1>1, <1>2, <1>3 DEF StageStep

(* A new handler uses a slot that nobody waits for.                         *)
LEMMA StartPollInv == ASSUME Inv, NEW c \in Connectors, NEW p \in Polls, StartPoll(c, p) PROVE Inv'
  BY DEF StartPoll

(* The handler finds nothing, waits, or gives up.                           *)
LEMMA IdleInv == ASSUME Inv, NEW p \in Polls, LeaseNone(p) \/ Wake(p) \/ Deadline(p) PROVE Inv'
<1>1. CASE LeaseNone(p)
  BY <1>1 DEF LeaseNone
<1>2. CASE Wake(p)
  BY <1>2 DEF Wake
<1>3. CASE Deadline(p)
  BY <1>3 DEF Deadline
<1> QED
  BY <1>1, <1>2, <1>3

(* The run loop between jobs.                                               *)
LEMMA BetweenInv ==
    ASSUME Inv, NEW c \in Connectors,
           PollRefused(c) \/ PollFails(c) \/ Backoff(c) \/ Start(c) \/ Stop(c)
    PROVE  Inv'
<1>1. CASE PollRefused(c)
  BY <1>1 DEF PollRefused
<1>2. CASE PollFails(c)
  BY <1>2 DEF PollFails
<1>3. CASE Backoff(c)
  BY <1>3 DEF Backoff
<1>4. CASE Start(c)
  BY <1>4 DEF Start
<1>5. CASE Stop(c)
  BY <1>5 DEF Stop
<1> QED
  BY <1>1, <1>2, <1>3, <1>4, <1>5

(* Reports may disappear with the request that carries them.                *)
LEMMA ReportReturnsInv == ASSUME Inv, NEW c \in Connectors, ReportReturns(c) PROVE Inv'
  BY DEF ReportReturns, PostsOf

(* A process that goes down drops the job it holds.                         *)
LEMMA ExitInv == ASSUME Inv, NEW c \in Connectors, Exit(c) PROVE Inv'
  BY DEF Exit, Down

(* The same, and its report may be cut off.                                 *)
LEMMA CrashInv == ASSUME Inv, NEW c \in Connectors, Crash(c) PROVE Inv'
  BY DEF Crash, Down, PostsOf

(* A report that is lost takes its custody with it.                         *)
LEMMA LoseReportInv == ASSUME Inv, NEW m \in posts, LoseReport(m) PROVE Inv'
  BY DEF LoseReport

(* A handler that breaks gives its row lock back and strands what it leased. *)
LEMMA PollBreaksInv == ASSUME Inv, NEW p \in Polls, PollBreaks(p) PROVE Inv'
  BY DEF PollBreaks, Free

(* Every handler gone at once; reports may be cut off.                      *)
LEMMA PortalRestartInv == ASSUME Inv, PortalRestart PROVE Inv'
  BY DEF PortalRestart

-----------------------------------------------------------------------------
(* Actions that hand a job on: table to handler, handler to connector,      *)
(* connector to report, report to table.                                    *)

(* The row picked is pending and unlocked, so no other handler holds it and  *)
(* nobody has it in hand.                                                   *)
LEMMA LeaseSelectInv == ASSUME Inv, NEW p \in Polls, LeaseSelect(p) PROVE Inv'
<1>1. PICK j \in Leasable(from[p]) : picked' = [picked EXCEPT ![p] = j]
  BY DEF LeaseSelect, Oldest
<1>2. status[j] = "pending" /\ owner[j] = from[p] /\ ~Locked(j)
  BY <1>1 DEF Leasable
<1>3. TypeOK' /\ RowInv' /\ HeldInv' /\ ReportInv'
  BY <1>1 DEF LeaseSelect, Leasable
<1>4. LockInv'
  BY <1>1, <1>2 DEF LeaseSelect, Leasable, Locked
<1>5. ReplyInv' /\ WaitInv'
  BY <1>1 DEF LeaseSelect, Leasable
<1> QED
  BY <1>1, <1>2, <1>3, <1>4, <1>5

(* The row was pending, hence not run and in nobody's hands: the handler    *)
(* becomes its only custodian.                                              *)
LEMMA LeaseCommitInv == ASSUME Inv, NEW p \in Polls, LeaseCommit(p) PROVE Inv'
<1>1. picked[p] \in Jobs /\ status[picked[p]] = "pending" /\ owner[picked[p]] = from[p]
  BY DEF LeaseCommit
<1>2. ran[picked[p]] = "no"
  BY <1>1
<1>3. TypeOK' /\ RowInv' /\ WaitInv'
  BY <1>1, <1>2 DEF LeaseCommit
<1>4. LockInv'
  BY <1>1 DEF LeaseCommit
<1>5. ReplyInv'
  BY <1>1, <1>2 DEF LeaseCommit
<1>6. HeldInv' /\ ReportInv'
  BY <1>1 DEF LeaseCommit
<1> QED
  BY <1>1, <1>2, <1>3, <1>4, <1>5, <1>6

(* The connector was polling, so it held nothing; the handler is freed in   *)
(* the same step, so the job changes hands and is not copied.               *)
LEMMA AnswerReceivedInv == ASSUME Inv, NEW p \in Polls, AnswerReceived(p) PROVE Inv'
<1>1. from[p] \in Connectors /\ pc[from[p]] = "polling" /\ held[from[p]] = None
  BY DEF AnswerReceived
<1>2. TypeOK'
  <2>1. /\ pc' \in [Connectors -> {"down", "top", "polling", "handling",
                                  "reporting", "backoff"}]
        /\ held' \in [Connectors -> Jobs \union {None}]
    <3>1. \/ pc' = [pc EXCEPT ![from[p]] = "top"] /\ held' = held
          \/ /\ pc' = [pc EXCEPT ![from[p]] = "handling"]
             /\ held' = [held EXCEPT ![from[p]] = picked[p]]
      BY DEF AnswerReceived
    <3>2. /\ pc \in [Connectors -> {"down", "top", "polling", "handling",
                                    "reporting", "backoff"}]
          /\ held \in [Connectors -> Jobs \union {None}]
          /\ picked \in [Polls -> Jobs \union {None}]
      BY DEF TypeOK
    <3> HIDE DEF Inv, TypeOK, RowInv, LockInv, ReplyInv, HeldInv, ReportInv, WaitInv
    <3> QED
      BY <1>1, <3>1, <3>2
  <2>2. /\ at' \in [Polls -> {"free", "check", "locked", "sleep", "reply"}]
        /\ from' \in [Polls -> Connectors \union {None}]
        /\ picked' \in [Polls -> Jobs \union {None}]
        /\ waitOn' \in [Connectors -> Polls \union {None}]
    BY <1>1 DEF AnswerReceived, Free
  <2> QED
    BY <2>1, <2>2 DEF AnswerReceived
<1>3. RowInv' /\ LockInv'
  BY <1>1 DEF AnswerReceived, Free
<1>4. ReplyInv'
  BY <1>1 DEF AnswerReceived, Free
<1>5. HeldInv'
  BY <1>1 DEF AnswerReceived, Free
<1>6. ReportInv' /\ WaitInv'
  BY <1>1 DEF AnswerReceived, Free
<1> QED
  BY <1>1, <1>2, <1>3, <1>4, <1>5, <1>6

(* An answer nobody reads strands its job.                                  *)
LEMMA AnswerUnreadInv == ASSUME Inv, NEW p \in Polls, AnswerUnread(p) PROVE Inv'
  BY DEF AnswerUnread, Free

(* The job had not run, so no report of it is on its way yet.               *)
LEMMA DispatchInv == ASSUME Inv, NEW c \in Connectors, NEW ok \in BOOLEAN, Dispatch(c, ok) PROVE Inv'
<1>1. held[c] \in Jobs /\ status[held[c]] = "leased" /\ owner[held[c]] = c /\ ran[held[c]] = "no"
  BY DEF Dispatch
<1>2. TypeOK' /\ RowInv' /\ LockInv' /\ WaitInv'
  BY <1>1 DEF Dispatch
<1>3. ReplyInv' /\ HeldInv'
  BY <1>1 DEF Dispatch
<1>4. ReportInv'
  BY <1>1 DEF Dispatch
<1> QED
  BY <1>1, <1>2, <1>3, <1>4

(* The row completed is leased and its job ran with the outcome reported;   *)
(* no handler, connector or other report has that job.                      *)
LEMMA ReportArrivesInv == ASSUME Inv, NEW m \in posts, ReportArrives(m) PROVE Inv'
<1>1. m \in Posts /\ status[m.job] = "leased" /\ owner[m.job] = m.conn
  OBVIOUS
<1>2. \A n \in posts : n.job = m.job => n = m
  BY <1>1
<1>3. TypeOK' /\ RowInv'
  BY <1>1 DEF ReportArrives, CompletedBy
<1>4. LockInv' /\ ReplyInv' /\ HeldInv' /\ WaitInv'
  BY <1>1 DEF ReportArrives, CompletedBy
<1>5. ReportInv'
  BY <1>1, <1>2 DEF ReportArrives, CompletedBy
<1> QED
  BY <1>1, <1>2, <1>3, <1>4, <1>5

-----------------------------------------------------------------------------
(* The invariant and what follows from it.                                  *)

(* Every step preserves Inv. *)
LEMMA StepInv == Inv /\ [Next]_vars => Inv'
<1> SUFFICES ASSUME Inv, [Next]_vars PROVE Inv'
  OBVIOUS
<1> HIDE DEF Inv
<1>1. ASSUME NEW j \in Jobs, StageStep(j) PROVE Inv'
  BY <1>1, StageInv
<1>2. ASSUME NEW p \in Polls, HandlerStep(p) \/ PollBreaks(p) PROVE Inv'
  BY <1>2, LeaseSelectInv, IdleInv, LeaseCommitInv, AnswerReceivedInv,
     AnswerUnreadInv, PollBreaksInv DEF HandlerStep
<1>3. ASSUME NEW c \in Connectors, ConnectorStep(c) PROVE Inv'
  BY <1>3, StartPollInv, BetweenInv, DispatchInv, ReportReturnsInv
  DEF ConnectorStep, StartsPoll, Dispatches
<1>4. ASSUME NEW c \in Connectors, OperatorStep(c) \/ Exit(c) \/ Crash(c) PROVE Inv'
  BY <1>4, EnrollInv, RevokeInv, BetweenInv, ExitInv, CrashInv DEF OperatorStep
<1>5. ASSUME NEW m \in posts, ReportArrives(m) \/ LoseReport(m) PROVE Inv'
  BY <1>5, ReportArrivesInv, LoseReportInv
<1>6. CASE PortalRestart
  BY <1>6, PortalRestartInv
<1>7. CASE UNCHANGED vars
  BY <1>7 DEF Inv
<1> QED
  BY <1>1, <1>2, <1>3, <1>4, <1>5, <1>6, <1>7 DEF Next

(* Inv holds in every reachable state of every instance. *)
THEOREM Invariance == Spec => []Inv
<1> HIDE DEF Inv
<1> QED
  BY InitInv, StepInv, PTL DEF Spec

(* Type correctness. *)
THEOREM TypeCorrectness == Spec => []TypeOK
<1>1. Inv => TypeOK
  OBVIOUS
<1> HIDE DEF Inv, TypeOK
<1> QED
  BY <1>1, Invariance, PTL

(* A job is in one pair of hands at a time, and leased while it is. *)
THEOREM Custody == Spec => []SingleCustody
<1>1. ASSUME Inv, NEW j \in Jobs, Custodians(j) # {} PROVE status[j] = "leased"
  BY <1>1 DEF Custodians
<1>2. ASSUME Inv, NEW j \in Jobs, NEW x \in Custodians(j), NEW y \in Custodians(j)
      PROVE  x = y
  <2>1. ASSUME NEW m \in posts, NEW n \in posts, m.job = j, n.job = j PROVE m = n
    BY <1>2, <2>1
  <2>2. ASSUME NEW c \in Connectors, NEW d \in Connectors, held[c] = j, held[d] = j
        PROVE  c = d
    BY <1>2, <2>2
  <2>3. ASSUME NEW p \in Polls, NEW q \in Polls, at[p] = "reply", picked[p] = j,
               at[q] = "reply", picked[q] = j
        PROVE  p = q
    BY <1>2, <2>3
  <2>4. ASSUME NEW m \in posts, m.job = j
        PROVE  /\ \A c \in Connectors : held[c] # j
               /\ \A p \in Polls : ~(at[p] = "reply" /\ picked[p] = j)
    BY <1>2, <2>4
  <2>5. ASSUME NEW c \in Connectors, held[c] = j
        PROVE  \A p \in Polls : ~(at[p] = "reply" /\ picked[p] = j)
    BY <1>2, <2>5
  <2> HIDE DEF Inv
  <2> QED
    BY <1>2, <2>1, <2>2, <2>3, <2>4, <2>5 DEF Custodians
<1>3. Inv => SingleCustody
  BY <1>1, <1>2 DEF SingleCustody
<1> HIDE DEF Inv
<1> QED
  BY <1>3, Invariance, PTL

(* No job is run twice. *)
THEOREM AtMostOnce == Spec => []NeverRunTwice
<1>1. Inv => NeverRunTwice
  BY DEF NeverRunTwice
<1> HIDE DEF Inv
<1> QED
  BY <1>1, Invariance, PTL

(* A finished row says what the job's run produced. *)
THEOREM Truthfulness == Spec => []TruthfulStatus
<1>1. Inv => TruthfulStatus
  BY DEF TruthfulStatus
<1> HIDE DEF Inv
<1> QED
  BY <1>1, Invariance, PTL

-----------------------------------------------------------------------------
(* What a step may never do.                                                *)

(* The actions that write a row's status, and what each writes to it.       *)
LEMMA StatusSteps ==
    ASSUME Inv, [Next]_vars, NEW j \in Jobs, status'[j] # status[j]
    PROVE  \/ status[j] = "absent" /\ status'[j] = "resolved"
           \/ status[j] = "resolved" /\ status'[j] \in {"inserting", "dropped"}
           \/ status[j] = "inserting" /\ status'[j] \in {"pending", "dropped"}
           \/ status[j] = "pending" /\ status'[j] = "leased"
           \/ /\ status[j] = "leased" /\ status'[j] \in Terminal
              /\ \E m \in posts : m.job = j
<1>1. ASSUME NEW i \in Jobs, StageStep(i)
      PROVE  \/ status[j] = "absent" /\ status'[j] = "resolved"
             \/ status[j] = "resolved" /\ status'[j] = "inserting"
             \/ status[j] = "inserting" /\ status'[j] = "pending"
  BY <1>1 DEF StageStep, Resolve, InsertBegin, InsertCommit
<1>2. ASSUME NEW p \in Polls, HandlerStep(p) \/ PollBreaks(p)
      PROVE  status[j] = "pending" /\ status'[j] = "leased"
  BY <1>2 DEF HandlerStep, LeaseSelect, LeaseNone, LeaseCommit, Wake, Deadline,
              AnswerReceived, AnswerUnread, PollBreaks
<1>3. ASSUME NEW c \in Connectors, ConnectorStep(c) \/ OperatorStep(c) \/ Exit(c) \/ Crash(c)
      PROVE  FALSE
  BY <1>3 DEF ConnectorStep, StartsPoll, StartPoll, PollRefused, PollFails, Backoff,
              Dispatches, Dispatch, ReportReturns, OperatorStep, Enroll, Revoke,
              Start, Stop, Exit, Crash
<1>4. ASSUME NEW m \in posts, ReportArrives(m) \/ LoseReport(m)
      PROVE  status[j] = "leased" /\ status'[j] \in Terminal /\ m.job = j
  BY <1>4 DEF ReportArrives, LoseReport, CompletedBy
<1>5. CASE PortalRestart
  BY <1>5 DEF PortalRestart
<1>6. CASE UNCHANGED vars
  BY <1>6
<1> QED
  BY <1>1, <1>2, <1>3, <1>4, <1>5, <1>6 DEF Next

(* A finished row is never rewritten, although completeJob would let it. *)
THEOREM Finality == Spec => TerminalIsFinal
<1>1. Inv /\ [Next]_vars =>
        [\A j \in Jobs : status[j] \in Terminal => status'[j] = status[j]]_vars
  BY StatusSteps
<1> HIDE DEF Inv
<1> QED
  BY <1>1, Invariance, PTL DEF Spec, TerminalIsFinal

(* A stranded job stays stranded: a lease is only ever handed on by whoever  *)
(* holds it, and the handler that leased it has no one waiting for it.      *)
THEOREM Stranding == Spec => StrandedForever
<1>1. ASSUME Inv, [Next]_vars, NEW j \in Jobs, Stranded(j) PROVE Stranded(j)'
  <2>1. status'[j] = "leased"
    BY <1>1, StatusSteps DEF Stranded
  <2>2. /\ \A p \in Polls : ~(at'[p] = "reply" /\ picked'[p] = j /\ waitOn'[from'[p]] = p)
        /\ \A c \in Connectors : held'[c] # j
        /\ \A m \in posts' : m.job # j
    <3>1. ASSUME NEW i \in Jobs, StageStep(i) PROVE <2>2!1 /\ <2>2!2 /\ <2>2!3
      BY <1>1, <3>1 DEF Stranded, StageStep, Resolve, InsertBegin, InsertCommit
    <3>2. ASSUME NEW p \in Polls, LeaseSelect(p) \/ LeaseNone(p) \/ Wake(p) \/ Deadline(p)
          PROVE  <2>2!1 /\ <2>2!2 /\ <2>2!3
      BY <1>1, <3>2 DEF Stranded, LeaseSelect, LeaseNone, Wake, Deadline
    <3>3. ASSUME NEW p \in Polls, LeaseCommit(p) PROVE <2>2!1 /\ <2>2!2 /\ <2>2!3
      BY <1>1, <3>3 DEF Stranded, LeaseCommit
    <3>4. ASSUME NEW p \in Polls, AnswerReceived(p) \/ AnswerUnread(p) \/ PollBreaks(p)
          PROVE  <2>2!1 /\ <2>2!2 /\ <2>2!3
      BY <1>1, <3>4 DEF Stranded, AnswerReceived, AnswerUnread, PollBreaks, Free
    <3>5. ASSUME NEW c \in Connectors, NEW p \in Polls, StartPoll(c, p)
          PROVE  <2>2!1 /\ <2>2!2 /\ <2>2!3
      BY <1>1, <3>5 DEF Stranded, StartPoll
    <3>6. ASSUME NEW c \in Connectors, NEW ok \in BOOLEAN, Dispatch(c, ok)
          PROVE  <2>2!1 /\ <2>2!2 /\ <2>2!3
      BY <1>1, <3>6 DEF Stranded, Dispatch
    <3>7. ASSUME NEW c \in Connectors,
                 PollRefused(c) \/ PollFails(c) \/ Backoff(c) \/ ReportReturns(c)
          PROVE  <2>2!1 /\ <2>2!2 /\ <2>2!3
      BY <1>1, <3>7 DEF Stranded, PollRefused, PollFails, Backoff, ReportReturns
    <3>8. ASSUME NEW c \in Connectors, OperatorStep(c) \/ Exit(c) \/ Crash(c)
          PROVE  <2>2!1 /\ <2>2!2 /\ <2>2!3
      BY <1>1, <3>8 DEF Stranded, OperatorStep, Enroll, Revoke, Start, Stop,
                        Exit, Crash, Down
    <3>9. ASSUME NEW m \in posts, ReportArrives(m) \/ LoseReport(m)
          PROVE  <2>2!1 /\ <2>2!2 /\ <2>2!3
      BY <1>1, <3>9 DEF Stranded, ReportArrives, LoseReport
    <3>10. CASE PortalRestart
      BY <1>1, <3>10 DEF Stranded, PortalRestart
    <3>11. CASE UNCHANGED vars
      BY <1>1, <3>11 DEF Stranded
    <3> QED
      BY <1>1, <3>1, <3>2, <3>3, <3>4, <3>5, <3>6, <3>7, <3>8, <3>9, <3>10, <3>11
      DEF Next, HandlerStep, ConnectorStep, StartsPoll, Dispatches
  <2> QED
    BY <2>1, <2>2 DEF Stranded
<1>2. Inv /\ [Next]_vars => [\A j \in Jobs : Stranded(j) => Stranded(j)']_vars
  BY <1>1
<1> HIDE DEF Inv
<1> QED
  BY <1>2, Invariance, PTL DEF Spec, StrandedForever

(* A handler that answers keeps its job until it is gone. *)
LEMMA ReplyStays ==
    ASSUME Inv, [Next]_vars, NEW p \in Polls, at[p] = "reply", at'[p] # "free"
    PROVE  at'[p] = "reply" /\ picked'[p] = picked[p]
<1>1. ASSUME NEW q \in Polls, HandlerStep(q) \/ PollBreaks(q)
      PROVE  at'[p] = "reply" /\ picked'[p] = picked[p]
  BY <1>1 DEF HandlerStep, LeaseSelect, LeaseNone, LeaseCommit, Wake, Deadline,
              AnswerReceived, AnswerUnread, PollBreaks, Free
<1>2. ASSUME NEW c \in Connectors, ConnectorStep(c)
      PROVE  at'[p] = "reply" /\ picked'[p] = picked[p]
  BY <1>2 DEF ConnectorStep, StartsPoll, StartPoll, PollRefused, PollFails, Backoff,
              Dispatches, Dispatch, ReportReturns
<1>3. ASSUME NEW c \in Connectors, OperatorStep(c) \/ Exit(c) \/ Crash(c)
      PROVE  UNCHANGED <<at, picked>>
  BY <1>3 DEF OperatorStep, Enroll, Revoke, Start, Stop, Exit, Crash
<1>4. ASSUME NEW j \in Jobs, StageStep(j) PROVE UNCHANGED <<at, picked>>
  BY <1>4 DEF StageStep, Resolve, InsertBegin, InsertCommit
<1>5. ASSUME NEW m \in posts, ReportArrives(m) \/ LoseReport(m) PROVE UNCHANGED <<at, picked>>
  BY <1>5 DEF ReportArrives, LoseReport
<1>6. CASE PortalRestart
  BY <1>6 DEF PortalRestart
<1>7. CASE UNCHANGED vars
  BY <1>7
<1> QED
  BY <1>1, <1>2, <1>3, <1>4, <1>5, <1>6, <1>7 DEF Next

(* A connector that no longer holds its job went down, is stopping, or has   *)
(* sent a report of it.                                                     *)
LEMMA HeldEnds ==
    ASSUME Inv, [Next]_vars, NEW c \in Connectors, held[c] # None, held'[c] # held[c]
    PROVE  \/ pc'[c] = "down" \/ stopping[c]
           \/ \E m \in posts' : m.job = held[c]
<1>1. pc[c] = "handling"
  OBVIOUS
<1>2. ASSUME NEW p \in Polls, HandlerStep(p) \/ PollBreaks(p) PROVE FALSE
  BY <1>1, <1>2 DEF HandlerStep, LeaseSelect, LeaseNone, LeaseCommit, Wake, Deadline,
                    AnswerReceived, AnswerUnread, PollBreaks
<1>3. ASSUME NEW d \in Connectors, NEW ok \in BOOLEAN, Dispatch(d, ok)
      PROVE  stopping[c] \/ \E m \in posts' : m.job = held[c]
  <2>1. d = c
    BY <1>3 DEF Dispatch
  <2>2. CASE ~stopping[c]
    <3>1. [conn |-> c, job |-> held[c], ok |-> ok] \in posts'
      BY <1>3, <2>1, <2>2 DEF Dispatch
    <3> QED
      BY <3>1
  <2> QED
    BY <2>2
<1>4. ASSUME NEW d \in Connectors,
             \/ StartsPoll(d) \/ PollRefused(d) \/ PollFails(d) \/ Backoff(d)
             \/ ReportReturns(d) \/ OperatorStep(d)
      PROVE  FALSE
  BY <1>4 DEF StartsPoll, StartPoll, PollRefused, PollFails, Backoff, ReportReturns,
              OperatorStep, Enroll, Revoke, Start, Stop
<1>5. ASSUME NEW d \in Connectors, Exit(d) \/ Crash(d) PROVE pc'[c] = "down"
  BY <1>5 DEF Exit, Crash, Down
<1>6. ASSUME NEW j \in Jobs, StageStep(j) PROVE FALSE
  BY <1>6 DEF StageStep, Resolve, InsertBegin, InsertCommit
<1>7. ASSUME NEW m \in posts, ReportArrives(m) \/ LoseReport(m) PROVE FALSE
  BY <1>7 DEF ReportArrives, LoseReport
<1>8. CASE PortalRestart \/ UNCHANGED vars
  BY <1>8 DEF PortalRestart
<1> QED
  BY <1>2, <1>3, <1>4, <1>5, <1>6, <1>7, <1>8 DEF Next, ConnectorStep, Dispatches

(* What strands a job: its own connector, its own connector's poll, or the  *)
(* loss or refusal of its report.                                           *)
LEMMA StrandingStep ==
    ASSUME Inv, [Next]_vars, NEW j \in Jobs, Stranded(j)', ~Stranded(j)
    PROVE  \/ held[owner[j]] = j /\ (pc'[owner[j]] = "down" \/ stopping[owner[j]])
           \/ \E p \in Polls : picked[p] = j /\ waitOn'[owner[j]] # p
           \/ \E m \in posts \ posts' : m.job = j
<1>1. /\ ~\E p \in Polls : at'[p] = "reply" /\ picked'[p] = j /\ waitOn'[from'[p]] = p
      /\ ~\E c \in Connectors : held'[c] = j
      /\ ~\E m \in posts' : m.job = j
      /\ status'[j] = "leased"
  BY DEF Stranded
<1>2. Inv'
  BY StepInv
<1>3. CASE status[j] # "leased"
  <2>1. status[j] = "pending"
    BY <1>1, <1>3, StatusSteps
  <2>2. PICK p \in Polls : LeaseCommit(p) /\ picked[p] = j
    <3>1. ASSUME NEW i \in Jobs, StageStep(i) PROVE FALSE
      BY <1>1, <2>1, <3>1 DEF StageStep, Resolve, InsertBegin, InsertCommit
    <3>2. ASSUME NEW p \in Polls, HandlerStep(p) \/ PollBreaks(p)
          PROVE  LeaseCommit(p) /\ picked[p] = j
      <4>1. LeaseCommit(p)
        BY <1>1, <2>1, <3>2
        DEF HandlerStep, LeaseSelect, LeaseNone, Wake, Deadline, AnswerReceived,
            AnswerUnread, PollBreaks
      <4>2. picked[p] = j
        BY <1>1, <2>1, <4>1 DEF LeaseCommit
      <4> QED
        BY <4>1, <4>2
    <3>3. ASSUME NEW c \in Connectors,
                 ConnectorStep(c) \/ OperatorStep(c) \/ Exit(c) \/ Crash(c)
          PROVE  FALSE
      BY <1>1, <2>1, <3>3
      DEF ConnectorStep, StartsPoll, StartPoll, PollRefused, PollFails, Backoff,
          Dispatches, Dispatch, ReportReturns, OperatorStep, Enroll, Revoke,
          Start, Stop, Exit, Crash
    <3>4. ASSUME NEW m \in posts, ReportArrives(m) \/ LoseReport(m) PROVE FALSE
      BY <1>1, <2>1, <3>4 DEF ReportArrives, LoseReport, CompletedBy
    <3>5. CASE PortalRestart \/ UNCHANGED vars
      BY <1>1, <2>1, <3>5 DEF PortalRestart
    <3> QED
      BY <3>1, <3>2, <3>3, <3>4, <3>5 DEF Next
  <2>3. owner[j] = from[p] /\ at'[p] = "reply" /\ picked'[p] = j /\ from'[p] = from[p]
    BY <2>2 DEF LeaseCommit
  <2> QED
    BY <1>1, <2>2, <2>3
<1>4. CASE \E p \in Polls : at[p] = "reply" /\ picked[p] = j /\ waitOn[from[p]] = p
  <2>1. PICK p \in Polls : at[p] = "reply" /\ picked[p] = j
    BY <1>4
  <2>2. owner[j] = from[p] /\ from[p] \in Connectors
    BY <2>1
  <2>3. ASSUME waitOn'[from[p]] = p PROVE FALSE
    <3>1. at'[p] # "free" /\ from'[p] = from[p]
      BY <1>2, <2>2, <2>3
    <3>2. at'[p] = "reply" /\ picked'[p] = j
      BY <2>1, <3>1, ReplyStays
    <3> QED
      BY <1>1, <2>3, <3>1, <3>2
  <2> QED
    BY <2>1, <2>2, <2>3
<1>5. CASE \E c \in Connectors : held[c] = j
  <2>1. PICK c \in Connectors : held[c] = j
    BY <1>5
  <2>2. owner[j] = c /\ held'[c] # held[c]
    BY <1>1, <2>1
  <2>3. pc'[c] = "down" \/ stopping[c] \/ \E m \in posts' : m.job = j
    BY <2>1, <2>2, HeldEnds
  <2> QED
    BY <1>1, <2>1, <2>2, <2>3
<1>6. CASE \E m \in posts : m.job = j
  BY <1>1, <1>6
<1> QED
  BY <1>3, <1>4, <1>5, <1>6 DEF Stranded

(* A job is stranded by its own connector, its own connector's poll, or the *)
(* loss or refusal of its report; nothing else that happens can strand it.  *)
THEOREM StrandingHasCause == Spec => WhyStranded
<1>1. Inv /\ [Next]_vars =>
        [\A j \in Jobs : Stranded(j)' /\ ~Stranded(j) =>
            \/ held[owner[j]] = j /\ (pc'[owner[j]] = "down" \/ stopping[owner[j]])
            \/ \E p \in Polls : picked[p] = j /\ waitOn'[owner[j]] # p
            \/ \E m \in posts \ posts' : m.job = j]_vars
  BY StrandingStep
<1> HIDE DEF Inv
<1> QED
  BY <1>1, Invariance, PTL DEF Spec, WhyStranded

(* A revoked connector stays so, and nobody begins a poll for it.           *)
LEMMA RevokedStays ==
    ASSUME Inv, [Next]_vars, NEW c \in Connectors, reg[c] = "revoked"
    PROVE  /\ reg'[c] = "revoked"
           /\ \A p \in Polls : at'[p] # "free" /\ from'[p] = c
                => at[p] # "free" /\ from[p] = c
<1> DEFINE Holds == /\ reg'[c] = "revoked"
                    /\ \A p \in Polls : at'[p] # "free" /\ from'[p] = c
                            => at[p] # "free" /\ from[p] = c
<1>1. ASSUME NEW p \in Polls, HandlerStep(p) \/ PollBreaks(p) PROVE Holds
  BY <1>1 DEF HandlerStep, LeaseSelect, LeaseNone, LeaseCommit, Wake, Deadline,
              AnswerReceived, AnswerUnread, PollBreaks, Free
<1>2. ASSUME NEW d \in Connectors, NEW p \in Polls, StartPoll(d, p) PROVE Holds
  BY <1>2 DEF StartPoll, Authenticated
<1>3. ASSUME NEW d \in Connectors,
             PollRefused(d) \/ PollFails(d) \/ Backoff(d) \/ Dispatches(d) \/ ReportReturns(d)
      PROVE  Holds
  BY <1>3 DEF PollRefused, PollFails, Backoff, Dispatches, Dispatch, ReportReturns
<1>4. ASSUME NEW d \in Connectors, OperatorStep(d) \/ Exit(d) \/ Crash(d) PROVE Holds
  BY <1>4 DEF OperatorStep, Enroll, Revoke, Start, Stop, Exit, Crash
<1>5. ASSUME NEW i \in Jobs, StageStep(i) PROVE Holds
  BY <1>5 DEF StageStep, Resolve, InsertBegin, InsertCommit
<1>6. ASSUME NEW m \in posts, ReportArrives(m) \/ LoseReport(m) PROVE Holds
  BY <1>6 DEF ReportArrives, LoseReport
<1>7. CASE PortalRestart \/ UNCHANGED vars
  BY <1>7 DEF PortalRestart
<1> QED
  BY <1>1, <1>2, <1>3, <1>4, <1>5, <1>6, <1>7 DEF Next, ConnectorStep, StartsPoll

(* The connector of a job is chosen once. *)
LEMMA OwnerStays ==
    ASSUME Inv, [Next]_vars, NEW j \in Jobs, status[j] # "absent"
    PROVE  owner'[j] = owner[j]
<1>1. ASSUME NEW i \in Jobs, StageStep(i) PROVE owner'[j] = owner[j]
  BY <1>1 DEF StageStep, Resolve, InsertBegin, InsertCommit
<1>2. ASSUME NEW p \in Polls, HandlerStep(p) \/ PollBreaks(p) PROVE owner' = owner
  BY <1>2 DEF HandlerStep, LeaseSelect, LeaseNone, LeaseCommit, Wake, Deadline,
              AnswerReceived, AnswerUnread, PollBreaks
<1>3. ASSUME NEW c \in Connectors, ConnectorStep(c) \/ OperatorStep(c) \/ Exit(c) \/ Crash(c)
      PROVE  owner' = owner
  BY <1>3 DEF ConnectorStep, StartsPoll, StartPoll, PollRefused, PollFails, Backoff,
              Dispatches, Dispatch, ReportReturns, OperatorStep, Enroll, Revoke,
              Start, Stop, Exit, Crash
<1>4. ASSUME NEW m \in posts, ReportArrives(m) \/ LoseReport(m) PROVE owner' = owner
  BY <1>4 DEF ReportArrives, LoseReport
<1>5. CASE PortalRestart \/ UNCHANGED vars
  BY <1>5 DEF PortalRestart
<1> QED
  BY <1>1, <1>2, <1>3, <1>4, <1>5 DEF Next

(* Only a handler of its own connector takes a job out of the queue.        *)
LEMMA LeasedByItsOwn ==
    ASSUME Inv, [Next]_vars, NEW j \in Jobs, status[j] = "pending", status'[j] = "leased"
    PROVE  \E p \in Polls : at[p] # "free" /\ from[p] = owner[j]
<1>1. ASSUME NEW i \in Jobs, StageStep(i) PROVE FALSE
  BY <1>1 DEF StageStep, Resolve, InsertBegin, InsertCommit
<1>2. ASSUME NEW p \in Polls, HandlerStep(p) \/ PollBreaks(p)
      PROVE  at[p] # "free" /\ from[p] = owner[j]
  <2>1. LeaseCommit(p)
    BY <1>2 DEF HandlerStep, LeaseSelect, LeaseNone, LeaseCommit, Wake, Deadline,
                AnswerReceived, AnswerUnread, PollBreaks
  <2>2. at[p] = "locked" /\ picked[p] = j
    BY <2>1 DEF LeaseCommit
  <2> QED
    BY <2>2
<1>3. ASSUME NEW c \in Connectors, ConnectorStep(c) \/ OperatorStep(c) \/ Exit(c) \/ Crash(c)
      PROVE  FALSE
  BY <1>3 DEF ConnectorStep, StartsPoll, StartPoll, PollRefused, PollFails, Backoff,
              Dispatches, Dispatch, ReportReturns, OperatorStep, Enroll, Revoke,
              Start, Stop, Exit, Crash
<1>4. ASSUME NEW m \in posts, ReportArrives(m) \/ LoseReport(m) PROVE FALSE
  BY <1>4 DEF ReportArrives, LoseReport
<1>5. CASE PortalRestart \/ UNCHANGED vars
  BY <1>5 DEF PortalRestart
<1> QED
  BY <1>1, <1>2, <1>3, <1>4, <1>5 DEF Next

(* A revoked connector that is out of its poll and has no job stays so, and  *)
(* the jobs that wait for it wait for good.                                 *)
THEOREM Revocation == Spec => RevocationTakesHold
<1>1. ASSUME Inv, [Next]_vars, NEW c \in Connectors, reg[c] = "revoked",
             pc[c] \notin {"polling", "handling"}
      PROVE  pc'[c] \notin {"polling", "handling"}
  <2>1. ASSUME NEW p \in Polls, HandlerStep(p) \/ PollBreaks(p) PROVE pc'[c] = pc[c]
    BY <1>1, <2>1 DEF HandlerStep, LeaseSelect, LeaseNone, LeaseCommit, Wake, Deadline,
                      AnswerReceived, AnswerUnread, PollBreaks
  <2>2. ASSUME NEW d \in Connectors, ConnectorStep(d)
        PROVE  pc'[c] \notin {"polling", "handling"}
    BY <1>1, <2>2 DEF ConnectorStep, StartsPoll, StartPoll, PollRefused, PollFails,
                      Backoff, Dispatches, Dispatch, ReportReturns
  <2>3. ASSUME NEW d \in Connectors, OperatorStep(d) \/ Exit(d) \/ Crash(d)
        PROVE  pc'[c] \notin {"polling", "handling"}
    BY <1>1, <2>3 DEF OperatorStep, Enroll, Revoke, Start, Stop, Exit, Crash, Down
  <2>4. ASSUME NEW j \in Jobs, StageStep(j) PROVE pc' = pc
    BY <2>4 DEF StageStep, Resolve, InsertBegin, InsertCommit
  <2>5. ASSUME NEW m \in posts, ReportArrives(m) \/ LoseReport(m) PROVE pc' = pc
    BY <2>5 DEF ReportArrives, LoseReport
  <2>6. CASE PortalRestart
    BY <1>1, <2>6 DEF PortalRestart
  <2> QED
    BY <1>1, <2>1, <2>2, <2>3, <2>4, <2>5, <2>6 DEF Next
<1>2. ASSUME Inv, [Next]_vars, NEW j \in Jobs, Abandoned(j)
      PROVE  Abandoned(j)' \/ status'[j] = "dropped"
  <2>1. /\ status[j] \in {"resolved", "inserting", "pending"}
        /\ reg[owner[j]] = "revoked"
        /\ \A p \in Polls : at[p] # "free" => from[p] # owner[j]
    BY <1>2 DEF Abandoned
  <2>2. owner[j] \in Connectors /\ owner'[j] = owner[j]
    BY <1>2, <2>1, OwnerStays
  <2>3. /\ reg'[owner[j]] = "revoked"
        /\ \A p \in Polls : at'[p] # "free" => from'[p] # owner[j]
    BY <1>2, <2>1, <2>2, RevokedStays
  <2>4. status'[j] \in {"resolved", "inserting", "pending", "dropped"}
    BY <1>2, <2>1, StatusSteps, LeasedByItsOwn
  <2> QED
    BY <2>2, <2>3, <2>4 DEF Abandoned
<1>3. Inv /\ [Next]_vars =>
        [/\ \A c \in Connectors :
                reg[c] = "revoked" /\ pc[c] \notin {"polling", "handling"}
                    => pc'[c] \notin {"polling", "handling"}
         /\ \A j \in Jobs : Abandoned(j) => Abandoned(j)' \/ status'[j] = "dropped"]_vars
  BY <1>1, <1>2
<1> HIDE DEF Inv
<1> QED
  BY <1>3, Invariance, PTL DEF Spec, RevocationTakesHold

-----------------------------------------------------------------------------
(* JobDelivery implements JobQueue.                                         *)

HIDE DEF Inv, TypeOK, RowInv, LockInv, ReplyInv, HeldInv, ReportInv, WaitInv

(* What the mapping makes of each status. *)
LEMMA MappedStatus ==
    /\ \A s \in {"absent", "resolved", "inserting", "dropped"} :
            PhaseOf(s) = "new" /\ VerdictOf(s) = "none"
    /\ PhaseOf("pending") = "queued" /\ VerdictOf("pending") = "none"
    /\ PhaseOf("leased") = "taken" /\ VerdictOf("leased") = "none"
    /\ PhaseOf("succeeded") = "recorded" /\ VerdictOf("succeeded") = "ok"
    /\ PhaseOf("failed") = "recorded" /\ VerdictOf("failed") = "fail"
    /\ OutcomeOf("no") = "none" /\ OutcomeOf("ok") = "ok" /\ OutcomeOf("fail") = "fail"
  BY DEF PhaseOf, VerdictOf, OutcomeOf

(* The mapped variables after a step. *)
LEMMA MappedNext ==
    /\ [i \in Jobs |-> PhaseOf(status[i])]' = [i \in Jobs |-> PhaseOf(status'[i])]
    /\ [i \in Jobs |-> VerdictOf(status[i])]' = [i \in Jobs |-> VerdictOf(status'[i])]
    /\ [i \in Jobs |-> OutcomeOf(ran[i])]' = [i \in Jobs |-> OutcomeOf(ran'[i])]
  BY DEF PhaseOf, VerdictOf, OutcomeOf

(* Every step of the detailed system is a step of the queue, or a stutter. *)
LEMMA QueueStep == Inv /\ [Next]_vars => [Queue!Next]_(Queue!vars)
<1> SUFFICES ASSUME Inv, [Next]_vars PROVE [Queue!Next]_(Queue!vars)
  OBVIOUS
<1> DEFINE Types == /\ status \in [Jobs -> Statuses]
                    /\ ran \in [Jobs -> {"no", "ok", "fail"}]
<1>0. Types
  BY DEF Inv, TypeOK
<1>1. ASSUME NEW j \in Jobs, InsertCommit(j) PROVE Queue!Submit(j)
  <2>1. \A i \in Jobs : status'[i] = IF i = j THEN "pending" ELSE status[i]
    BY <1>0, <1>1 DEF InsertCommit
  <2>2. status[j] = "inserting" /\ ran' = ran
    BY <1>1 DEF InsertCommit
  <2>3. [i \in Jobs |-> PhaseOf(status'[i])] =
            [[i \in Jobs |-> PhaseOf(status[i])] EXCEPT ![j] = "queued"]
    BY <2>1, MappedStatus
  <2>4. [i \in Jobs |-> VerdictOf(status'[i])] = [i \in Jobs |-> VerdictOf(status[i])]
    BY <2>1, <2>2, MappedStatus
  <2>5. PhaseOf(status[j]) = "new"
    BY <2>2, MappedStatus
  <2> QED
    BY <2>2, <2>3, <2>4, <2>5, MappedNext DEF Queue!Submit
<1>2. ASSUME NEW p \in Polls, LeaseCommit(p) PROVE Queue!Take(picked[p])
  <2>1. picked[p] \in Jobs /\ status[picked[p]] = "pending" /\ ran' = ran
    BY <1>2 DEF LeaseCommit, Inv, TypeOK, LockInv
  <2>2. \A i \in Jobs : status'[i] = IF i = picked[p] THEN "leased" ELSE status[i]
    BY <1>0, <1>2 DEF LeaseCommit
  <2>3. [i \in Jobs |-> PhaseOf(status'[i])] =
            [[i \in Jobs |-> PhaseOf(status[i])] EXCEPT ![picked[p]] = "taken"]
    BY <2>1, <2>2, MappedStatus
  <2>4. [i \in Jobs |-> VerdictOf(status'[i])] = [i \in Jobs |-> VerdictOf(status[i])]
    BY <2>1, <2>2, MappedStatus
  <2>5. PhaseOf(status[picked[p]]) = "queued"
    BY <2>1, MappedStatus
  <2> QED
    BY <2>1, <2>3, <2>4, <2>5, MappedNext DEF Queue!Take
<1>3. ASSUME NEW c \in Connectors, NEW ok \in BOOLEAN, Dispatch(c, ok)
      PROVE  Queue!Run(held[c])
  <2>1. /\ held[c] \in Jobs /\ status[held[c]] = "leased" /\ ran[held[c]] = "no"
        /\ status' = status
    BY <1>3 DEF Dispatch, Inv, TypeOK, HeldInv
  <2>2. \A i \in Jobs :
            ran'[i] = IF i = held[c] THEN IF ok THEN "ok" ELSE "fail" ELSE ran[i]
    BY <1>0, <1>3 DEF Dispatch
  <2>3. [i \in Jobs |-> OutcomeOf(ran'[i])] =
            [[i \in Jobs |-> OutcomeOf(ran[i])] EXCEPT
                ![held[c]] = IF ok THEN "ok" ELSE "fail"]
    BY <2>2, MappedStatus
  <2>4. PhaseOf(status[held[c]]) = "taken" /\ OutcomeOf(ran[held[c]]) = "none"
    BY <2>1, MappedStatus
  <2> QED
    BY <2>1, <2>3, <2>4, MappedNext DEF Queue!Run, Queue!Outcomes
<1>4. ASSUME NEW m \in posts, ReportArrives(m), status' # status
      PROVE  Queue!Record(m.job)
  <2>1. /\ m.job \in Jobs /\ m.ok \in BOOLEAN /\ status[m.job] = "leased"
        /\ ran[m.job] = IF m.ok THEN "ok" ELSE "fail"
        /\ ran' = ran
    BY <1>4 DEF ReportArrives, Inv, TypeOK, ReportInv
  <2>2. \A i \in Jobs : status'[i] = IF i = m.job
                                     THEN IF m.ok THEN "succeeded" ELSE "failed"
                                     ELSE status[i]
    BY <1>0, <1>4, <2>1 DEF ReportArrives, CompletedBy
  <2>3. [i \in Jobs |-> PhaseOf(status'[i])] =
            [[i \in Jobs |-> PhaseOf(status[i])] EXCEPT ![m.job] = "recorded"]
    BY <2>1, <2>2, MappedStatus
  <2>4. [i \in Jobs |-> VerdictOf(status'[i])] =
            [[i \in Jobs |-> VerdictOf(status[i])] EXCEPT
                ![m.job] = OutcomeOf(ran[m.job])]
    <3>1. VerdictOf(status'[m.job]) = OutcomeOf(ran[m.job])
      BY <2>1, <2>2, MappedStatus
    <3>2. \A i \in Jobs \ {m.job} : VerdictOf(status'[i]) = VerdictOf(status[i])
      BY <2>2
    <3> QED
      BY <2>1, <3>1, <3>2
  <2>5. PhaseOf(status[m.job]) = "taken" /\ OutcomeOf(ran[m.job]) # "none"
    BY <2>1, MappedStatus
  <2> QED
    BY <2>1, <2>3, <2>4, <2>5, MappedNext DEF Queue!Record
<1>5. ASSUME NEW j \in Jobs, Resolve(j) \/ InsertBegin(j) PROVE UNCHANGED Queue!vars
  <2>1. \A i \in Jobs : status'[i] = status[i] \/
                          (status[i] \in {"absent", "resolved"} /\
                           status'[i] \in {"resolved", "inserting"})
    BY <1>0, <1>5 DEF Resolve, InsertBegin
  <2>2. ran' = ran
    BY <1>5 DEF Resolve, InsertBegin
  <2>3. \A i \in Jobs : PhaseOf(status'[i]) = PhaseOf(status[i])
                       /\ VerdictOf(status'[i]) = VerdictOf(status[i])
    BY <2>1, MappedStatus
  <2> QED
    BY <2>2, <2>3, MappedNext DEF Queue!vars
<1>6. CASE PortalRestart
  <2>1. \A i \in Jobs : status'[i] = status[i] \/
                          (status[i] \in {"resolved", "inserting"} /\
                           status'[i] = "dropped")
    BY <1>0, <1>6 DEF PortalRestart
  <2>2. ran' = ran
    BY <1>6 DEF PortalRestart
  <2>3. \A i \in Jobs : PhaseOf(status'[i]) = PhaseOf(status[i])
                       /\ VerdictOf(status'[i]) = VerdictOf(status[i])
    BY <2>1, MappedStatus
  <2> QED
    BY <2>2, <2>3, MappedNext DEF Queue!vars
<1>7. ASSUME UNCHANGED <<status, ran>> PROVE UNCHANGED Queue!vars
  BY <1>7 DEF Queue!vars
<1>8. ASSUME NEW p \in Polls, HandlerStep(p) \/ PollBreaks(p)
      PROVE  LeaseCommit(p) \/ UNCHANGED <<status, ran>>
  BY <1>8 DEF HandlerStep, LeaseSelect, LeaseNone, Wake, Deadline, AnswerReceived,
              AnswerUnread, PollBreaks
<1>9. ASSUME NEW c \in Connectors, ConnectorStep(c)
      PROVE  Dispatches(c) \/ UNCHANGED <<status, ran>>
  BY <1>9 DEF ConnectorStep, StartsPoll, StartPoll, PollRefused, PollFails, Backoff,
              ReportReturns
<1>10. ASSUME NEW c \in Connectors, OperatorStep(c) \/ Exit(c) \/ Crash(c)
       PROVE  UNCHANGED <<status, ran>>
  BY <1>10 DEF OperatorStep, Enroll, Revoke, Start, Stop, Exit, Crash
<1>11. ASSUME NEW m \in posts, ReportArrives(m) \/ LoseReport(m)
       PROVE  ran' = ran /\ (ReportArrives(m) \/ status' = status)
  BY <1>11 DEF ReportArrives, LoseReport
<1>12. CASE UNCHANGED vars
  BY <1>7, <1>12
<1>13. CASE Next
  <2>1. CASE \E j \in Jobs : StageStep(j)
    BY <2>1, <1>1, <1>5 DEF StageStep, Queue!Next
  <2>2. CASE \E p \in Polls : HandlerStep(p) \/ PollBreaks(p)
    <3>1. PICK p \in Polls : HandlerStep(p) \/ PollBreaks(p)
      BY <2>2
    <3>2. CASE LeaseCommit(p)
      BY <3>2, <1>2 DEF Queue!Next, LeaseCommit, Inv, TypeOK, LockInv
    <3> QED
      BY <3>1, <3>2, <1>7, <1>8
  <2>3. CASE \E c \in Connectors :
                ConnectorStep(c) \/ OperatorStep(c) \/ Exit(c) \/ Crash(c)
    <3>1. PICK c \in Connectors :
                ConnectorStep(c) \/ OperatorStep(c) \/ Exit(c) \/ Crash(c)
      BY <2>3
    <3>2. CASE Dispatches(c)
      <4>1. PICK ok \in BOOLEAN : Dispatch(c, ok)
        BY <3>2 DEF Dispatches
      <4>2. held[c] \in Jobs
        BY <4>1 DEF Dispatch, Inv, TypeOK, HeldInv
      <4> QED
        BY <4>1, <4>2, <1>3 DEF Queue!Next
    <3> QED
      BY <3>1, <3>2, <1>7, <1>9, <1>10
  <2>4. CASE \E m \in posts : ReportArrives(m) \/ LoseReport(m)
    BY <2>4, <1>4, <1>7, <1>11 DEF Queue!Next, Inv, TypeOK
  <2> QED
    BY <1>13, <2>1, <2>2, <2>3, <2>4, <1>6 DEF Next
<1> QED
  BY <1>12, <1>13

(* However it is disturbed, the delivery system is an at-most-once queue. *)
THEOREM Refinement == Spec => ImplementsQueue
<1>1. Init => Queue!Init
  BY MappedStatus DEF Init, Queue!Init
<1> HIDE DEF Inv
<1> QED
  BY <1>1, QueueStep, Invariance, PTL DEF Spec, ImplementsQueue, Queue!Spec

-----------------------------------------------------------------------------
(* What holds while messages arrive and processes keep running, although    *)
(* operators revoke connectors and jobs may be undecodable: a connector has *)
(* one poll at a time, and only a refused report strands a job.             *)

(* Nothing happens but the ordinary steps of the portal and its connectors, *)
(* and revocations.                                                         *)
LEMMA OrdinarySteps ==
    ASSUME Steady, SteadyInv, [Next]_vars
    PROVE  \/ \E c \in Connectors : Enroll(c) \/ Start(c)
           \/ \E c \in Connectors : Revoke(c)
           \/ \E j \in Jobs : StageStep(j)
           \/ \E c \in Connectors, p \in Polls : StartPoll(c, p)
           \/ \E c \in Connectors : PollRefused(c) \/ Backoff(c)
           \/ \E p \in Polls : LeaseNone(p) \/ Wake(p) \/ Deadline(p)
           \/ \E p \in Polls : LeaseSelect(p)
           \/ \E p \in Polls : LeaseCommit(p)
           \/ \E p \in Polls : AnswerReceived(p)
           \/ \E c \in Connectors, ok \in BOOLEAN : Dispatch(c, ok)
           \/ \E c \in Connectors : ReportReturns(c) /\ UNCHANGED posts
           \/ \E m \in posts : ReportArrives(m)
           \/ UNCHANGED vars
<1> USE DEF SteadyInv
<1>1. ASSUME NEW p \in Polls, AnswerUnread(p) \/ PollBreaks(p) PROVE FALSE
  BY <1>1 DEF AnswerUnread, PollBreaks, Steady, PairInv
<1>2. ASSUME NEW c \in Connectors, PollFails(c) \/ Stop(c) \/ Exit(c) \/ Crash(c)
      PROVE  FALSE
  BY <1>2 DEF PollFails, Stop, Exit, Crash, Steady, PairInv, KnownInv
<1>3. ASSUME NEW c \in Connectors, ReportReturns(c) PROVE UNCHANGED posts
  BY <1>3 DEF ReportReturns, KnownInv
<1>4. ASSUME NEW m \in posts, LoseReport(m) PROVE FALSE
  BY <1>4 DEF LoseReport, Steady
<1>5. ~PortalRestart
  BY DEF PortalRestart, Steady
<1> HIDE DEF SteadyInv
<1> QED
  BY <1>1, <1>2, <1>3, <1>4, <1>5
  DEF Next, HandlerStep, ConnectorStep, OperatorStep, StartsPoll, Dispatches

(* Handlers and the connectors that wait for them stay paired. *)
LEMMA PairStep == ASSUME Steady, SteadyInv, [Next]_vars PROVE PairInv'
<1> USE DEF SteadyInv, PairInv, Inv, TypeOK, LockInv, WaitInv
<1>1. ASSUME NEW c \in Connectors, Enroll(c) \/ Start(c) \/ Revoke(c) PROVE PairInv'
  BY <1>1 DEF Enroll, Start, Revoke
<1>2. ASSUME NEW j \in Jobs, StageStep(j) PROVE PairInv'
  BY <1>2 DEF StageStep, Resolve, InsertBegin, InsertCommit
<1>3. ASSUME NEW c \in Connectors, NEW p \in Polls, StartPoll(c, p) PROVE PairInv'
  BY <1>3 DEF StartPoll
<1>4. ASSUME NEW c \in Connectors, PollRefused(c) \/ Backoff(c) PROVE PairInv'
  BY <1>4 DEF PollRefused, Backoff
<1>5. ASSUME NEW p \in Polls, LeaseNone(p) \/ Wake(p) \/ Deadline(p) PROVE PairInv'
  BY <1>5 DEF LeaseNone, Wake, Deadline
<1>6. ASSUME NEW p \in Polls, LeaseSelect(p) \/ LeaseCommit(p) PROVE PairInv'
  BY <1>6 DEF LeaseSelect, LeaseCommit
<1>7. ASSUME NEW p \in Polls, AnswerReceived(p) PROVE PairInv'
  BY <1>7 DEF AnswerReceived, Free
<1>8. ASSUME NEW c \in Connectors, NEW ok \in BOOLEAN, Dispatch(c, ok) PROVE PairInv'
  BY <1>8 DEF Dispatch
<1>9. ASSUME NEW c \in Connectors, ReportReturns(c) PROVE PairInv'
  BY <1>9 DEF ReportReturns
<1>10. ASSUME NEW m \in posts, ReportArrives(m) PROVE PairInv'
  BY <1>10 DEF ReportArrives
<1>11. CASE UNCHANGED vars
  BY <1>11
<1> HIDE DEF SteadyInv, PairInv, Inv
<1> QED
  BY <1>1, <1>2, <1>3, <1>4, <1>5, <1>6, <1>7, <1>8, <1>9, <1>10, <1>11, OrdinarySteps

(* Nobody is asked to stop, and a connector in use stays enrolled. *)
LEMMA KnownStep == ASSUME Steady, SteadyInv, [Next]_vars PROVE KnownInv'
<1> USE DEF SteadyInv, KnownInv, Inv, TypeOK, HeldInv, LockInv, WaitInv
<1>1. ASSUME NEW c \in Connectors, Enroll(c) \/ Start(c) \/ Revoke(c) PROVE KnownInv'
  BY <1>1 DEF Enroll, Start, Revoke
<1>2. ASSUME NEW j \in Jobs, StageStep(j) PROVE KnownInv'
  BY <1>2 DEF StageStep, Resolve, InsertBegin, InsertCommit
<1>3. ASSUME NEW c \in Connectors, NEW p \in Polls, StartPoll(c, p) PROVE KnownInv'
  BY <1>3 DEF StartPoll
<1>4. ASSUME NEW c \in Connectors, PollRefused(c) \/ Backoff(c) PROVE KnownInv'
  BY <1>4 DEF PollRefused, Backoff
<1>5. ASSUME NEW p \in Polls, LeaseNone(p) \/ Wake(p) \/ Deadline(p) PROVE KnownInv'
  BY <1>5 DEF LeaseNone, Wake, Deadline
<1>6. ASSUME NEW p \in Polls, LeaseSelect(p) \/ LeaseCommit(p) PROVE KnownInv'
  BY <1>6 DEF LeaseSelect, LeaseCommit
<1>7. ASSUME NEW p \in Polls, AnswerReceived(p) PROVE KnownInv'
  BY <1>7 DEF AnswerReceived
<1>8. ASSUME NEW c \in Connectors, NEW ok \in BOOLEAN, Dispatch(c, ok) PROVE KnownInv'
  BY <1>8 DEF Dispatch
<1>9. ASSUME NEW c \in Connectors, ReportReturns(c), UNCHANGED posts PROVE KnownInv'
  BY <1>9 DEF ReportReturns
<1>10. ASSUME NEW m \in posts, ReportArrives(m) PROVE KnownInv'
  BY <1>10 DEF ReportArrives
<1>11. CASE UNCHANGED vars
  BY <1>11
<1> HIDE DEF SteadyInv, KnownInv, Inv
<1> QED
  BY <1>1, <1>2, <1>3, <1>4, <1>5, <1>6, <1>7, <1>8, <1>9, <1>10, <1>11, OrdinarySteps

(* A job is newly stranded only as its report is refused: a handler keeps    *)
(* its connector until it has answered, and a connector reports what it got. *)
LEMMA RefusalStep == ASSUME Steady, SteadyInv, [Next]_vars PROVE OnlyRefusalsStrand'
<1> SUFFICES ASSUME NEW j \in Jobs, Stranded(j)'
             PROVE  reg'[owner'[j]] = "revoked" \/ j \in Undecodable
  BY DEF OnlyRefusalsStrand
<1>1. Inv' /\ PairInv'
  BY StepInv, PairStep DEF SteadyInv
<1>2. status'[j] = "leased"
  BY DEF Stranded
<1> USE DEF SteadyInv, Inv, TypeOK
<1>3. ASSUME NEW c \in Connectors
      PROVE  /\ reg[c] = "revoked" => reg'[c] = "revoked"
             /\ pc[c] # "down" => pc'[c] # "down"
  <2>1. reg[c] = "revoked" => reg'[c] = "revoked"
    BY OrdinarySteps
    DEF Enroll, Start, Revoke, StageStep, Resolve, InsertBegin, InsertCommit, StartPoll,
        PollRefused, Backoff, LeaseNone, Wake, Deadline, LeaseSelect, LeaseCommit,
        AnswerReceived, Dispatch, ReportReturns, ReportArrives
  <2>2. pc[c] # "down" => pc'[c] # "down"
    BY OrdinarySteps
    DEF Enroll, Start, Revoke, StageStep, Resolve, InsertBegin, InsertCommit, StartPoll,
        PollRefused, Backoff, LeaseNone, Wake, Deadline, LeaseSelect, LeaseCommit,
        AnswerReceived, Dispatch, ReportReturns, ReportArrives
  <2> QED
    BY <2>1, <2>2
<1>4. owner'[j] = owner[j] /\ owner[j] \in Connectors
  <2>1. ASSUME NEW i \in Jobs, StageStep(i) PROVE owner'[j] = owner[j]
    BY <1>2, <2>1 DEF StageStep, Resolve, InsertBegin, InsertCommit
  <2>2. (\E i \in Jobs : StageStep(i)) \/ owner' = owner
    BY OrdinarySteps
    DEF Enroll, Start, Revoke, StartPoll, PollRefused, Backoff, LeaseNone, Wake,
        Deadline, LeaseSelect, LeaseCommit, AnswerReceived, Dispatch, ReportReturns,
        ReportArrives
  <2>3. owner'[j] \in Connectors
    BY <1>1, <1>2 DEF RowInv
  <2> QED
    BY <2>1, <2>2, <2>3
<1>5. CASE Stranded(j)
  BY <1>3, <1>4, <1>5 DEF OnlyRefusalsStrand
<1>6. CASE ~Stranded(j)
  <2>1. ~(held[owner[j]] = j /\ (pc'[owner[j]] = "down" \/ stopping[owner[j]]))
    BY <1>3, <1>4 DEF HeldInv, KnownInv
  <2>2. ASSUME NEW p \in Polls, picked[p] = j PROVE waitOn'[owner[j]] = p
    <3>1. at[p] \in {"locked", "reply"} /\ owner[j] = from[p] /\ from[p] \in Connectors
      BY <2>2 DEF LockInv, ReplyInv
    <3>2. ~AnswerReceived(p)
      BY <1>1, <1>2, <2>2, <3>1 DEF AnswerReceived, Stranded
    <3>3. at'[p] # "free" /\ from'[p] = from[p]
      BY <3>1, <3>2, OrdinarySteps
      DEF Enroll, Start, Revoke, StageStep, Resolve, InsertBegin, InsertCommit, StartPoll,
          PollRefused, Backoff, LeaseNone, Wake, Deadline, LeaseSelect, LeaseCommit,
          AnswerReceived, Free, Dispatch, ReportReturns, ReportArrives
    <3> QED
      BY <1>1, <3>1, <3>3 DEF PairInv
  <2>3. ASSUME NEW m \in posts, m \notin posts', m.job = j
        PROVE  reg[owner[j]] = "revoked" \/ j \in Undecodable
    <3>1. ReportArrives(m)
      BY <2>3, OrdinarySteps
      DEF Enroll, Start, Revoke, StageStep, Resolve, InsertBegin, InsertCommit, StartPoll,
          PollRefused, Backoff, LeaseNone, Wake, Deadline, LeaseSelect, LeaseCommit,
          AnswerReceived, Dispatch, ReportArrives
    <3>2. owner[j] = m.conn /\ m.conn \in Connectors /\ reg[m.conn] # "unknown"
      BY <2>3 DEF ReportInv, KnownInv
    <3>3. ~Accepted(m)
      BY <1>2, <2>3, <3>1, <3>2 DEF ReportArrives, CompletedBy
    <3> QED
      BY <2>3, <3>2, <3>3 DEF Accepted
  <2> QED
    BY <1>3, <1>4, <1>6, <2>1, <2>2, <2>3, StrandingStep
<1> QED
  BY <1>5, <1>6

(* SteadyInv is inductive. *)
LEMMA SteadyInvariance == Steady => (Spec => []SteadyInv)
<1> SUFFICES ASSUME Steady PROVE Spec => []SteadyInv
  OBVIOUS
<1>1. Init => SteadyInv
  BY InitInv DEF Init, SteadyInv, PairInv, KnownInv, OnlyRefusalsStrand, Stranded
<1>2. SteadyInv /\ [Next]_vars => SteadyInv'
  <2> SUFFICES ASSUME SteadyInv, [Next]_vars PROVE SteadyInv'
    OBVIOUS
  <2>1. Inv'
    BY StepInv DEF SteadyInv
  <2> HIDE DEF Inv
  <2> QED
    BY <2>1, PairStep, KnownStep, RefusalStep DEF SteadyInv
<1> QED
  BY <1>1, <1>2, PTL DEF Spec

(* While messages arrive and processes keep running, every leased job that  *)
(* has no one left to finish it had its report refused: its connector was   *)
(* revoked, or could not tell which job it was.                             *)
THEOREM StrandingWhenSteady == Steady => (Spec => []OnlyRefusalsStrand)
<1>1. SteadyInv => OnlyRefusalsStrand
  BY DEF SteadyInv
<1> QED
  BY <1>1, SteadyInvariance, PTL

(* Nor does a connector then have more than one poll handler at a time,     *)
(* whatever is revoked meanwhile.                                           *)
THEOREM OnePollWhenSteady == Steady => (Spec => []OnePollPerConnector)
<1>1. SteadyInv => OnePollPerConnector
  BY DEF SteadyInv, PairInv, OnePollPerConnector
<1> QED
  BY <1>1, SteadyInvariance, PTL

-----------------------------------------------------------------------------
(* What holds when nothing is disturbed: every leased job is held by        *)
(* someone, and jobs are taken in order.                                    *)

(* Then, besides, nobody is revoked and no report is refused. *)
LEMMA CalmIsSteady ==
    ASSUME Undisturbed, CalmInv
    PROVE  /\ Steady /\ SteadyInv
           /\ \A c \in Connectors : ~Revoke(c)
           /\ \A m \in posts : Accepted(m)
<1>1. Steady /\ \A c \in Connectors : ~Revoke(c)
  BY DEF Undisturbed, Steady, Revoke
<1>2. KnownInv /\ \A m \in posts : Accepted(m)
  BY DEF CalmInv, InServiceInv, KnownInv, Accepted, Undisturbed
<1>3. OnlyRefusalsStrand
  BY DEF CalmInv, LeasedIsHeld, OnlyRefusalsStrand
<1> QED
  BY <1>1, <1>2, <1>3 DEF CalmInv, SteadyInv

(* Connectors in use stay in service. *)
LEMMA InServiceStep == ASSUME Undisturbed, CalmInv, [Next]_vars PROVE InServiceInv'
<1> USE DEF CalmInv, InServiceInv, Inv, TypeOK, HeldInv, LockInv, WaitInv
<1>1. ASSUME NEW c \in Connectors, Enroll(c) \/ Start(c) PROVE InServiceInv'
  BY <1>1 DEF Enroll, Start
<1>2. ASSUME NEW j \in Jobs, StageStep(j) PROVE InServiceInv'
  BY <1>2 DEF StageStep, Resolve, InsertBegin, InsertCommit
<1>3. ASSUME NEW c \in Connectors, NEW p \in Polls, StartPoll(c, p) PROVE InServiceInv'
  BY <1>3 DEF StartPoll
<1>4. ASSUME NEW c \in Connectors, PollRefused(c) \/ Backoff(c) PROVE InServiceInv'
  BY <1>4 DEF PollRefused, Backoff
<1>5. ASSUME NEW p \in Polls, LeaseNone(p) \/ Wake(p) \/ Deadline(p) PROVE InServiceInv'
  BY <1>5 DEF LeaseNone, Wake, Deadline
<1>6. ASSUME NEW p \in Polls, LeaseSelect(p) \/ LeaseCommit(p) PROVE InServiceInv'
  BY <1>6 DEF LeaseSelect, LeaseCommit
<1>7. ASSUME NEW p \in Polls, AnswerReceived(p) PROVE InServiceInv'
  BY <1>7 DEF AnswerReceived
<1>8. ASSUME NEW c \in Connectors, NEW ok \in BOOLEAN, Dispatch(c, ok) PROVE InServiceInv'
  BY <1>8 DEF Dispatch
<1>9. ASSUME NEW c \in Connectors, ReportReturns(c), UNCHANGED posts PROVE InServiceInv'
  BY <1>9 DEF ReportReturns
<1>10. ASSUME NEW m \in posts, ReportArrives(m) PROVE InServiceInv'
  BY <1>10 DEF ReportArrives
<1>11. CASE UNCHANGED vars
  BY <1>11
<1> HIDE DEF CalmInv, InServiceInv, Inv
<1> QED
  BY <1>1, <1>2, <1>3, <1>4, <1>5, <1>6, <1>7, <1>8, <1>9, <1>10, <1>11,
     OrdinarySteps, CalmIsSteady

(* A leased job passes from handler to connector to report to its row       *)
(* without ever being let go.                                               *)
LEMMA HeldStep == ASSUME Undisturbed, CalmInv, [Next]_vars PROVE LeasedIsHeld'
<1> SUFFICES ASSUME NEW j \in Jobs, status'[j] = "leased" PROVE ~Stranded(j)'
  BY DEF LeasedIsHeld, Stranded
<1> DEFINE Kept == /\ at' = at /\ picked' = picked /\ from' = from /\ waitOn' = waitOn
                   /\ held' = held /\ posts' = posts /\ status' = status
<1> USE DEF CalmInv, LeasedIsHeld, Stranded, Inv, TypeOK
<1>1. ASSUME Kept PROVE ~Stranded(j)'
  BY <1>1
<1>2. ASSUME NEW c \in Connectors,
             \/ Enroll(c) \/ Start(c) \/ PollRefused(c) \/ Backoff(c)
             \/ ReportReturns(c) /\ UNCHANGED posts
      PROVE  Kept
  BY <1>2 DEF Enroll, Start, PollRefused, Backoff, ReportReturns
<1>3. ASSUME NEW i \in Jobs, StageStep(i) PROVE ~Stranded(j)'
  BY <1>3 DEF StageStep, Resolve, InsertBegin, InsertCommit
<1>4. ASSUME NEW c \in Connectors, NEW p \in Polls, StartPoll(c, p) PROVE ~Stranded(j)'
  <2>1. waitOn[c] = None
    BY <1>4 DEF StartPoll, WaitInv
  <2> QED
    BY <1>4, <2>1 DEF StartPoll
<1>5. ASSUME NEW p \in Polls, LeaseNone(p) \/ Wake(p) \/ Deadline(p) \/ LeaseSelect(p)
      PROVE  ~Stranded(j)'
  BY <1>5 DEF LeaseNone, Wake, Deadline, LeaseSelect
<1>6. ASSUME NEW p \in Polls, LeaseCommit(p) PROVE ~Stranded(j)'
  <2>1. waitOn[from[p]] = p
    BY <1>6 DEF LeaseCommit, PairInv
  <2> QED
    BY <1>6, <2>1 DEF LeaseCommit
<1>7. ASSUME NEW p \in Polls, AnswerReceived(p) PROVE ~Stranded(j)'
  <2>1. held[from[p]] = None /\ from[p] \in Connectors
    BY <1>7 DEF AnswerReceived, WaitInv, HeldInv, LockInv
  <2>2. CASE picked[p] = j
    <3>1. held' = [held EXCEPT ![from[p]] = j]
      BY <1>7, <2>2 DEF AnswerReceived
    <3>2. held'[from[p]] = j
      BY <2>1, <3>1
    <3>3. \E c \in Connectors : held'[c] = j
      BY <2>1, <3>2
    <3> QED
      BY <3>3
  <2>3. CASE picked[p] # j
    <3>1. status[j] = "leased"
      BY <1>7 DEF AnswerReceived
    <3>2. CASE \E q \in Polls : at[q] = "reply" /\ picked[q] = j /\ waitOn[from[q]] = q
      <4>1. PICK q \in Polls : at[q] = "reply" /\ picked[q] = j /\ waitOn[from[q]] = q
        BY <3>2
      <4>2. q # p /\ from[q] \in Connectors /\ from[q] # from[p]
        BY <1>7, <2>3, <4>1 DEF AnswerReceived, LockInv
      <4> QED
        BY <1>7, <4>1, <4>2 DEF AnswerReceived, Free
    <3>3. CASE \E c \in Connectors : held[c] = j
      BY <1>7, <2>1, <3>3 DEF AnswerReceived
    <3>4. CASE \E m \in posts : m.job = j
      BY <1>7, <3>4 DEF AnswerReceived
    <3> QED
      BY <3>1, <3>2, <3>3, <3>4
  <2> QED
    BY <2>2, <2>3
<1>8. ASSUME NEW c \in Connectors, NEW ok \in BOOLEAN, Dispatch(c, ok) PROVE ~Stranded(j)'
  <2>1. posts' = posts \union {[conn |-> c, job |-> held[c], ok |-> ok]}
    BY <1>8 DEF Dispatch, InServiceInv
  <2>2. CASE held[c] = j
    <3>1. [conn |-> c, job |-> j, ok |-> ok] \in posts'
      BY <2>1, <2>2
    <3>2. \E m \in posts' : m.job = j
      BY <3>1
    <3> QED
      BY <3>2
  <2>3. CASE held[c] # j
    <3>1. \A d \in Connectors : held[d] = j => held'[d] = j
      BY <1>8, <2>3 DEF Dispatch
    <3>2. /\ at' = at /\ picked' = picked /\ from' = from /\ waitOn' = waitOn
          /\ status' = status /\ posts \subseteq posts'
      BY <1>8, <2>1 DEF Dispatch
    <3> QED
      BY <3>1, <3>2
  <2> QED
    BY <2>2, <2>3
<1>9. ASSUME NEW m \in posts, ReportArrives(m), Accepted(m) PROVE ~Stranded(j)'
  <2>1. owner[m.job] = m.conn /\ m.job \in Jobs
    BY DEF ReportInv
  <2>2. m.job # j
    BY <1>9, <2>1 DEF ReportArrives, CompletedBy
  <2> QED
    BY <1>9, <2>2 DEF ReportArrives
<1>10. CASE UNCHANGED vars
  BY <1>1, <1>10
<1> HIDE DEF CalmInv, LeasedIsHeld, Stranded, Inv, Kept
<1> QED
  BY <1>1, <1>2, <1>3, <1>4, <1>5, <1>6, <1>7, <1>8, <1>9, <1>10,
     OrdinarySteps, CalmIsSteady

(* The order of creation is respected: when a handler locks j, the jobs     *)
(* committed before j was stamped are no longer pending; being the only     *)
(* handler of its connector it has nobody's lock to skip.                   *)
LEMMA OrderStep == ASSUME Undisturbed, CalmInv, [Next]_vars PROVE OrderInv'
<1> USE DEF CalmInv, OrderInv, Inv, TypeOK, Locked
<1>1. ASSUME UNCHANGED <<rows, at, picked>> PROVE OrderInv'
  BY <1>1
<1>2. ASSUME NEW c \in Connectors,
             Enroll(c) \/ Start(c) \/ PollRefused(c) \/ Backoff(c) \/ ReportReturns(c)
      PROVE  UNCHANGED <<rows, at, picked>>
  BY <1>2 DEF Enroll, Start, PollRefused, Backoff, ReportReturns
<1>3. ASSUME NEW j \in Jobs, Resolve(j) PROVE OrderInv'
  BY <1>3 DEF Resolve, NewestActive, LockInv
<1>4. ASSUME NEW j \in Jobs, InsertBegin(j) PROVE OrderInv'
  BY <1>4 DEF InsertBegin, LockInv
<1>5. ASSUME NEW j \in Jobs, InsertCommit(j) PROVE OrderInv'
  BY <1>5 DEF InsertCommit, LockInv
<1>6. ASSUME NEW c \in Connectors, NEW p \in Polls, StartPoll(c, p) PROVE OrderInv'
  BY <1>6 DEF StartPoll
<1>7. ASSUME NEW p \in Polls, LeaseNone(p) \/ Wake(p) \/ Deadline(p) PROVE OrderInv'
  BY <1>7 DEF LeaseNone, Wake, Deadline
<1>8. ASSUME NEW p \in Polls, LeaseSelect(p) PROVE OrderInv'
  <2>1. PICK k \in Oldest(Leasable(from[p])) : picked' = [picked EXCEPT ![p] = k]
    BY <1>8 DEF LeaseSelect
  <2>2. ASSUME NEW i \in seen[k], owner[i] = owner[k] PROVE status[i] # "pending"
    <3>1. k \in Leasable(from[p]) /\ owner[k] = from[p] /\ i \in Jobs /\ i \in older[k]
      BY <2>1 DEF Oldest, Leasable
    <3>2. ~Locked(i)
      <4>1. ASSUME NEW q \in Polls, at[q] = "locked", picked[q] = i PROVE FALSE
        <5>1. from[q] = from[p]
          BY <2>2, <3>1, <4>1 DEF LockInv
        <5>2. q = p
          BY <1>8, <4>1, <5>1 DEF PairInv, LeaseSelect
        <5> QED
          BY <1>8, <4>1, <5>2 DEF LeaseSelect
      <4> QED
        BY <4>1
    <3>3. i \notin Leasable(from[p])
      BY <2>1, <3>1 DEF Oldest
    <3> QED
      BY <2>2, <3>1, <3>2, <3>3 DEF Leasable
  <2>3. \A j \in Jobs : Locked(j)' => Locked(j) \/ j = k
    BY <1>8, <2>1 DEF LeaseSelect
  <2> QED
    BY <1>8, <2>2, <2>3 DEF LeaseSelect
<1>9. ASSUME NEW p \in Polls, LeaseCommit(p) PROVE OrderInv'
  <2>1. picked[p] \in Jobs /\ Locked(picked[p]) /\ status[picked[p]] = "pending"
    BY <1>9 DEF LeaseCommit, LockInv
  <2>2. \A j \in Jobs : Locked(j)' => Locked(j)
    BY <1>9 DEF LeaseCommit
  <2> QED
    BY <1>9, <2>1, <2>2 DEF LeaseCommit
<1>10. ASSUME NEW p \in Polls, AnswerReceived(p) PROVE OrderInv'
  BY <1>10 DEF AnswerReceived, Free
<1>11. ASSUME NEW c \in Connectors, NEW ok \in BOOLEAN, Dispatch(c, ok) PROVE OrderInv'
  BY <1>11 DEF Dispatch
<1>12. ASSUME NEW m \in posts, ReportArrives(m) PROVE OrderInv'
  <2>1. m.job \in Jobs /\ status[m.job] = "leased"
    BY DEF ReportInv
  <2> QED
    BY <1>12, <2>1 DEF ReportArrives, CompletedBy
<1>13. CASE UNCHANGED vars
  BY <1>1, <1>13
<1> HIDE DEF CalmInv, OrderInv, Inv
<1> QED
  BY <1>1, <1>2, <1>3, <1>4, <1>5, <1>6, <1>7, <1>8, <1>9, <1>10, <1>11, <1>12, <1>13,
     OrdinarySteps, CalmIsSteady
  DEF StageStep

(* CalmInv is inductive. *)
LEMMA CalmInvariance == Undisturbed => (Spec => []CalmInv)
<1> SUFFICES ASSUME Undisturbed PROVE Spec => []CalmInv
  OBVIOUS
<1>1. Init => CalmInv
  <2> SUFFICES ASSUME Init PROVE CalmInv
    OBVIOUS
  <2>1. PairInv /\ InServiceInv /\ OrderInv /\ LeasedIsHeld
    BY DEF Init, PairInv, InServiceInv, OrderInv, LeasedIsHeld, Stranded
  <2> QED
    BY <2>1, InitInv DEF CalmInv
<1>2. CalmInv /\ [Next]_vars => CalmInv'
  <2> SUFFICES ASSUME CalmInv, [Next]_vars PROVE CalmInv'
    OBVIOUS
  <2>1. Inv'
    BY StepInv DEF CalmInv
  <2> QED
    BY <2>1, CalmIsSteady, PairStep, InServiceStep, HeldStep, OrderStep DEF CalmInv
<1> QED
  BY <1>1, <1>2, PTL DEF Spec

(* When nothing goes wrong, a leased job always has someone to finish it. *)
THEOREM NoStrandingWhenCalm == Undisturbed => (Spec => []LeasedIsHeld)
<1>1. CalmInv => LeasedIsHeld
  BY DEF CalmInv
<1> QED
  BY <1>1, CalmInvariance, PTL

(* When nothing goes wrong, jobs of a connector run in the order in which   *)
(* they were queued, as far as their insertions did not overlap.            *)
THEOREM InOrderWhenCalm == Undisturbed => (Spec => []FirstComeFirstServed)
<1>1. CalmInv => FirstComeFirstServed
  BY DEF CalmInv, OrderInv, Inv, TypeOK, RowInv, FirstComeFirstServed
<1> QED
  BY <1>1, CalmInvariance, PTL
=============================================================================
