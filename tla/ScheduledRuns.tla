--------------------------- MODULE ScheduledRuns ----------------------------
(***************************************************************************)
(* Recurring scrapes and the webhooks of runs: the schedule service        *)
(* (services/scraping/scheduling.py), the worker's schedule tick           *)
(* (_schedules_loop and _fire_schedule of worker.py), and the delivery of  *)
(* run webhooks (services/scraping/run_webhooks.py).                       *)
(*                                                                         *)
(* A tick loads rows, works on the copies and commits the columns it       *)
(* changed.  Times are kept as "due or not".                               *)
(***************************************************************************)
EXTENDS Integers, FiniteSets

CONSTANTS
    Schedules,          \* schedule rows
    ScheduleTypes,      \* a subset of {"ONCE", "INTERVAL"}; DAILY recurs as INTERVAL
    RunLimits,          \* the values of max_runs considered; 0 stands for none
    Tickers,            \* workers
    Deliveries,         \* webhook deliveries that can be queued
    MaxScheduleFailures,\* MAX_CONSECUTIVE_FAILURES
    MaxPosts,           \* max_attempts of a delivery
    MaxTicks            \* bound on the claims and on the delivery ticks

ASSUME ScheduledAssumption ==
    /\ ScheduleTypes \subseteq {"ONCE", "INTERVAL"} /\ RunLimits \subseteq Nat
    /\ {MaxScheduleFailures, MaxPosts} \subseteq Nat \ {0} /\ MaxTicks \in Nat

VARIABLES
    schedules,  \* the schedule rows
    ticker,     \* what each worker's schedule tick is doing
    jobsMade,   \* jobs created for each schedule
    dropped,    \* history: schedules whose claim was lost with its worker
    claims,     \* history: claims of each schedule
    clashed,    \* history: schedules claimed from a copy that was out of date
    reenabled,  \* history: schedules a user enabled again after failures
    hook,       \* the webhook is on or off
    hookWasOff, \* history: it was off at some time
    queue,      \* the delivery rows
    poster,     \* what each worker's delivery tick is doing
    posts,      \* history: posts of each delivery
    received,   \* history: deliveries the receiver answered with 2xx
    ticks       \* delivery ticks so far

scheduleVars == <<schedules, ticker, jobsMade, dropped, claims, clashed, reenabled>>
hookVars == <<hook, hookWasOff, queue, poster, posts, received, ticks>>
scheduledVars == <<schedules, ticker, jobsMade, dropped, claims, clashed, reenabled,
                   hook, hookWasOff, queue, poster, posts, received, ticks>>

NoSchedule == [state |-> "absent", type |-> "ONCE", limit |-> 0, due |-> FALSE,
               more |-> FALSE, runs |-> 0, fails |-> 0]

\* due: next_run_at is set and not in the future; more: next_run_at is set.
ScheduleRows == [state : {"absent", "enabled", "disabled", "deleted"}, type : ScheduleTypes \cup {"ONCE"},
                 limit : RunLimits \cup {0, 1}, due : BOOLEAN, more : BOOLEAN,
                 runs : Nat, fails : Nat]

Resting == [at |-> "rest", on |-> "none", copy |-> NoSchedule]

NoPosts == [at |-> "rest", rows |-> {}, hook |-> "on", verdict |-> << >>]

DeliveryRows == [status : {"none", "PENDING", "DELIVERED", "FAILED"},
                 attempts : 0 .. MaxPosts, due : BOOLEAN]

ScheduledTypeOK ==
    /\ schedules \in [Schedules -> ScheduleRows]
    /\ queue \in [Deliveries -> DeliveryRows]
    /\ \A s \in Schedules : schedules[s].due => schedules[s].more
    /\ \A w \in Tickers : /\ ticker[w].at \in {"rest", "claim", "fire", "mark"}
                          /\ poster[w].rows \subseteq Deliveries

ScheduledInit ==
    /\ schedules = [s \in Schedules |-> NoSchedule]
    /\ ticker = [w \in Tickers |-> Resting]
    /\ jobsMade = [s \in Schedules |-> 0]
    /\ dropped = {}
    /\ claims = [s \in Schedules |-> 0]
    /\ clashed = {}
    /\ reenabled = {}
    /\ hook = "on"
    /\ hookWasOff = FALSE
    /\ queue = [d \in Deliveries |-> [status |-> "none", attempts |-> 0, due |-> TRUE]]
    /\ poster = [w \in Tickers |-> NoPosts]
    /\ posts = [d \in Deliveries |-> 0]
    /\ received = {}
    /\ ticks = 0

-----------------------------------------------------------------------------
(* The schedule service.                                                   *)

\* A ONCE schedule runs once unless a limit is given.
CreateSchedule(s, type, limit) ==
    /\ schedules[s].state = "absent"
    /\ schedules' = [schedules EXCEPT ![s] =
            [NoSchedule EXCEPT !.state = "enabled", !.type = type, !.more = TRUE,
                               !.limit = IF type = "ONCE" /\ limit = 0 THEN 1 ELSE limit]]
    /\ UNCHANGED <<ticker, jobsMade, dropped, claims, clashed, reenabled>> /\ UNCHANGED hookVars

\* Time passes next_run_at.
ComesDue(s) ==
    /\ schedules[s].state # "deleted" /\ schedules[s].more /\ ~schedules[s].due
    /\ schedules' = [schedules EXCEPT ![s].due = TRUE]
    /\ UNCHANGED <<ticker, jobsMade, dropped, claims, clashed, reenabled>> /\ UNCHANGED hookVars

\* set_enabled(True) gives a recurring schedule its next run; the failure count stays.
Enable(s) ==
    /\ schedules[s].state = "disabled"
    /\ schedules' = [schedules EXCEPT ![s].state = "enabled",
                                      ![s].more = @ \/ schedules[s].type # "ONCE"]
    /\ reenabled' = reenabled \cup {s}
    /\ UNCHANGED <<ticker, jobsMade, dropped, claims, clashed>> /\ UNCHANGED hookVars

Disable(s) ==
    /\ schedules[s].state = "enabled"
    /\ schedules' = [schedules EXCEPT ![s].state = "disabled"]
    /\ UNCHANGED <<ticker, jobsMade, dropped, claims, clashed, reenabled>> /\ UNCHANGED hookVars

DeleteSchedule(s) ==
    /\ schedules[s].state \in {"enabled", "disabled"}
    /\ schedules' = [schedules EXCEPT ![s].state = "deleted"]
    /\ UNCHANGED <<ticker, jobsMade, dropped, claims, clashed, reenabled>> /\ UNCHANGED hookVars

\* run_schedule_now pulls next_run_at to now.
RunNow(s) ==
    /\ schedules[s].state = "enabled"
    /\ schedules' = [schedules EXCEPT ![s].due = TRUE, ![s].more = TRUE]
    /\ UNCHANGED <<ticker, jobsMade, dropped, claims, clashed, reenabled>> /\ UNCHANGED hookVars

-----------------------------------------------------------------------------
(* The schedule tick.                                                      *)

Exhausted(row) == row.limit # 0 /\ row.runs >= row.limit

DueToClaim(row) == row.state = "enabled" /\ row.due /\ ~Exhausted(row)

\* due_schedules, then claim_due loads the row and tests it ...
ClaimLoad(w, s) ==
    /\ ticker[w] = Resting
    /\ DueToClaim(schedules[s])
    /\ claims[s] < MaxTicks
    /\ ticker' = [ticker EXCEPT ![w] = [at |-> "claim", on |-> s, copy |-> schedules[s]]]
    /\ UNCHANGED <<schedules, jobsMade, dropped, claims, clashed, reenabled>> /\ UNCHANGED hookVars

\* ... and writes the next run, the count and, for ONCE, disabled: a plain UPDATE by
\* primary key, not one guarded by what was read.
ClaimAdvance(w) ==
    LET s == ticker[w].on
        copy == ticker[w].copy
        once == copy.type = "ONCE"
    IN  /\ ticker[w].at = "claim"
        /\ schedules[s].state # "deleted"
        /\ schedules' = [schedules EXCEPT ![s].due = FALSE,
                                          ![s].more = ~once,
                                          ![s].runs = copy.runs + 1,
                                          ![s].state = IF once THEN "disabled" ELSE @]
        /\ claims' = [claims EXCEPT ![s] = @ + 1]
        /\ clashed' = IF schedules[s].runs = copy.runs THEN clashed ELSE clashed \cup {s}
        /\ ticker' = [ticker EXCEPT ![w].at = "fire", ![w].copy = NoSchedule]
        /\ UNCHANGED <<jobsMade, dropped, reenabled>> /\ UNCHANGED hookVars

\* The row is gone: the UPDATE matches nothing and the tick ends with the error.
RowLost(w) ==
    /\ ticker[w].at \in {"claim", "mark"}
    /\ schedules[ticker[w].on].state = "deleted"
    /\ ticker' = [ticker EXCEPT ![w] = Resting]
    /\ UNCHANGED <<schedules, jobsMade, dropped, claims, clashed, reenabled>>
    /\ UNCHANGED hookVars

\* Whether the actor is missing, the input invalid or neither, the attempt fails:
\* create_job takes its arguments by keyword only, _fire_schedule passes them by
\* position, and the TypeError is recorded as a failed run.  mark_outcome(ok=False)
\* loads the row in a session of its own ...
FireSchedule(w) ==
    LET row == schedules[ticker[w].on]
    IN  /\ ticker[w].at = "fire"
        /\ ticker' = [ticker EXCEPT ![w] = IF row.state = "deleted" THEN Resting
                                           ELSE [@ EXCEPT !.at = "mark", !.copy = row]]
        /\ UNCHANGED <<schedules, jobsMade, dropped, claims, clashed, reenabled>>
        /\ UNCHANGED hookVars

\* ... and commits one failure more than it read.  Switching off what it read as off
\* writes nothing.
MarkOutcome(w) ==
    LET s == ticker[w].on
        copy == ticker[w].copy
        n == copy.fails + 1
        off == n >= MaxScheduleFailures /\ copy.state = "enabled"
    IN  /\ ticker[w].at = "mark"
        /\ schedules[s].state # "deleted"
        /\ schedules' = [schedules EXCEPT ![s].fails = n,
                                          ![s].state = IF off THEN "disabled" ELSE @]
        /\ reenabled' = IF off THEN reenabled \ {s} ELSE reenabled
        /\ ticker' = [ticker EXCEPT ![w] = Resting]
        /\ UNCHANGED <<jobsMade, dropped, claims, clashed>> /\ UNCHANGED hookVars

TickerDies(w) ==
    /\ ticker[w] # Resting
    /\ ticker' = [ticker EXCEPT ![w] = Resting]
    /\ dropped' = dropped \cup {ticker[w].on}
    /\ UNCHANGED <<schedules, jobsMade, claims, clashed, reenabled>> /\ UNCHANGED hookVars

-----------------------------------------------------------------------------
(* Run webhooks.                                                           *)

\* emit, in the transaction of the run's own change, while the webhook is on.
EmitRunEvent(d) ==
    /\ queue[d].status = "none"
    /\ hook = "on"
    /\ queue' = [queue EXCEPT ![d].status = "PENDING"]
    /\ UNCHANGED <<hook, hookWasOff, poster, posts, received, ticks>>
    /\ UNCHANGED scheduleVars

ToggleHook ==
    /\ hook' = IF hook = "on" THEN "off" ELSE "on"
    /\ hookWasOff' = TRUE
    /\ ~hookWasOff
    /\ UNCHANGED <<queue, poster, posts, received, ticks>> /\ UNCHANGED scheduleVars

RetryComesDue(d) ==
    /\ queue[d].status = "PENDING" /\ ~queue[d].due
    /\ queue' = [queue EXCEPT ![d].due = TRUE]
    /\ UNCHANGED <<hook, hookWasOff, poster, posts, received, ticks>>
    /\ UNCHANGED scheduleVars

\* deliver_pending_webhooks: one session for the batch.
DeliverLoad(w) ==
    LET due == {d \in Deliveries : queue[d].status = "PENDING" /\ queue[d].due}
    IN  /\ poster[w].at = "rest"
        /\ ticks < MaxTicks
        /\ due # {}
        /\ ticks' = ticks + 1
        /\ poster' = [poster EXCEPT ![w] =
                [at |-> "post", rows |-> due, hook |-> hook,
                 verdict |-> [d \in due |-> queue[d]]]]
        /\ UNCHANGED <<hook, hookWasOff, queue, posts, received>>
        /\ UNCHANGED scheduleVars

\* The row gives up one attempt too early.
AfterPostEarly(row, ok) ==
    LET n == row.attempts + 1
    IN  CASE ok -> [row EXCEPT !.status = "DELIVERED", !.attempts = n]
          [] ~ok /\ n + 1 >= MaxPosts -> [row EXCEPT !.status = "FAILED", !.attempts = n]
          [] OTHER -> [row EXCEPT !.attempts = n, !.due = FALSE]

AfterPost(row, ok) ==
    LET n == row.attempts + 1
    IN  CASE ok -> [row EXCEPT !.status = "DELIVERED", !.attempts = n]
          [] ~ok /\ n >= MaxPosts -> [row EXCEPT !.status = "FAILED", !.attempts = n]
          [] OTHER -> [row EXCEPT !.attempts = n, !.due = FALSE]

\* One row of the batch: posted, or given up because the webhook is off.
PostOne(w, d) ==
    /\ poster[w].at = "post"
    /\ d \in poster[w].rows
    /\ \/ /\ poster[w].hook = "on"
          /\ \E ok \in BOOLEAN :
                /\ poster' = [poster EXCEPT ![w].rows = @ \ {d},
                                            ![w].verdict[d] = AfterPost(@, ok)]
                /\ received' = IF ok THEN received \cup {d} ELSE received
          /\ posts' = [posts EXCEPT ![d] = @ + 1]
       \/ /\ poster[w].hook = "off"
          /\ poster' = [poster EXCEPT ![w].rows = @ \ {d},
                                      ![w].verdict[d].status = "FAILED"]
          /\ UNCHANGED <<posts, received>>
    /\ UNCHANGED <<hook, hookWasOff, queue, ticks>> /\ UNCHANGED scheduleVars

\* The status column is written only where the tick changed it.
DeliverCommit(w) ==
    LET v == poster[w].verdict
    IN  /\ poster[w].at = "post"
        /\ poster[w].rows = {}
        /\ queue' = [d \in Deliveries |->
                IF d \notin DOMAIN v THEN queue[d]
                ELSE IF v[d].status = "PENDING" THEN [v[d] EXCEPT !.status = queue[d].status]
                ELSE v[d]]
        /\ poster' = [poster EXCEPT ![w] = NoPosts]
        /\ UNCHANGED <<hook, hookWasOff, posts, received, ticks>>
        /\ UNCHANGED scheduleVars

\* The worker dies in the middle of a batch: everything it posted is posted again.
PosterDies(w) ==
    /\ poster[w].at = "post"
    /\ poster' = [poster EXCEPT ![w] = NoPosts]
    /\ UNCHANGED <<hook, hookWasOff, queue, posts, received, ticks>>
    /\ UNCHANGED scheduleVars

-----------------------------------------------------------------------------
ScheduleTick(w) ==
    \/ \E s \in Schedules : ClaimLoad(w, s)
    \/ ClaimAdvance(w)
    \/ FireSchedule(w)
    \/ MarkOutcome(w)
    \/ RowLost(w)

ScheduleStep ==
    \/ \E s \in Schedules, type \in ScheduleTypes, limit \in RunLimits :
            CreateSchedule(s, type, limit)
    \/ \E s \in Schedules : ComesDue(s) \/ Enable(s) \/ Disable(s) \/ RunNow(s)
                               \/ DeleteSchedule(s)
    \/ \E w \in Tickers : ScheduleTick(w) \/ TickerDies(w)

WebhookStep ==
    \/ \E d \in Deliveries : EmitRunEvent(d) \/ RetryComesDue(d)
    \/ ToggleHook
    \/ \E w \in Tickers : DeliverLoad(w) \/ DeliverCommit(w) \/ PosterDies(w)
    \/ \E w \in Tickers, d \in Deliveries : PostOne(w, d)

ScheduledNext == ScheduleStep \/ WebhookStep

ScheduledSpec == ScheduledInit /\ [][ScheduledNext]_scheduledVars

\* The worker's loop keeps ticking.
ScheduledLiveSpec ==
    /\ ScheduledSpec
    /\ \A w \in Tickers : WF_scheduledVars(ScheduleTick(w))

-----------------------------------------------------------------------------
(* Properties.                                                             *)

\* A schedule is claimed no more often than its max_runs allows, whatever users do
\* with it in between, unless two workers claimed it from the same copy.
ClaimsWithinLimit ==
    \A s \in Schedules : s \notin clashed /\ schedules[s].limit # 0 =>
        claims[s] <= schedules[s].limit

\* "after MAX_CONSECUTIVE_FAILURES consecutive failures the schedule auto-disables":
\* no schedule that failed so often is enabled, unless a user enabled it again since.
FailingIsDisabled ==
    \A s \in Schedules :
        schedules[s].state = "enabled" /\ schedules[s].fails >= MaxScheduleFailures
            => s \in reenabled

\* A delivery is DELIVERED only if the receiver accepted it, and FAILED only after
\* max_attempts posts or with the webhook switched off, whatever ticks overlap and
\* wherever a worker dies.
WebhookVerdictTrue ==
    \A d \in Deliveries :
        /\ queue[d].status = "DELIVERED" => d \in received
        /\ queue[d].status = "FAILED" => posts[d] >= MaxPosts \/ hookWasOff

\* Limits, automatic disabling and webhook verdicts hold under overlapping ticks,
\* users' changes and dying workers.
ScheduledInv ==
    /\ ScheduledTypeOK
    /\ ClaimsWithinLimit
    /\ FailingIsDisabled
    /\ WebhookVerdictTrue

\* "a periodic loop claims due rows ..., creates the scrape job through the regular
\* JobEngine": a schedule that was claimed gets a job, unless the worker that claimed it
\* dies.  FireSchedule says why it does not hold.
ClaimGetsJob ==
    \A s \in Schedules : claims[s] > 0 ~> jobsMade[s] > 0 \/ s \in dropped

=============================================================================
