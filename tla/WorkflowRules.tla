---------------------------- MODULE WorkflowRules ----------------------------
(***************************************************************************)
(* The pure rules of automation: which definitions validate_graph accepts,    *)
(* which slot of a schedule is current, and when a WAIT node wakes up.  A      *)
(* behaviour takes one input, a definition node by node, and applies one rule  *)
(* to it.                                                                     *)
(***************************************************************************)
EXTENDS Integers, FiniteSets, FiniteSetsExt

CONSTANTS
    GraphNodes, NoTarget,     \* node ids; no next node
    MaxNodes,                 \* QBIT_AUTOMATION_MAX_NODES; bounds the input as well
    Hour, Day,                \* minutes of an hour and of a day, scaled down
    Horizon,                  \* bound: clock values 0..Horizon
    Week                      \* days of the week, scaled down

ASSUME WorkflowRulesAssumption ==
    /\ NoTarget \notin GraphNodes
    /\ {MaxNodes, Hour, Day, Horizon, Week} \subseteq Nat \ {0}
    /\ Day % Hour = 0 /\ Week > 2

VARIABLES question, answer
ruleVars == <<question, answer>>

----------------------------------------------------------------------------
(* ACTION stands for WAIT as well; what a type needs besides its edges (a condition, an  *)
(* action key, a duration) is taken to be there.                                       *)
NodeTypes == {"TRIGGER", "CONDITION", "ACTION", "BRANCH", "END"}
Targets == GraphNodes \cup {NoTarget}
NodesOf(types, nos, branches) ==
    [id : GraphNodes, type : types, next : Targets, no : nos, branches : branches]
(* NodeSpec: next_node_id, next_node_id_no and the targets of the branches. *)
NodeSpecs ==
    NodesOf(NodeTypes \ {"CONDITION", "BRANCH"}, {NoTarget}, {{}})
    \cup NodesOf({"CONDITION"}, Targets, {{}})
    \cup NodesOf({"BRANCH"}, {NoTarget}, SUBSET GraphNodes)

(* A WorkflowDefinition: the set of the nodes on its list, and the length of the list. *)
WorkflowDefinitions == [nodes : {ns \in SUBSET NodeSpecs : IsFiniteSet(ns)}, length : Nat]
(* The graph that the validator builds of the nodes by their ids. *)
GraphOf(nodes) == [i \in {n.id : n \in nodes} |-> CHOOSE n \in nodes : n.id = i]

(* _outgoing *)
Outgoing(g, n) ==
    ({g[n].next} \cup (IF g[n].type = "CONDITION" THEN {g[n].no} ELSE {})
                 \cup (IF g[n].type = "BRANCH" THEN g[n].branches ELSE {})) \ {NoTarget}

(* validate_graph's rules per node. *)
NodeIsSound(g, n) ==
    LET node == g[n] ids == DOMAIN g IN
    /\ node.type # "END" => node.next # NoTarget
    /\ node.next # NoTarget => node.next \in ids
    /\ node.type = "END" => node.next = NoTarget
    /\ node.type = "TRIGGER" => node.next # n
    /\ node.type = "CONDITION" => node.no \in ids
    /\ node.type = "BRANCH" => node.branches # {} /\ node.branches \subseteq ids

(* _walk: depth-first from n; FALSE when it meets a node it is still visiting. *)
Walk(g) ==
    LET W[p \in (DOMAIN g) \X SUBSET (DOMAIN g)] ==
            /\ p[1] \notin p[2]
            /\ \A m \in Outgoing(g, p[1]) : W[<<m, p[2] \cup {p[1]}>>]
    IN  [n \in DOMAIN g |-> W[<<n, {}>>]]

(* The nodes that the walk has visited. *)
Visited(g, n) ==
    LET V[k \in 0..Cardinality(DOMAIN g)] ==
            IF k = 0 THEN {n} ELSE V[k - 1] \cup UNION {Outgoing(g, m) : m \in V[k - 1]}
    IN  V[Cardinality(DOMAIN g)]

(* _all_paths_reach_end: no path uses up the node budget before an END. *)
PathsEnd(g, n) ==
    LET Frontier[k \in 0..(Cardinality(DOMAIN g) + 1)] ==
            IF k = 0 THEN {n}
            ELSE UNION {Outgoing(g, m) : m \in {m \in Frontier[k - 1] : g[m].type # "END"}}
    IN  Frontier[Cardinality(DOMAIN g) + 1] = {}

Only(s) == CHOOSE x \in s : TRUE

(* Mutant: the graph is not walked for cycles. *)
ValidateGraphUnwalked(d) ==
    LET g == GraphOf(d.nodes)
        triggers == {n \in DOMAIN g : g[n].type = "TRIGGER"} IN
    /\ Cardinality(triggers) = 1
    /\ Cardinality(DOMAIN g) = d.length
    /\ \A n \in DOMAIN g : NodeIsSound(g, n)
    /\ Visited(g, Only(triggers)) = DOMAIN g

(* validate_graph, which passes when no check raises: the length of the list, one TRIGGER,  *)
(* an END, no id twice, the rules of each node, no cycle, no node out of reach, an END at   *)
(* the end of every path.                                                                *)
ValidateGraph(d) ==
    LET g == GraphOf(d.nodes)
        triggers == {n \in DOMAIN g : g[n].type = "TRIGGER"} IN
    /\ d.length <= MaxNodes
    /\ Cardinality(triggers) = 1
    /\ \E n \in DOMAIN g : g[n].type = "END"
    /\ Cardinality(DOMAIN g) = d.length
    /\ \A n \in DOMAIN g : NodeIsSound(g, n)
    /\ Walk(g)[Only(triggers)]
    /\ Visited(g, Only(triggers)) = DOMAIN g
    /\ PathsEnd(g, Only(triggers))

----------------------------------------------------------------------------
Clock == 0..Horizon
Schedules == [type : {"once"}, at : Clock] \cup [type : {"hourly"}]
             \cup [type : {"interval"}, minutes : 1..Hour] \cup [type : {"daily"}, time : 0..(Day - 1)]
NoSlot == -1

(* current_slot, in UTC; a daily slot before the epoch is NoSlot. *)
CurrentSlot(c, now) ==
    CASE c.type = "once" -> IF c.at <= now THEN c.at ELSE NoSlot
      [] c.type = "hourly" -> (now \div Hour) * Hour
      [] c.type = "interval" -> (now \div c.minutes) * c.minutes
      [] c.type = "daily" -> LET today == (now \div Day) * Day + c.time IN
                             IF today <= now THEN today
                             ELSE IF today >= Day THEN today - Day ELSE NoSlot

(* What a schedule says, as a set of slots. *)
IsSlot(c, s) ==
    CASE c.type = "once" -> s = c.at
      [] c.type = "hourly" -> s % Hour = 0
      [] c.type = "interval" -> s % c.minutes = 0
      [] c.type = "daily" -> s % Day = c.time
LatestSlot(c, now) ==
    LET slots == {s \in 0..now : IsSlot(c, s)} IN IF slots = {} THEN NoSlot ELSE Max(slots)

(* _fire_scheduled: the slot that a cycle at `now` fires for a version published then. *)
Fires(c, now, published) ==
    LET s == CurrentSlot(c, now) IN IF s = NoSlot \/ s < published THEN NoSlot ELSE s

----------------------------------------------------------------------------
(* business_hours, which nothing validates: any days (Week is no day of the week) and any  *)
(* two times (Day is no time of a day, like "25:00"), an opening after the closing too.     *)
Windows == [days : SUBSET (0..Week), start : 0..Day, end : 0..Day]
(* An empty list of days is Monday to Friday. *)
OpenDays(b) == IF b.days = {} THEN 0..(Week - 3) ELSE b.days
Weekday(t) == (t \div Day) % Week
Midnight(t) == (t \div Day) * Day
InWindow(b, t) ==
    Weekday(t) \in OpenDays(b) /\ t >= Midnight(t) + b.start /\ t <= Midnight(t) + b.end

Raised == -1    \* datetime.replace fails on a time that is none

(* shift_to_business_hours: the time asked for, then the opening of each of the next Week   *)
(* days, is looked at; a time inside the window returns wake_at, not that time.             *)
ShiftToBusinessHours(wakeAt, b) ==
    LET Shift[k \in 0..(Week + 1)] ==
            LET local == IF k = Week + 1 THEN wakeAt
                         ELSE Midnight(wakeAt + (Week + 1 - k) * Day) + b.start
                open == Weekday(local) \in OpenDays(b)
                opening == Midnight(local) + b.start
            IN  IF k = 0 THEN wakeAt
                ELSE IF b.start = Day \/ (open /\ b.end = Day) THEN Raised
                ELSE IF InWindow(b, local) THEN wakeAt
                ELSE IF open /\ local < opening THEN opening
                ELSE Shift[k - 1]
    IN  Shift[Week + 1]

(* _wake_at: a wait of 0 still yields, a long one is cut to maxWait. *)
WakeAt(now, seconds, maxWait) ==
    now + (IF Min({seconds, maxWait}) <= 0 THEN 1 ELSE Min({seconds, maxWait}))

----------------------------------------------------------------------------
Unanswered == [kind |-> "none"]
RulesInit ==
    /\ answer = Unanswered
    /\ \/ question = [kind |-> "graph", nodes |-> {}, length |-> 0]
       \/ \E c \in Schedules, t, p \in Clock :
              question = [kind |-> "slot", schedule |-> c, now |-> t, published |-> p]
       \/ \E b \in Windows, t \in Clock, w \in 0..Hour :
              question = [kind |-> "wait", window |-> b, now |-> t, seconds |-> w]

(* Input: a definition gets one more node, one that is on its list already or not. *)
AddNode(n) ==
    /\ question.kind = "graph" /\ question.length <= MaxNodes
    /\ Cardinality(question.nodes \cup {n}) <= MaxNodes
    /\ question' = [question EXCEPT !.nodes = @ \cup {n}, !.length = @ + 1]
    /\ UNCHANGED answer
AnswerGraph ==
    /\ question.kind = "graph"
    /\ answer' = [kind |-> "graph", valid |-> ValidateGraph(question)]
AnswerSlot ==
    /\ question.kind = "slot"
    /\ answer' = [kind |-> "slot", slot |-> CurrentSlot(question.schedule, question.now),
                  fires |-> Fires(question.schedule, question.now, question.published)]
AnswerWait ==
    /\ question.kind = "wait"
    /\ LET wake == WakeAt(question.now, question.seconds, Hour) IN
       answer' = [kind |-> "wait", asked |-> wake,
                  at |-> ShiftToBusinessHours(wake, question.window)]

RulesNext ==
    /\ answer = Unanswered
    /\ \/ \E n \in NodeSpecs : AddNode(n)
       \/ UNCHANGED question /\ (AnswerGraph \/ AnswerSlot \/ AnswerWait)
RulesSpec == RulesInit /\ [][RulesNext]_ruleVars

----------------------------------------------------------------------------
(* One step of run_execution along any outcome of a node. *)
Reach(g, k) ==
    LET R[j \in 0..k] == IF j = 0 THEN {n \in DOMAIN g : g[n].type = "TRIGGER"}
                         ELSE UNION {Outgoing(g, n) : n \in R[j - 1]}
    IN  R[k]

(* A definition that validate_graph lets through can be run: an id names one node of  *)
(* its list (get_node takes the first, the validator the last), and whatever its      *)
(* conditions and branches answer, the engine is at a node of the graph until it is    *)
(* at an END, after fewer steps than there are nodes; every node can be reached.      *)
AcceptedGraphRuns ==
    answer.kind = "graph" /\ answer.valid =>
        LET g == GraphOf(question.nodes) size == Cardinality(DOMAIN g) IN
        /\ question.length = Cardinality(question.nodes)
        /\ \A m, n \in question.nodes : m.id = n.id => m = n
        /\ \A k \in 0..size : \A n \in Reach(g, k) :
               n \in DOMAIN g /\ (g[n].type # "END" => Outgoing(g, n) # {})
        /\ Reach(g, size) = {}
        /\ UNION {Reach(g, k) : k \in 0..size} = DOMAIN g

(* current_slot is the latest slot of the schedule that is not in the future, and a   *)
(* cycle never fires a slot from before the publication.                          *)
SlotIsLatest ==
    answer.kind = "slot" =>
        /\ answer.slot = LatestSlot(question.schedule, question.now)
        /\ answer.fires # NoSlot => answer.fires \in question.published..question.now

(* A wait is never shortened, and it is put off in one case only: when it ends on a    *)
(* business day before the opening, to the opening, which is inside the window if that  *)
(* opens before it closes.  (One that ends after closing or on another day is not put   *)
(* off, and one that ends inside a window over midnight may be, although the docstring  *)
(* of shift_to_business_hours says otherwise.)  A time that is none fails the wait, the  *)
(* closing time only if some day of the week is a business day.                        *)
WaitIsNotShortened ==
    answer.kind = "wait" =>
        LET b == question.window
            opening == Midnight(answer.asked) + b.start
        IN  IF b.start = Day \/ (b.end = Day /\ OpenDays(b) \cap 0..(Week - 1) # {})
            THEN answer.at = Raised
            ELSE IF Weekday(answer.asked) \in OpenDays(b) /\ answer.asked < opening
            THEN answer.at = opening /\ (b.start <= b.end => InWindow(b, answer.at))
            ELSE answer.at = answer.asked

(* The validator, the schedule arithmetic and the business hours do what they are for. *)
RulesInv == AcceptedGraphRuns /\ SlotIsLatest /\ WaitIsNotShortened
=============================================================================
