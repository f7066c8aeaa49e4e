----------------------------- MODULE Reschedule -----------------------------
(***************************************************************************)
(* The reschedule_appointment subgraph, one turn at a time: choose the     *)
(* appointment, say a day and an hour, have Guacuco validate the slot or   *)
(* propose others, confirm at the gate, commit.  Every node's result is    *)
(* checkpointed before the next one runs, so draft stands both for the     *)
(* turn's state and for what a crash leaves behind.                        *)
(*                                                                         *)
(* External: Guacuco's calendar and idempotency table, and the user.       *)
(***************************************************************************)
EXTENDS Naturals, Sequences, FiniteSets

CONSTANTS
    Appts, Dates, Times,
    Keys,           \* bound: intentUuids remembered at once; a fresh one displaces one
    MAX_ATTEMPTS,   \* RESCHEDULE_MAX_ATTEMPTS
    MaxOptions,     \* bound: slots Guacuco proposes
    MaxEvents       \* bound: slots taken, appointments cancelled by others

None == "none"

ASSUME ConstantsOK ==
    /\ MAX_ATTEMPTS \in Nat \ {0}
    /\ MaxOptions \in Nat /\ MaxEvents \in Nat
    /\ None \notin Appts \cup Dates \cup Times \cup Keys

VARIABLES
    node,       \* the node the turn is at, "idle" between turns
    resumed,    \* the node is being re-entered by Command(resume)
    msg,        \* the message of the turn
    draft,      \* subgraphState, as checkpointed
    paused,     \* the node paused in interrupt(), by the checkpoint
    upcomings,  \* the crmContext snapshot in the checkpoint
    rows,       \* the rows of slots shown so far: their index and their slot
    cards,      \* what the gate message of each intentUuid named
    asked,      \* history: the request sent under each intentUuid
    idem,       \* Guacuco: idempotency rows
    free,       \* Guacuco: the free slots
    at,         \* Guacuco: where each appointment stands
    told,       \* the outcome dispatched since the last message
    vouched,    \* history: the slots Guacuco called free in this flow
    refused,    \* history: the STAFF_NOT_AVAILABLE answers of this flow
    moved,      \* history: what Guacuco did since this flow began
    events

turn    == <<node, resumed, msg>>
thread  == <<draft, paused, upcomings>>
guacuco == <<idem, free, at>>
history == <<cards, asked, vouched, refused, moved>>
vars    == <<turn, thread, guacuco, history, rows, told, events>>

-----------------------------------------------------------------------------
(* Drafts and messages.                                                    *)

Phases == {"none", "collecting", "validating_availability", "awaiting_pick",
           "awaiting_confirmation", "committing", "done", "failed"}
Statuses == {"empty", "guessed", "resolved"}
SlotOf(S) == [status : Statuses, value : S \cup {None}]

Empty       == [status |-> "empty", value |-> None]
Parsed(v)   == [status |-> IF v = None THEN "guessed" ELSE "resolved", value |-> v]
Resolved(v) == [status |-> "resolved", value |-> v]
Has(slot)   == slot.status = "resolved" /\ slot.value # None

Places     == Dates \X Times
Elsewhere  == <<None, None>>    \* a place outside the calendar looked at
Cancelled  == <<>>
Requests   == [appt : Appts, date : Dates, time : Times]
NoRequest  == [appt |-> None, date |-> None, time |-> None]
Outcome(o, q) == [action |-> o, names |-> q]
NoOutcome     == Outcome("none", NoRequest)

Actions == {"none", "other", "asked", "proposed", "gated", "no_upcomings", "handed_off", "error",
            "success", "ignored"}

Drafts == [phase : Phases, appt : SlotOf(Appts), newDate : SlotOf(Dates), newTime : SlotOf(Times),
           proposed : Seq(Places), key : Keys \cup {None}, attempts : Nat,
           retried : BOOLEAN, terminalOutcome : [action : Actions, names : Requests \cup {NoRequest}]]

NoDraft == [phase |-> "none", appt |-> Empty, newDate |-> Empty, newTime |-> Empty,
            proposed |-> <<>>, key |-> None, attempts |-> 0, retried |-> FALSE,
            terminalOutcome |-> NoOutcome]

initialRescheduleDraftState == [NoDraft EXCEPT !.phase = "collecting"]

\* What the draft's slots ask for.
Request(d) == [appt |-> d.appt.value, date |-> d.newDate.value, time |-> d.newTime.value]

Msg(kind) == [kind |-> kind, appt |-> None, idx |-> 0, key |-> None, date |-> None, time |-> None]
Read(m, d, t) == [m EXCEPT !.date = d, !.time = t]
Tap(button, k) == [Msg(button) EXCEPT !.key = k]

NoRow == [status |-> "none", result |-> "none"]

Init ==
    /\ node = "idle" /\ resumed = FALSE /\ msg = Msg("media")
    /\ draft = NoDraft /\ paused = "none" /\ upcomings = {}
    /\ rows = {}
    /\ cards = [k \in Keys |-> NoRequest] /\ asked = [k \in Keys |-> NoRequest]
    /\ idem = [k \in Keys |-> NoRow]
    /\ free = Places /\ at = [a \in Appts |-> Elsewhere]
    /\ told = NoOutcome
    /\ vouched = {} /\ refused = 0 /\ moved = {}
    /\ events = 0

IsActiveDraft(d) == d.phase \notin {"none", "failed"} /\ d.terminalOutcome = NoOutcome

\* The node returned draft d and the edge leads to node n.
Goto(d, n) ==
    /\ draft' = d /\ paused' = "none" /\ UNCHANGED upcomings
    /\ node' = n /\ resumed' = FALSE /\ UNCHANGED msg

Interrupt(n) ==
    /\ paused' = n /\ UNCHANGED <<draft, upcomings>>
    /\ node' = "idle" /\ resumed' = FALSE /\ msg' = Msg("media")

\* Mutant: a phase nobody handles.
FailedPhase(d, o) == [d EXCEPT !.phase = "error", !.terminalOutcome = Outcome(o, NoRequest)]

Failed(d, o) == [d EXCEPT !.phase = "failed", !.terminalOutcome = Outcome(o, NoRequest)]

-----------------------------------------------------------------------------
(* The turn begins.                                                        *)

\* Texts, as parseUserSlotReply reads them; media; rows and buttons shown; the
\* button of a reminder.  The title of a row may read as a day or an hour.
Inbox ==
    {Msg("media")}
      \cup {Read(Msg("text"), d, t) : d \in Dates \cup {None}, t \in Times \cup {None}}
      \cup {[Msg("pick") EXCEPT !.appt = a] : a \in Appts}
      \cup {[Msg("template") EXCEPT !.appt = a] : a \in Appts}
      \cup {Read([Msg("slot_pick") EXCEPT !.idx = r[1]], r[2][1], r[2][2]) : r \in rows}
      \cup {Tap(b, k) : b \in {"confirm", "deny"}, k \in {k \in Keys : cards[k] # NoRequest}}

Upcoming == {a \in Appts : at[a] # Cancelled}

\* A pause is resumed with the checkpoint's snapshot; else the graph starts over
\* with this turn's.
Arrive ==
    /\ node = "idle"
    /\ msg' \in Inbox
    /\ told' = NoOutcome
    /\ IF paused # "none"
       THEN node' = paused /\ resumed' = TRUE /\ UNCHANGED upcomings
       ELSE node' = "supervisor" /\ resumed' = FALSE /\ upcomings' = Upcoming
    /\ moved' = IF draft = NoDraft THEN {} ELSE moved
    /\ UNCHANGED <<draft, paused, guacuco, cards, asked, vouched, refused, rows, events>>

\* supervisor_entry, classify_intent, subgraph_dispatch: a live draft goes on,
\* a reminder's button or an intent starts one, the rest is answered elsewhere.
Supervisor ==
    LET start == IF msg.kind = "template"
                 THEN [initialRescheduleDraftState EXCEPT !.appt = Resolved(msg.appt)]
                 ELSE initialRescheduleDraftState
    IN
    /\ node = "supervisor"
    /\ \/ /\ msg.kind # "media" /\ draft # NoDraft
          /\ Goto(draft, "reschedule_bootstrap") /\ UNCHANGED told
       \/ /\ msg.kind \in {"text", "pick", "slot_pick", "template"} /\ draft = NoDraft
          /\ Goto(start, "reschedule_bootstrap") /\ UNCHANGED told
       \/ /\ msg.kind = "media" \/ (draft = NoDraft /\ msg.kind # "template")
          /\ told' = Outcome("other", NoRequest)
          /\ node' = "idle" /\ msg' = Msg("media") /\ UNCHANGED <<resumed, thread>>
    /\ UNCHANGED <<guacuco, history, rows, events>>

-----------------------------------------------------------------------------
(* Collecting the slots.                                                   *)

AllResolved(d) == Has(d.appt) /\ Has(d.newDate) /\ Has(d.newTime)

DecideAfterCollecting(d) ==
    IF ~IsActiveDraft(d) THEN "subgraph_finalize"
    ELSE IF AllResolved(d) THEN "reschedule_validate" ELSE "reschedule_ask_slot"

Bootstrapped(d, U) ==
    LET chosen(a) == [d EXCEPT !.appt = Resolved(a), !.newDate = Empty, !.newTime = Empty,
                               !.phase = "collecting"]
    IN
    IF Has(d.appt) /\ d.appt.value \in U THEN {chosen(d.appt.value)}
    ELSE IF U = {} THEN {Failed(d, "no_upcomings")}
    ELSE IF Cardinality(U) = 1 THEN {chosen(a) : a \in U}
    ELSE {[d EXCEPT !.phase = "collecting"]}

RescheduleBootstrap ==
    /\ node = "reschedule_bootstrap"
    /\ \E d \in Bootstrapped(draft, upcomings) : Goto(d, DecideAfterCollecting(d))
    /\ UNCHANGED <<guacuco, history, rows, told, events>>

\* askSlot up to interrupt(): the anti-loop guard; nothing left to ask; the question.
RescheduleAskSlot ==
    LET d == IF draft.attempts >= MAX_ATTEMPTS THEN Failed(draft, "handed_off")
             ELSE [draft EXCEPT !.phase = "validating_availability"]
    IN
    /\ node = "reschedule_ask_slot"
    /\ ~resumed
    /\ IF draft.attempts >= MAX_ATTEMPTS \/ AllResolved(draft)
       THEN Goto(d, DecideAfterCollecting(d)) /\ UNCHANGED told
       ELSE Interrupt("reschedule_ask_slot") /\ told' = Outcome("asked", NoRequest)
    /\ UNCHANGED <<guacuco, history, rows, events>>

\* interpretReply.  A day without an hour keeps the hour already given; an hour
\* without a day loses the day.
Interpreted(d, m, U) ==
    LET counted == [d EXCEPT !.attempts = @ + 1] IN
    IF m.kind = "media" THEN counted
    ELSE IF ~Has(d.appt) /\ m.kind = "pick" /\ m.appt \in U
      THEN [counted EXCEPT !.appt = Resolved(m.appt), !.newDate = Empty, !.newTime = Empty,
                           !.phase = "collecting"]
    ELSE IF ~Has(d.appt) THEN [counted EXCEPT !.appt = Parsed(None)]
    ELSE [counted EXCEPT !.newDate = Parsed(m.date),
                         !.newTime = IF m.time = None /\ m.date # None THEN @ ELSE Parsed(m.time),
                         !.phase = "collecting"]

RescheduleAskSlotResumed ==
    LET d == Interpreted(draft, msg, upcomings) IN
    /\ node = "reschedule_ask_slot"
    /\ resumed
    /\ Goto(d, DecideAfterCollecting(d))
    /\ UNCHANGED <<guacuco, history, rows, told, events>>

-----------------------------------------------------------------------------
(* Availability.                                                           *)

\* The lists Guacuco may propose: distinct free slots.
Proposals ==
    {p \in UNION {[1..n -> free] : n \in 0..MaxOptions} :
        \A i, j \in DOMAIN p : i # j => p[i] # p[j]}

\* validate_reschedule_slot: the slot is free, or others are proposed, or the
\* call fails.  Unresolved slots go back to collecting.
RescheduleValidate ==
    LET place == <<draft.newDate.value, draft.newTime.value>> IN
    /\ node = "reschedule_validate"
    /\ IF ~AllResolved(draft)
       THEN /\ Goto([draft EXCEPT !.phase = "collecting"], "subgraph_finalize")
            /\ UNCHANGED vouched
       ELSE \/ Goto(Failed(draft, "error"), "subgraph_finalize") /\ UNCHANGED vouched
            \/ /\ place \in free
               /\ Goto([draft EXCEPT !.proposed = <<>>, !.phase = "awaiting_confirmation"],
                       "reschedule_build_confirm")
               /\ vouched' = vouched \cup {place}
            \/ /\ place \notin free
               /\ \E p \in Proposals :
                    /\ Goto([draft EXCEPT !.proposed = p, !.phase = "awaiting_pick"],
                            "reschedule_present")
                    /\ vouched' = vouched \cup {p[i] : i \in DOMAIN p}
    /\ UNCHANGED <<guacuco, cards, asked, refused, moved, rows, told, events>>

ReschedulePresent ==
    /\ node = "reschedule_present"
    /\ ~resumed
    /\ IF draft.proposed = <<>>
       THEN Goto(Failed(draft, "handed_off"), "subgraph_finalize") /\ UNCHANGED <<rows, told>>
       ELSE /\ Interrupt("reschedule_present")
            /\ rows' = rows \cup {<<i, draft.proposed[i]>> : i \in DOMAIN draft.proposed}
            /\ told' = Outcome("proposed", NoRequest)
    /\ UNCHANGED <<guacuco, history, events>>

\* processReply: an option shown is taken as it is; other text is a new day and
\* hour; nothing readable asks again.
Picked(d, m) ==
    IF m.kind = "slot_pick" /\ m.idx \in DOMAIN d.proposed
      THEN [d EXCEPT !.newDate = Resolved(d.proposed[m.idx][1]),
                     !.newTime = Resolved(d.proposed[m.idx][2]),
                     !.proposed = <<>>, !.phase = "awaiting_confirmation"]
    ELSE IF m.kind # "media"
      THEN [d EXCEPT !.newDate = Parsed(m.date),
                     !.newTime = IF m.time = None THEN @ ELSE Resolved(m.time),
                     !.proposed = <<>>, !.phase = "collecting"]
    ELSE [d EXCEPT !.phase = "awaiting_pick"]

\* Mutant: a new day goes straight to the confirmation.
RouteAfterPresentTrusting(d) ==
    CASE ~IsActiveDraft(d)          -> "subgraph_finalize"
      [] d.phase = "awaiting_pick"  -> "reschedule_present"
      [] OTHER                      -> "reschedule_build_confirm"

\* Mutant: a new day leads nowhere.
RouteAfterPresentBlind(d) ==
    IF IsActiveDraft(d) /\ d.phase = "awaiting_pick" THEN "reschedule_present"
    ELSE IF IsActiveDraft(d) /\ d.phase = "awaiting_confirmation" THEN "reschedule_build_confirm"
    ELSE "subgraph_finalize"

RouteAfterPresent(d) ==
    CASE ~IsActiveDraft(d)                  -> "subgraph_finalize"
      [] d.phase = "awaiting_confirmation"  -> "reschedule_build_confirm"
      [] d.phase = "collecting"             -> "reschedule_validate"
      [] OTHER                              -> "reschedule_present"

ReschedulePresentResumed ==
    LET d == Picked(draft, msg) IN
    /\ node = "reschedule_present"
    /\ resumed
    /\ Goto(d, RouteAfterPresent(d))
    /\ UNCHANGED <<guacuco, history, rows, told, events>>

-----------------------------------------------------------------------------
(* The gate and the commit.                                                *)

\* A confirmation in the draft is kept; else a fresh intentUuid, under which
\* nothing was asked, names the slots.
RescheduleBuildConfirm ==
    LET build == draft.key = None /\ AllResolved(draft) IN
    /\ node = "reschedule_build_confirm"
    /\ IF build
       THEN \E k \in {k \in Keys : idem[k].status # "in_progress"} :
              /\ Goto([draft EXCEPT !.key = k, !.phase = "awaiting_confirmation"], "subgraph_gate")
              /\ cards' = [cards EXCEPT ![k] = Request(draft)]
              /\ asked' = [asked EXCEPT ![k] = NoRequest]
              /\ idem' = [idem EXCEPT ![k] = NoRow]
       ELSE Goto(draft, "subgraph_gate") /\ UNCHANGED <<cards, asked, idem>>
    /\ UNCHANGED <<free, at, vouched, refused, moved, rows, told, events>>

RescheduleGate ==
    /\ node = "subgraph_gate"
    /\ ~resumed
    /\ IF draft.key = None
       THEN Goto(Failed(draft, "error"), "subgraph_finalize") /\ UNCHANGED told
       ELSE Interrupt("subgraph_gate") /\ told' = Outcome("gated", cards[draft.key])
    /\ UNCHANGED <<guacuco, history, rows, events>>

\* Mutant: the "Sí" of any gate message commits.
GateResumedAnyKey ==
    /\ node = "subgraph_gate"
    /\ resumed
    /\ IF msg.kind = "confirm"
       THEN Goto([draft EXCEPT !.phase = "committing"], "reschedule_commit")
       ELSE Goto([draft EXCEPT !.key = None, !.phase = "collecting"], "reschedule_ask_slot")
    /\ UNCHANGED <<guacuco, history, rows, told, events>>

RescheduleGateResumed ==
    /\ node = "subgraph_gate"
    /\ resumed
    /\ IF msg = Tap("confirm", draft.key)
       THEN Goto([draft EXCEPT !.phase = "committing"], "reschedule_commit")
       ELSE Goto([draft EXCEPT !.key = None, !.phase = "collecting"], "reschedule_ask_slot")
    /\ UNCHANGED <<guacuco, history, rows, told, events>>

\* The request leaves, and may not arrive.  Unresolved slots, which the code asserts away and no
\* state has here, count as an error.
RescheduleCommit ==
    /\ node = "reschedule_commit"
    /\ IF ~AllResolved(draft) \/ draft.key = None
       THEN /\ Goto(Failed(draft, "error"), "subgraph_finalize")
            /\ UNCHANGED <<asked, idem>>
       ELSE /\ asked' = [asked EXCEPT ![draft.key] = Request(draft)]
            /\ node' = "guacuco" /\ UNCHANGED <<resumed, msg, thread>>
            /\ \/ UNCHANGED idem
               \/ /\ idem[draft.key].status = "none"
                  /\ idem' = [idem EXCEPT ![draft.key].status = "in_progress"]
    /\ UNCHANGED <<free, at, cards, vouched, refused, moved, rows, told, events>>

\* What the call may bring: Guacuco's answer, or the end of the retries.
Answers(k) ==
    {"net"} \cup (IF idem[k].status = "done" THEN {idem[k].result}
                  ELSE IF idem[k].status = "in_progress" THEN {"IDEMPOTENT_REQUEST_IN_PROGRESS"}
                  ELSE {})

\* Mutant: the retry is not counted.
CommittedForgetful(d, answer) ==
    CASE answer = "ok" -> [d EXCEPT !.phase = "done"]
      [] answer = "STAFF_NOT_AVAILABLE" ->
           [d EXCEPT !.proposed = <<>>, !.key = None, !.phase = "validating_availability"]
      [] OTHER -> Failed(d, "error")

\* Mutant: the retry keeps its intentUuid.
CommittedSameKey(d, answer) ==
    IF answer = "STAFF_NOT_AVAILABLE" /\ ~d.retried
    THEN [d EXCEPT !.proposed = <<>>, !.retried = TRUE, !.phase = "validating_availability"]
    ELSE IF answer = "ok" THEN [d EXCEPT !.phase = "done"] ELSE Failed(d, "error")

\* handleError: a slot lost meanwhile is validated anew, once per draft.
Committed(d, answer) ==
    CASE answer = "ok" -> [d EXCEPT !.phase = "done"]
      [] answer = "STAFF_NOT_AVAILABLE" /\ ~d.retried ->
           [d EXCEPT !.proposed = <<>>, !.key = None, !.retried = TRUE,
                     !.phase = "validating_availability"]
      [] answer \in {"net", "IDEMPOTENT_REQUEST_IN_PROGRESS", "APPOINTMENT_NOT_FOUND",
                      "APPOINTMENT_NOT_ACTIVE", "BUSINESS_MISMATCH"} -> Failed(d, "error")
      [] OTHER -> Failed(d, "handed_off")

RouteAfterCommit(d) ==
    CASE ~IsActiveDraft(d)                    -> "subgraph_finalize"
      [] d.phase = "validating_availability"  -> "reschedule_validate"
      [] OTHER                                -> "reschedule_success"

RescheduleCommitAnswered ==
    /\ node = "guacuco"
    /\ \E answer \in Answers(draft.key) :
         LET d == Committed(draft, answer) IN
         /\ Goto(d, RouteAfterCommit(d))
         /\ refused' = IF answer = "STAFF_NOT_AVAILABLE" THEN refused + 1 ELSE refused
    /\ UNCHANGED <<guacuco, cards, asked, vouched, moved, rows, told, events>>

RescheduleSuccess ==
    /\ node = "reschedule_success"
    /\ Goto([draft EXCEPT !.terminalOutcome = Outcome("success", Request(draft))],
            "subgraph_finalize")
    /\ UNCHANGED <<guacuco, history, rows, told, events>>

Finalize ==
    /\ node = "subgraph_finalize"
    /\ told' = IF draft.terminalOutcome = NoOutcome THEN Outcome("ignored", NoRequest)
               ELSE draft.terminalOutcome
    /\ draft' = NoDraft /\ paused' = "none" /\ upcomings' = {}
    /\ node' = "idle" /\ resumed' = FALSE /\ msg' = Msg("media")
    /\ vouched' = {} /\ refused' = 0
    /\ UNCHANGED <<guacuco, cards, asked, moved, rows, events>>

-----------------------------------------------------------------------------
(* The environment.                                                        *)

\* Guacuco moves the appointment, or refuses.
GuacucoExecute(k) ==
    LET q == asked[k]
        place == <<q.date, q.time>>
    IN
    /\ idem[k].status = "in_progress"
    /\ \E res \in IF at[q.appt] = Cancelled THEN {"APPOINTMENT_NOT_FOUND", "APPOINTMENT_NOT_ACTIVE"}
                  ELSE IF place \notin free THEN {"STAFF_NOT_AVAILABLE", "BUSINESS_MISMATCH"}
                  ELSE {"ok", "OTHER"} :
         /\ idem' = [idem EXCEPT ![k] = [status |-> "done", result |-> res]]
         /\ IF res = "ok"
            THEN /\ at' = [at EXCEPT ![q.appt] = place]
                 /\ free' = (free \ {place}) \cup ({at[q.appt]} \cap Places)
                 /\ moved' = moved \cup {q}
            ELSE UNCHANGED <<at, free, moved>>
    /\ UNCHANGED <<turn, thread, cards, asked, vouched, refused, rows, told, events>>

TakenElsewhere ==
    /\ events < MaxEvents /\ events' = events + 1
    /\ \E s \in free : free' = free \ {s}
    /\ UNCHANGED <<turn, thread, idem, at, history, rows, told>>

CancelledElsewhere ==
    /\ events < MaxEvents /\ events' = events + 1
    /\ \E a \in Upcoming : at' = [at EXCEPT ![a] = Cancelled] /\ free' = free \cup ({at[a]} \cap Places)
    /\ UNCHANGED <<turn, thread, idem, history, rows, told>>

-----------------------------------------------------------------------------
TurnStep ==
    \/ Supervisor \/ RescheduleBootstrap
    \/ RescheduleAskSlot \/ RescheduleAskSlotResumed
    \/ RescheduleValidate \/ ReschedulePresent \/ ReschedulePresentResumed
    \/ RescheduleBuildConfirm \/ RescheduleGate \/ RescheduleGateResumed
    \/ RescheduleCommit \/ RescheduleCommitAnswered \/ RescheduleSuccess \/ Finalize

Next ==
    \/ Arrive \/ TurnStep
    \/ \E k \in Keys : GuacucoExecute(k)
    \/ TakenElsewhere \/ CancelledElsewhere

Spec == Init /\ [][Next]_vars

\* A turn taken up is carried on, Guacuco executes what it received, and the
\* user keeps writing.
FairSpec ==
    /\ Spec
    /\ WF_vars(TurnStep) /\ WF_vars(Arrive)
    /\ \A k \in Keys : WF_vars(GuacucoExecute(k))

-----------------------------------------------------------------------------
(* Properties.                                                             *)

\* Every variable keeps its type.
TypeOK ==
    /\ node \in {"idle", "supervisor", "reschedule_bootstrap", "reschedule_ask_slot",
                 "reschedule_validate", "reschedule_present", "reschedule_build_confirm",
                 "subgraph_gate", "reschedule_commit", "guacuco", "reschedule_success",
                 "subgraph_finalize"}
    /\ draft \in Drafts
    /\ paused \in {"none", "reschedule_ask_slot", "reschedule_present", "subgraph_gate"}
    /\ upcomings \subseteq Appts /\ rows \subseteq (1..MaxOptions) \X Places
    /\ cards \in [Keys -> Requests \cup {NoRequest}] /\ asked \in [Keys -> Requests \cup {NoRequest}]
    /\ free \subseteq Places /\ at \in [Appts -> Places \cup {Elsewhere, Cancelled}]

\* What Guacuco is asked to do under an intentUuid is what the gate message with
\* that intentUuid told the user (buildConfirm, gateConfirm, commit).
CommitMatchesCard == \A k \in Keys : asked[k] # NoRequest => asked[k] = cards[k]

\* The gate only ever offers a slot that Guacuco called free in this flow,
\* validated or proposed, whatever the user rewrote in between (validate, present).
GatedWasVouched == told.action = "gated" => <<told.names.date, told.names.time>> \in vouched

\* gateConfirm, commit: a request leaves only in the turn whose message taps "Sí" under
\* the gate message of its own intentUuid; the retry after
\* STAFF_NOT_AVAILABLE included, nothing is sent on an older "Sí" (REGLAS 10.6).
CommitOnlyOnTap ==
    [][node = "reschedule_commit" /\ node' = "guacuco" => msg = Tap("confirm", draft.key)]_vars

\* commit, RECOVERABLE_CODES: a slot lost after its validation is validated anew once;
\* lost again, through whatever replies and other slots, it ends the flow.
RetriedOnce == refused >= 2 => node = "subgraph_finalize"

\* The success message names a move Guacuco made: an unanswered,
\* refused or retried request is never reported as done (commit, successResponse).
SuccessIsTrue == told.action = "success" => told.names \in moved

\* The subgraph as a ledger of requests: it does no more than GatedCommit does.
Ledger == INSTANCE GatedCommit WITH
    shown <- cards, done <- moved,
    row <- [k \in Keys |-> idem[k].status],
    reported <- IF told.action = "success" THEN told.names ELSE NoRequest

\* Through every dialogue, retry and lost answer: what is asked of Guacuco was named by the
\* gate message of its intentUuid, is done once at most, and is told as done only if it was
\* (buildConfirm, gateConfirm, commit, successResponse).
RefinesGatedCommit == Ledger!Spec

\* A text without a day, of which the draft only needs the day.
Unread == /\ msg.kind # "media" /\ msg.date = None
          /\ Has(draft.appt) /\ Has(draft.newTime) /\ ~Has(draft.newDate)

\* REGLAS 10.7 wants no path to finalize without something to tell the user.  The code has one:
\* a text in which no day is read, in answer to the slots proposed (presentOptions, validate:
\* collecting without an outcome).  Every other path through the subgraph, whatever is missing,
\* refused, lost or retried, tells the user something.
SilentOnlyUnread == [][told'.action = "ignored" /\ told' # told => Unread]_vars

\* How many nodes a turn may still run.
Rank == CASE node = "subgraph_finalize"                          -> 1
          [] node = "reschedule_success"                         -> 2
          [] node = "reschedule_build_confirm"                   -> 3
          [] node = "reschedule_validate"                        -> 4
          [] node = "guacuco"                                    -> 5
          [] node \in {"reschedule_bootstrap", "reschedule_commit"} -> 6
          [] node = "supervisor"                                 -> 7
          [] node = "reschedule_ask_slot"                        -> IF resumed THEN 6 ELSE 5
          [] node = "reschedule_present"                         -> IF resumed THEN 5 ELSE 2
          [] node = "subgraph_gate"                              -> IF resumed THEN 7 ELSE 2
          [] OTHER                                               -> 0

\* No turn runs in circles, not even the one that shows the same gate message again after "No":
\* from any draft it is over, paused or finalized, after seven nodes (compile.ts).
TurnShrinks == [][node # "idle" => Rank' < Rank \/ UNCHANGED <<turn, thread>>]_vars

\* REGLAS 10.7, the anti-loop guard: if the user keeps answering, the flow ends.
FlowEnds == draft # NoDraft ~> draft = NoDraft

=============================================================================
