# Isladeplata in TLA+

Isladeplata is a conversational agent for appointment businesses: messages
arrive by WhatsApp, a pipeline around a LangGraph graph decides what they mean,
and writes go by HTTP to Guacuco, the backend that owns the appointments. These
modules model the parts of it where order, concurrency and failure decide
whether the user gets what the bot says. Paths below are relative to the
repository; code is under `src/`.

## 1. Inventory

One webhook request takes this way:

    webhook -> Pipeline (dedup, identity, takeover gate, rate limit, thread)
            -> graph: resumed in the paused node, or entered at the supervisor
                 -> subgraph (schedule, reschedule, cancel, confirm, query)
                      <-> Guacuco         (validate, commit)
                      <-> checkpointer    (after every node; interrupt() pauses)
            -> dispatcher -> WhatsApp
            -> post-turn task (takeover), persistence: not awaited

and one proactive message this one:

    Guacuco -> POST outbound/messages -> dedup key -> adapter -> RetryClient -> Meta

| Part | State it keeps | Operations | Interacts with | Module |
|---|---|---|---|---|
| Webhook, `channels/whatsapp` | none | answers 200, then processes each message, one request beside another | Pipeline | Pregraph |
| Pipeline, `pregraph/` | none of its own | the turn, the global catch, the post-turn task | Redis, Guacuco, graph, channel | Pregraph |
| Redis stores, `infrastructure/redis` | dedup keys, rate counters, takeover mirror, failure counter, each with a TTL | SET NX, INCR+EXPIRE, SET, DEL | Pipeline, outbound | Pregraph, Outbound |
| Checkpointer, `ThreadResolver` | the thread's last checkpoint with its pending interrupt | read, write after each node, delete when old | Pipeline, graph | Cancel, Supervisor |
| Graph and supervisor, `graph/compile.ts`, `graph/supervisor` | channels of the thread: activeSubgraph, subgraphState, outcome, routing | classify, route, dispatch, social answer, finalize | subgraphs, tools, LLM | Supervisor |
| Atomic tools, `graph/tools` | none | one call, one answer each | Guacuco | Supervisor |
| Subgraph cancel | draft: slot, confirmation, phase, attempts, outcome | bootstrap, ask_slot, build_confirm, gate, commit, success, finalize | Guacuco, user | Cancel |
| Subgraph reschedule | the same, three slots, proposals | the same, validate, present | Guacuco, user | Reschedule |
| Subgraph schedule | five slots, proposals | entry, resolve, ask_slot, validate, present, build_confirm, gate, commit, success | Guacuco, catalog, user | Schedule |
| Subgraph confirm | one slot, no gate | bootstrap, ask_slot, commit, success | Guacuco, user | Supervisor |
| Subgraph query | SQL, rows, text | classify, fetch, synthesize; never pauses | Guacuco, LLM | Query |
| Reply parser, `graph/nodes` | none | a text to a day and an hour | ask_slot, present, gate | ParseSlot |
| Clients, `RetryClient` | none | retried HTTP calls; idempotency key on writes | Guacuco, Meta | the flows, Outbound |
| Proactive messages, `outbound/` | dedup keys | register key, send | Guacuco, channel | Outbound |
| Persistence, LLM, personality, config, observability | none the behaviour depends on | | | none |

What is hard here: turns of one thread are not serialised; a checkpoint is
written after every node and the process may die after any of them; a write
may be executed though its answer is lost; buttons and rows stay in the chat and
are tapped later; the channels of the graph keep what an earlier turn left; Redis
commands that belong together are separate; the task that calls a human runs
after the user was promised one. What should hold, per part:

* write flows: a write leaves only on the tap of its own button; it is the write
  the message described; success is said only of what happened; no flow ends in
  silence; every flow ends;
* graph: an answer is about the message of its turn; a role gets only its tools;
  a flow is active only while it waits for an answer;
* query: only validated SQL reaches Guacuco, only approved text the user;
* Pipeline and Redis: a message is answered once; the bot is silent while a human
  has the conversation, and only then; counters expire; promised humans come;
* proactive messages: copies are bounded, an id means delivery;
* parser: a day and an hour are those written.

The hazards, each at its line, are listed in `PROJECT.json`.

## 2. Modules

**`GatedCommit.tla`** is the abstract specification: what a write flow promises,
whatever its dialogue. `shown` is what the last gate message of each intentUuid
named, `asked` what Guacuco was asked under it, `row` how far Guacuco is with it,
`done` what was done since the flow began, `reported` the success told last. A
fresh intentUuid, a new flow and a turn that dies (`Show`, `Begin`, `Lose`) forget
what is no longer promised; nothing that Guacuco has in hand is forgotten. Its own
theorem, `LedgerKept`, is what every implementation inherits.

**`Cancel.tla`** is the reference for the write flows: the shortest of them, with
everything that surrounds it. `ckpt` is the thread's last checkpoint (draft,
paused node, the snapshot of upcoming appointments, and which turn wrote it);
`runs` holds each turn in flight with the node it is at and its own copy of the
draft, as LangGraph loads the state once. One action per node; a node that calls
`interrupt()` is two, up to the pause and after the resumption (`...Resumed`), and
`cancel_commit` is two, the request and its answer, since other turns and Guacuco
run in between. `Goto` is the reducer, the checkpoint and the edge; the router of
each edge is in the action of its source. `Arrive`, `Resume`, `EnterFresh`,
`EnterBlind` are the pipeline's choice between `Command(resume)` and a fresh
entry. `idem`, `booked` are Guacuco. `asked`, `cards`, `told` are what was sent to
Guacuco, what the gate messages named, and what the user was told: history, which
no guard reads, but `Inbox` offers the buttons shown. `Crash` is the process dying,
or an exception, at any node.

**`Reschedule.tla`** has three slots filled and rewritten in any order, validation,
proposals, a slot lost before the commit. It runs one turn at a time without
crashes, so the thread's draft and the turn's are one variable and every node is
one action (two with an interrupt). What a text says is a choice of day and hour,
either possibly unreadable. A row is its index, as in the code (`slot_pick:N`), and
the slot its title shows. `Keys` is a small pool of intentUuids: a fresh one takes
a value no request holds any more, and forgets what the old one meant, so runs of
any length stay finite. `Ledger == INSTANCE GatedCommit WITH ...` maps its cards,
requests, idempotency rows and success messages to the ledger, and Schedule does the
same.

**`Schedule.tla`** is the longest dialogue: services, professional, day, hour and, for
staff, a client, filled by extraction from the first message, by matching with the
catalog, by inference (the one professional of the one service), by questions; the
slot checked, others proposed, the gate, the commit with its one retry. Both roles
and every catalog are initial states. A turn may die at any node (`Dies`); the
draft stays and the next message enters from the start. `dangling` holds the
intentUuids that were in the draft of such a turn: the next one may choose another
slot and `build_confirm` keeps the cached message, as in Cancel; the properties
that this breaks are claimed for the rest. `withdrawn` says that the user, shown
the gate of an intentUuid that a turn had already sent and died with, answered
anything but its "Confirmar".

**`Supervisor.tla`** is the compiled graph: `supervisor_entry` with its shortcuts
(media, template buttons, menu rows, confirmations tapped late), the
classifier and the frustration judge (a choice), the router, the tools with their
roles, dispatch, finalize, and what the channels keep from one turn to the next.
The confirm subgraph is in it node by node; the other flows (`OtherFlows`) are
known only by how they end: they answer, pause, or finish. It EXTENDS **`Query.tla`**, the
query subgraph: the three roads by which SQL reaches Guacuco (the LLM's, its
repair after an error, its retry after the judge), the validator by role and
schema, the judges of rows and of text. A SQL text is a record of what the
validator sees in it.

**`Pregraph.tla`** is the pipeline around the graph for one thread. A turn is the
place it is at, the message, what identity said of the takeover (`saw`), and the
outcome; after the dispatch the same record is the post-turn task and the turn
counts as over. Each Redis command is a step. The graph is an arbitrary outcome
or an exception.

**`Outbound.tla`** is a proactive message from the handler to Meta: one action per
step that other requests, Redis or Meta may come between. `copies` counts what Meta
delivered of a message while its key is registered.

**`ParseSlot.tla`** is `parseUserSlotReply` as operators on texts, a text being the
sequence of its words and a word what the regular expressions see in it (`hm` an
hour with minutes, `slash` a date with slashes, a number with or without a
suffix). Days are counted from 1970 and instants in hours, so that noon UTC, the
zone and the weekday are arithmetic. A day named by number and month stays so; year 0
stands for the current one. The state machine writes one word after another.

`MC...` modules give the constants their values and the symmetry sets; `...Proofs`
modules hold the theorems. Definitions marked `Mutant` are plausible errors;
nothing in the models refers to them.

Notes on the abstraction, where it is not obvious:

* In Supervisor the reset of `outcome` at the start of a turn is folded into `told`
  (cleared at `Arrive`); routing fields that nothing reads before they are set again
  are forgotten at the end of a turn, `buttonShortcut` is not.
* Greeting, farewell and out of scope are one social answer; price, list and
  upcoming-appointment lookups one; the platform tools one: each group has the same guards.
* Two confirm requests in flight for one appointment count as one.
* Media may carry a caption. `meant` holds what the turn's message points at to be
  confirmed: the appointment of the reminder tapped, found or gone, the button's title
  when it is not found, or the row picked; a text points at nothing.
* A 409 (the key is being executed) is thrown by the HTTP client like any 4xx, so a
  commit that meets it ends as an error, like one without an answer.
* `finalize` pairs a flow's last reply with the text that opened it (`finalize.ts:68`).
* The schedule gate never names the client (`renderSummary`), so cards do not either.
* SQL written after a judge refused the rows is not judged again; rows a dead turn
  left in the query draft are never turned into text.

## 3. What the runs show

| Run | Question | Result |
|---|---|---|
| CancelFaults | one turn at a time: what was asked is what was shown, success is true, turn and flow end, until a crash or a blind entry comes; who can commit, does an intentUuid name one appointment, can there be silence, after it too | holds |
| CancelTwoTurnsCard | two turns in flight: is what is asked what was shown | violated |
| RescheduleFlow | the reschedule dialogue: vouched slot, one retry, tap, the ledger of GatedCommit (card, single execution, true success), the one cause of silence | holds |
| RescheduleLoop | does every flow end | violated |
| ScheduleFlow | the schedule dialogue, both roles, every catalog, turns that die: card, vouched slot, tap, one retry, one booking (unless withdrawn once sent), no silence, the ledger of GatedCommit, turns that end | holds |
| SupervisorTurns | turns of one thread through the whole graph, queries and confirmations included: see the module's properties | holds |
| SupervisorTap | is a reminder tapped ever confirmed for another appointment | violated |
| PregraphTurns | two turns and their tasks with faults: answers, silence, mutes, counters, threshold, promises | holds |
| PregraphErrors | do consecutive errors call a human | violated |
| PregraphRace | is every turn that was told of a human silent | violated |
| OutboundLost | is what is answered as a duplicate sent | violated |
| ParseNoHour | is no hour read where none is mentioned | violated |

The violated ones are disagreements between the code and what its comments, tests or
`docs/` say; `PROJECT.json` quotes both under `findings`. In short:

* *CancelTwoTurnsCard*: a flow re-entered after its first appointment is gone
  chooses another one but keeps the cached message and intentUuid. The user
  confirms a message about A; Guacuco is asked to cancel B under A's intentUuid. A crash after the request leads to
  the same state, and then B may also be reported as cancelled because Guacuco
  replays A's answer: without `faults = 0`, `SuccessIsTrue` fails in CancelFaults.
* *RescheduleLoop*: No at the gate shows the same gate again, uncounted.
* *SupervisorTap*: the reminder tapped is of an appointment that is gone, or not found:
  confirm, which has no gate, confirms the only other upcoming one without asking.
* *PregraphErrors*: an exception is answered by the global catch and never
  reaches the failure counter of layer B.
* *PregraphRace*: an older turn clears the shared mirror between the sync and the
  gate of a newer one.
* *OutboundLost*: the key stays when the send fails; the retry is a "duplicate" of
  nothing. (And it is looked up once per request while the POST to Meta is repeated
  up to twice: one key may mean three copies, no more, as is proved.)
* *ParseNoHour*: "15 marzo" is also 15:00. Read off the same operators: "15pm" is
  27:00, "16:30hs" loses its minutes, in "15 marzo 16:30" the hour is the year 2016,
  "hoy a la mañana" is tomorrow, and from UTC+12 on every relative day is one late.

One more needs no run of its own, because RescheduleFlow shows that it is the only one
of its kind (`SilentOnlyUnread`): under the slots proposed, "escribime otra fecha/hora"
(`presentOptions.ts:56`) answered with only an hour drops the reschedule flow without a
word, against REGLAS 10.7 (`validateAvailability.ts:63`). Schedule, which asks again, does not.

The properties, in words, are at the end of each module. Some are claimed only
under conditions, and hold only there: in Cancel `CommitMatchesCard`, `SuccessIsTrue`,
`FlowEnds` and `TurnEnds` one turn at a time and until a turn dies (CancelTwoTurnsCard shows
what a second turn does); in Schedule `CommitMatchesCard`, `GatedWasVouched`
and the ledger except for what a dead turn left (`dangling`), `BookedOnce` through turns that
die but not past a No to a confirmation already sent (`withdrawn`): the turn dies after
Guacuco booked, the user answers No, the intentUuid is dropped and a new one books a second
appointment; `AnsweredOnce` is at
most one answer plus one per failed call, for a message whose call failed is
answered with an apology and may be redelivered; `CountersExpire` and `ThresholdIsCarried` are claimed while
nothing failed, since a crash between INCR and EXPIRE does leave a counter without
a TTL; `SilentUnderTakeover` speaks of turns that ran alone up to the gate;
`FlowIsCoherent` and `NeverOneAmongSeveral` of conversations in which no turn died;
`WeekdayIsNext` of zones up to UTC+11.

### Bounds

* Cancel: two appointments. One left or two left is the distinction bootstrap makes,
  and a confusion needs two. One or two turns in flight; a confusion needs a second one.
  `MaxKeys` bounds the intentUuids drawn; a flow starts only when enough are
  left (`KeysLeft`), so that the bound never blocks a flow midway and liveness is
  not an artefact of it.
* `MAX_ATTEMPTS` (and confirm's `CONFIRM_MAX_ATTEMPTS`) is 1 or 2 instead of 5: the
  guard is reached by dialogues of the same kind, and the flow still passes the
  gate's No and comes back once.
* `MaxFaults`, `MaxEvents`: one or two crashes, failed calls, expiries, outside
  changes. Each finding needs at most two of them.
* Reschedule: two appointments, one day, two hours, one proposal, two keys: enough to
  rewrite the hour, lose the slot, be proposed the other one, tap a stale row.
  One outside change is enough for two `STAFF_NOT_AVAILABLE` in a row: a late
  request of an earlier flow takes the other slot.
* Schedule: one service, two professionals of whom one is busy, one day, two hours,
  one client, two keys, one event: inference with one and with two candidates, a
  wrong professional, a slot taken between check and commit.
* Supervisor: one other flow, two appointments, three SQL texts (one valid, one of the wrong
  schema, one that is no SELECT), three identities, the judge on, one event. The
  channels are what couples turns, and two turns reach every stale value.
* Pregraph: two turns, two messages, `RATE_MAX` 1 and `FAILS_THRESHOLD` 2, so that
  both limits are met; PregraphRace takes three messages (one must take the
  conversation over first).
* ParseSlot: three everyday words, one zone and three instants near midnight and at
  noon, enough for a reading to go wrong; what is right is proved without bounds.
* `CHECK_DEADLOCK FALSE` everywhere: once the bounds are spent nothing need happen.

### Fairness

`CancelFaults` assumes weak fairness of each turn's next node (the Node event loop
runs what is ready), of Guacuco executing a request it holds, and, for `FlowEnds`
only, that the user keeps writing. The end of a call is part of the turn's
step: `RetryClient` gives up after its retries, which is why `net` is always a
possible answer; the mutant without a timeout breaks `TurnEnds`. `RescheduleLoop` uses
the same assumptions, so the loop it finds is no stuttering. `SupervisorTurns`
assumes weak fairness of the turn's next node, and nothing of the user or Guacuco:
LangGraph runs a turn's nodes to the end and every call has a timeout.
`PregraphTurns` assumes weak fairness of every turn's and task's next step; nothing
makes Redis TTLs, redeliveries, posts or failures happen.

## 4. What is proved

The theorems hold for every value of the constants; each module with theorems
assumes only the named assumptions of the module it is about
(`ConstantsOK`, a hypothesis of each theorem in Outbound and ParseSlot; in Supervisor also `SupervisorConstantsOK` and `ApptsAreNoTexts`).
Every property of every passing run but the four liveness ones is a theorem.

**The ledger.** `GatedCommit!LedgerKept`: what was asked was shown, what gets done is
what the card of an intentUuid shows and asks at that moment, and a success told was
done. Reschedule and Schedule implement `GatedCommit` step by step (`Refinement`), and
so inherit it (`LedgerHolds`), by instantiating the theorem.

**Turns end.** Each of the five modules of turns has a measure of what a turn may still
do (`Rank`, `Left`), which is proved bounded and lowered by every step of the turn
(`TurnsShrink`): 6 in Cancel, however many turns run at once and die; 7 in
Reschedule, 8 in Schedule and 18 in Supervisor, retries included, from any draft that
earlier turns left; 13 in Pregraph, the post-turn task included. The graphs have
cycles (`ask_slot` comes back after every node, the retry goes back to validation,
the judges send texts back), LangGraph gives up a turn after 25 steps, and no code
raises that: the cycles are never gone round within a turn. Of a whole cancel dialogue the
same holds (`FlowsShrink`): one turn at a time and while none dies, a measure of the
flow falls with each step and starts no higher than 10 * MAX_ATTEMPTS + 13, so no
sequence of replies keeps it going. In Reschedule no such measure exists:
RescheduleLoop is the counterexample. These are the safety halves of `TurnEnds` and
`FlowEnds`: no turn goes on for ever; that it does go on is the fairness.

**`CancelProofs.tla`**: every safety property of Cancel. `TypeCorrect`; `CommitNeedsTap`
(a request is under way only in the turn whose message is the tap on the confirm
button of that very intentUuid); `OneApptPerKey` (every copy of a confirmation, in
the checkpoint, the turns and on the screen, names one appointment, and no
intentUuid is drawn twice); `ButtonStaysBound` (what a button stands for never
changes). The inductive invariant of these is `IInv == TypeOK /\ ButtonInv`. `CommitOnlyOnTap` is not inductive: the
tap in hand must be known to be of a button shown (`TapsWereShown`), which stays
true while cards do not change, which needs that a fresh intentUuid has no card
yet and that re-showing a gate shows the same appointment (`KeyNamesOneAppt`); and
a confirmation is built only for a resolved slot, which needs that ask_slot never
runs with the phase `awaiting_confirmation` left over (`AskingCollects`).
`AlwaysAnswered` needs that whoever reaches finalize has an outcome
(`AnswerReady`). `AskedIsShown` and `SuccessToldIsTrue` assume one turn at a time
(`OneTurn`, the proviso CancelTwoTurnsCard shows to be needed); their invariant
`SerialInv` says, until a turn dies, that the slot of a draft is the one its
confirmation names (`DraftInv`), that a request in flight or in a row of Guacuco was
asked and its card names it (`AskedInv`), and that an `ok` row, the success node and
what was told speak of an appointment no longer booked (`TruthInv`).

**`RescheduleProofs.tla`**: every property of RescheduleFlow, in layers. `Types`: types, and that a request is only made of
slots with a value. `FlowInv`: which keys, phases and rows go with which node, a
pause never with a turn under way; from it `CommitNeedsTap`. `AskedInv`: the draft
at the gate still is what its card names, because whatever rewrites a slot also
drops the key; from it `AskedIsShown`. `DoneInv`: what a row of Guacuco says was
done is what was asked, so success is true through replays and late answers
(`SuccessToldIsTrue`); and with both, each step of the flow is a step of
`GatedCommit` or a stutter (`Refinement`). `RetryInv` counts refusals against the
`retried` flag of the draft; `VouchedInv` follows a slot from the check or the
proposal through rows and rewrites to the gate. `SilenceExplained` says which
silence there is: only a text without a day, where the draft waits for the day alone,
ends a turn without an answer; its invariant says
which nodes can be reached with which slots missing.

**`ScheduleProofs.tla`**: every safety property of Schedule, for any catalog and agenda,
in four layers. `Types`: besides types, that a slot which is not empty has a value and
that a request is only made of a complete draft. `FlowInv`: which phase goes with which
node and pause, that validation runs only on complete drafts, that finalize has an
outcome, and that refusals are counted by `retried`; from it `CommitNeedsTap`,
`OneRetry` and `AlwaysAnswered`. `CardInv`: a live intentUuid exists only from
`build_confirm` on, its card is the summary of the draft, and the slot in the draft
was vouched for, which must also hold of the options on offer and of a draft on
its way to `build_confirm`; from it `AskedIsShown` and `ShownWasFree`. `OnceInv`: an
intentUuid given up was refused, the one in the draft was sent once at most, and
the flow's booking is what was asked under it; from it
`SuccessToldIsTrue` and the ledger. `OneBooking` rests on `SingleInv`, which no death
weakens: until the user withdraws one, every intentUuid this flow sent but the one in the
draft was refused, so a booking is under that one and Guacuco repeats none. A turn that dies leaves its intentUuid `dangling`:
`CardInv` and `OnceInv` speak of the other ones, key by key, which is why the
refinement holds through turns that die: their intentUuids leave the ledger
(`Lose`), those of the same flow that no dead turn held stay in it.

**`PregraphProofs.tla`**: every safety property of PregraphTurns. A turn is in one of a
few shapes (`Becomes`, `GoesOn`, `Ends`), and most actions only move it between
them. `MuteNeedsCall` needs that a task which is about to mute has made its call
(`CalledInv`). `AnsweredOnce` is strengthened to a count (`AnsweredInv`): answers
given, plus those in the global catch, plus turns that passed the dedup and are
still open, never exceed one plus the failures, since a failed dedup apologises
for a message it never registered. `SilentUnderTakeover` needs that what identity
said is still in the mirror while a turn is alone (`StillAlone`, `MirrorHolds`).
`CountersExpire` is inductive as it stands, and so is `PromiseIsCarried`, the safety
half of `PromiseKept`: while nothing failed, a promised human is the concern of a
task that has not called yet. `ThresholdIsCarried` is not: at `bump_expire` the
counter may stand at the threshold only if that is one (`ThresholdInv`).

**`SupervisorProofs.tla`**: every safety property of SupervisorTurns, over the whole
graph with query and confirm. `Types` fixes for each node what may be in the
channels; `Flow` says when a flow is active and a pause is pending; `ToolsAllowed`
follows the intent from each of its three sources to the tool; `Truth` relates
what is told to Guacuco's book; `Asking` follows the appointment from
the message to the request, `OldTap` the tap to its answer; `Spent` counts the roads of the SQL, so that the
attempts of one turn are bounded; `Rows` keeps text that was not approved from the outcome.

**`OutboundProofs.tla`**: types, the bound of copies and the acknowledgement.
`CopiesAreBounded` needs that one request at most is sending a keyed message and
that it alone delivered the copies there are (`OneSender`, `Fresh`).

**`ParseSlotProofs.tla`**: what is read in texts of any length, at any instant, in every
zone from -12 to 14. Weekdays and explicit hours and hours with am or pm are read
right (`WeekdayRead`, `ClockRead`, `ExplicitRead`); relative days too, but one day late
from UTC+12 on, where noon UTC is tomorrow (`RelativeRead`); a day named by number and
month is in range (`NamedRead`); and the only impossible hours are those of an
afternoon counted twice, 25 to 35 (`HourRead`). `Read` says that the result is that of
the text. `ShiftDayExact` is the arithmetic of noon UTC, `DaysUntilExact` that of the
week, `LeastExists` that the leftmost of the words sought is one of them.

Only model-checked: liveness (`FlowEnds`, `TurnEnds` of Cancel and of Supervisor,
`PromiseKept`), since temporal properties under fairness are beyond the prover; their
safety halves are proved, as said.

## 5. Assumptions about what is outside

* LangGraph: a node's result is checkpointed before the next node runs; the last
  checkpoint written is the one loaded; a pause belongs to the checkpoint it
  interrupted; a resumed node runs again from its beginning, and the nodes
  here do nothing before `interrupt()` that a second run would change.
* Guacuco: as `docs/specs/P1-idempotency-keys.md` and the client's use of it say:
  one execution per key, stored answer replayed for ten minutes, 409 while it
  executes. Rows are forgotten only while no call is open.
* Redis: a command is atomic; dedup keys outlive the redeliveries of a message and
  the request that registered them; the mirror does not expire between the sync that
  just set it and the gate.
* Meta: a message posted is delivered or not, whatever is answered; it knows no
  idempotency key.
* The user may send anything at any time, any old button or row included.

## 6. Not modelled, and why

Texts, personas, LLM output (a choice wherever it matters), formatting, schemas,
signatures, configuration, metrics; turn persistence (nobody reads it back). In
Reschedule: crashes and concurrent turns, which Cancel and Schedule have; in both
dialogues the cap of ten rows. In Pregraph: the CRM context and recent templates,
which fail open or throw. In ParseSlot: zones that are not whole hours, a suffix
"horas", days a month does not have (the code does not check them). The age of a
thread and the cleanup job: an expired thread and one that is not differ only in
whether its pause is offered, which Cancel and Supervisor leave open. The schema cache
of the query subgraph, which may hold a partial schema for an hour
(`fetchIntent.ts:632`): what the LLM makes of a schema is a choice already.
