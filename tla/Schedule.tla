------------------------------ MODULE Schedule ------------------------------
(***************************************************************************)
(* The schedule_appointment subgraph, one turn at a time: extract what the *)
(* first message says, match names with the catalog, ask for what is       *)
(* missing, check the slot, propose others, confirm at the gate, commit.   *)
(* Every node's result is checkpointed before the next node runs; a turn   *)
(* that dies (the process stops, the checkpointer fails) leaves the draft  *)
(* where it was, and the next message enters the subgraph from its start.  *)
(*                                                                         *)
(* A phrase is what it would match in the catalog, and one that matches    *)
(* nothing leaves its slot as good as empty; what a text says of a slot is *)
(* chosen by the node that reads it.  External: Guacuco's agenda,  *)
(* clients and idempotency table; the user; the LLM.                       *)
(***************************************************************************)
EXTENDS Naturals, Sequences, FiniteSets

CONSTANTS
    Services, Staff, Dates, Times,
    Clients,        \* clients that a staff member may name by a telephone
    Agenda,         \* the free slots at the start
    Keys,           \* bound: intentUuids remembered at once, those of the flow and those in flight
    MAX_ATTEMPTS,
    MaxOptions,     \* bound: slots Guacuco proposes
    MaxEvents       \* bound: slots taken by others, turns that die

None == "none"
Self == "self"      \* identity.profileUuid of a client

ASSUME ConstantsOK ==
    /\ MAX_ATTEMPTS \in Nat \ {0}
    /\ MaxOptions \in Nat /\ MaxEvents \in Nat
    /\ Agenda \subseteq Staff \X Dates \X Times
    /\ None \notin Staff \cup Dates \cup Times \cup Clients \cup Keys

VARIABLES
    node,       \* the node the turn is at, "idle" between turns
    resumed,    \* the node is being re-entered by Command(resume)
    msg,        \* the message of the turn, until a node reads it
    tap,        \* history: the intentUuid whose "Confirmar" the turn's message taps
    draft,      \* subgraphState, as checkpointed
    paused,     \* the node paused in interrupt(), by the checkpoint
    profileType, catalog,   \* of the identity: the role, who performs each service
    cards,      \* what the gate message of each intentUuid named
    asked,      \* history: the request sent under each intentUuid
    idem,       \* Guacuco: idempotency rows
    free,       \* Guacuco: the free slots
    told,       \* the outcome dispatched since the last message
    vouched,    \* history: the slots Guacuco called free at the last check of this flow
    refused,    \* history: the STAFF_NOT_AVAILABLE answers of this flow
    mine,       \* history: the intentUuids this flow sent a request under
    booked,     \* history: what this flow's requests booked, in order
    withdrawn,  \* history: the user turned down, at the gate, an intentUuid already sent
    dangling,   \* history: intentUuids that were in the draft of a turn that died
    events

turn     == <<node, resumed, msg, tap>>
thread   == <<draft, paused>>
identity == <<profileType, catalog>>
guacuco  == <<idem, free>>
flow     == <<vouched, refused, mine, booked, withdrawn>>
history  == <<cards, asked, flow, dangling>>
vars     == <<turn, thread, identity, guacuco, history, told, events>>

-----------------------------------------------------------------------------
(* Drafts and messages.                                                    *)

Phases == {"none", "collecting", "resolving_entities", "validating_availability",
           "awaiting_pick", "awaiting_confirmation", "committing", "done", "failed"}
Statuses == {"empty", "guessed", "resolved"}
SlotOf(S) == [status : Statuses, value : S \cup {None}]
Lists     == [status : Statuses, value : SUBSET Services]

Unfilled(v) == [status |-> "empty", value |-> v]
Empty       == Unfilled(None)
Resolved(v) == [status |-> "resolved", value |-> v]
Parsed(v)   == IF v = None THEN Empty ELSE Resolved(v)
Guessed(v, nothing) == IF v = nothing THEN Unfilled(nothing) ELSE [status |-> "guessed", value |-> v]
Has(slot)   == slot.status = "resolved"

Offered    == {s \in Services : catalog[s] # {}}
AllStaff   == UNION {catalog[s] : s \in Services}
Places     == Staff \X Dates \X Times
Requests   == [services : SUBSET Services, staff : Staff, date : Dates, time : Times,
               client : Clients \cup {Self, None}]
NoRequest  == [services |-> {}, staff |-> None, date |-> None, time |-> None, client |-> None]
Actions   == {"none", "no_services", "handed_off", "error", "success"}
Outcome(o, q) == [action |-> o, names |-> q]
NoOutcome     == Outcome("none", NoRequest)

Drafts == [phase : Phases, services : Lists, staff : SlotOf(Staff), date : SlotOf(Dates),
           time : SlotOf(Times), client : SlotOf(Clients), proposed : Seq(Dates \X Times),
           key : Keys \cup {None}, attempts : Nat, retried : BOOLEAN,
           terminalOutcome : [action : Actions, names : Requests \cup {NoRequest}]]

NoDraft == [phase |-> "none", services |-> Unfilled({}),
            staff |-> Empty, date |-> Empty, time |-> Empty, client |-> Empty,
            proposed |-> <<>>, key |-> None, attempts |-> 0, retried |-> FALSE,
            terminalOutcome |-> NoOutcome]

initialAppointmentDraftState == [NoDraft EXCEPT !.phase = "resolving_entities"]

\* resolveClientUuid, buildScheduleParams.
Request(d) == [services |-> d.services.value, staff |-> d.staff.value, date |-> d.date.value,
               time |-> d.time.value,
               client |-> IF profileType = "client" THEN Self ELSE d.client.value]

\* renderSummary: the client is named only while its phrase is not resolved, which at
\* the gate it is.
Summary(d) == [Request(d) EXCEPT !.client = None]
SummaryReady(d) == Has(d.services) /\ Has(d.staff) /\ Has(d.date) /\ Has(d.time)

Msg(kind, v) == [kind |-> kind, value |-> v, row |-> 0]
Media        == Msg("media", None)

\* What parseUserSlotReply may read in a message: any day, any hour; nothing in the
\* title of a button.
Readings(m) == IF m.kind \in {"confirm", "cancel"} THEN {<<None, None>>}
               ELSE (Dates \cup {None}) \X (Times \cup {None})

NoRow == [status |-> "none", result |-> "none"]

Init ==
    /\ node = "idle" /\ resumed = FALSE /\ msg = Media /\ tap = None
    /\ draft = NoDraft /\ paused = "none"
    /\ profileType \in {"client", "staff"} /\ catalog \in [Services -> SUBSET Staff]
    /\ cards = [k \in Keys |-> NoRequest] /\ asked = [k \in Keys |-> NoRequest]
    /\ idem = [k \in Keys |-> NoRow]
    /\ free = Agenda
    /\ told = NoOutcome
    /\ vouched = {} /\ refused = 0 /\ mine = {} /\ booked = <<>>
    /\ withdrawn = FALSE /\ dangling = {}
    /\ events = 0

IsActiveDraft(d) == d.phase \notin {"none", "failed"} /\ d.terminalOutcome = NoOutcome

EndTurn(o) ==
    /\ told' = o
    /\ node' = "idle" /\ resumed' = FALSE /\ msg' = Media /\ tap' = None

\* The node returned draft d and the edge leads to node n.
Goto(d, n) ==
    /\ draft' = d /\ paused' = "none"
    /\ node' = n /\ resumed' = FALSE /\ msg' = Media /\ UNCHANGED tap

Interrupt(n, o) ==
    /\ paused' = n /\ UNCHANGED draft
    /\ EndTurn(o)

\* Mutant: a phase nobody handles.
FailedPhase(d, o) == [d EXCEPT !.phase = "error", !.terminalOutcome = Outcome(o, NoRequest)]

Failed(d, o) == [d EXCEPT !.phase = "failed", !.terminalOutcome = Outcome(o, NoRequest)]

-----------------------------------------------------------------------------
(* The turn begins.                                                        *)

\* Texts and media; rows of the catalog, of today's or of an older message; rows of the
\* slots proposed; buttons of gate messages, of this flow or of older ones.
Inbox ==
    {Media, Msg("text", None)}
      \cup {Msg("service", s) : s \in Services} \cup {Msg("staff", p) : p \in Staff}
      \cup {[Msg("slot_pick", None) EXCEPT !.row = i] : i \in 1..MaxOptions}
      \cup {Msg(b, k) : b \in {"confirm", "cancel"}, k \in Keys}

Arrive ==
    /\ node = "idle"
    /\ msg' \in Inbox /\ tap' = IF msg'.kind = "confirm" THEN msg'.value ELSE None
    /\ told' = NoOutcome
    /\ IF paused # "none" THEN node' = paused /\ resumed' = TRUE
       ELSE node' = "supervisor" /\ resumed' = FALSE
    /\ UNCHANGED <<thread, identity, guacuco, history, events>>

\* supervisor_entry, classify_intent, subgraph_dispatch: a live draft goes on, an
\* intent starts one, media and buttons without a draft are answered elsewhere.
Supervisor ==
    /\ node = "supervisor"
    /\ \/ /\ msg.kind # "media" /\ draft # NoDraft
          /\ Goto(draft, "schedule_entry") /\ UNCHANGED told
       \/ /\ msg.kind = "text" /\ draft = NoDraft
          /\ Goto(initialAppointmentDraftState, "schedule_entry") /\ UNCHANGED told
       \/ /\ msg.kind = "media" \/ draft = NoDraft
          /\ EndTurn(Outcome("other", NoRequest)) /\ UNCHANGED thread
    /\ UNCHANGED <<identity, guacuco, history, events>>

-----------------------------------------------------------------------------
(* entry and resolve_entities.                                             *)

\* mergeUserPhrase: a phrase does not displace what is resolved.
MergeUserPhrase(slot, v, nothing) == IF Has(slot) THEN slot ELSE Guessed(v, nothing)

\* The slots of d rewritten.
Filled(d, s, p, dt, t, c) ==
    [d EXCEPT !.services = s, !.staff = p, !.date = dt, !.time = t, !.client = c]

Named(slot, S)      == {slot} \cup {MergeUserPhrase(slot, v, None) : v \in S \cup {None}}
Dated(slot, S)      == Named(slot, {}) \cup {Resolved(v) : v \in S}
ServicesNamed(slot) == {slot} \cup {MergeUserPhrase(slot, v, {}) : v \in SUBSET Offered}
ClientNamed(slot)   == IF profileType = "staff" THEN Named(slot, Clients) ELSE {slot}

\* applyExtracted: a day or an hour that parses displaces what was there, another phrase
\* does not.
Extracted(d) ==
    {Filled(d, s, p, dt, t, c) :
        s \in ServicesNamed(d.services), p \in Named(d.staff, AllStaff),
        dt \in Dated(d.date, Dates), t \in Dated(d.time, Times), c \in ClientNamed(d.client)}

ScheduleEntry ==
    /\ node = "schedule_entry"
    /\ \E d \in IF draft.phase = "resolving_entities" THEN Extracted(draft) ELSE {draft} :
         Goto(d, "schedule_resolve")
    /\ UNCHANGED <<identity, guacuco, history, told, events>>

\* resolveServices, resolveStaff: a phrase that matches is resolved.
Matched(slot) == IF slot.status = "guessed" THEN Resolved(slot.value) ELSE slot

\* The one professional of the one service.
Inferred(services) ==
    IF Has(services) /\ Cardinality(services.value) = 1
    THEN {p \in AllStaff : \A s \in services.value : catalog[s] = {p}}
    ELSE {}

ResolveStaff(services, staff) ==
    LET named == Matched(staff) IN
    IF Has(named) \/ Inferred(services) = {} THEN {named}
    ELSE {Resolved(p) : p \in Inferred(services)}

\* resolveClientSlot: found or created by its telephone, or the call fails.
ResolveClient(client) == IF profileType = "staff" THEN {client, Matched(client)} ELSE {client}

ResolvedEntities(d) ==
    LET services == Matched(d.services) IN
    {Filled(d, services, p, d.date, d.time, c) :
        p \in ResolveStaff(services, d.staff), c \in ResolveClient(d.client)}

\* checkCompleteness.
Missing(d) ==
    CASE ~Has(d.services)                               -> "services"
      [] Has(d.services) /\ ~Has(d.staff)               -> "staff"
      [] Has(d.services) /\ Has(d.staff) /\ ~(Has(d.date) /\ Has(d.time)) -> "date_time"
      [] SummaryReady(d) /\ profileType = "staff" /\ ~Has(d.client)       -> "clientUuid"
      [] OTHER                                          -> None

\* Mutant: what is complete is asked for again.
RouteAfterResolveAsking(d) == IF IsActiveDraft(d) THEN "schedule_ask_slot" ELSE "subgraph_finalize"

RouteAfterResolve(d) ==
    CASE ~IsActiveDraft(d) -> "subgraph_finalize"
      [] IsActiveDraft(d) /\ Missing(d) = None -> "schedule_validate"
      [] OTHER -> "schedule_ask_slot"

\* A business without services to book ends the flow at once.
ScheduleResolve ==
    /\ node = "schedule_resolve"
    /\ \E d \in IF Offered = {} /\ ~Has(draft.services) THEN {Failed(draft, "no_services")}
                ELSE ResolvedEntities(draft) :
         Goto(d, RouteAfterResolve(d))
    /\ UNCHANGED <<identity, guacuco, history, told, events>>

-----------------------------------------------------------------------------
(* ask_slot.                                                               *)

ScheduleAskSlot ==
    /\ node = "schedule_ask_slot"
    /\ ~resumed
    /\ CASE Missing(draft) = None ->
              Goto([draft EXCEPT !.phase = "validating_availability"], "schedule_resolve")
                /\ UNCHANGED told
         [] Missing(draft) # None /\ draft.attempts >= MAX_ATTEMPTS ->
              Goto(Failed(draft, "handed_off"), "subgraph_finalize") /\ UNCHANGED told
         [] OTHER -> Interrupt("schedule_ask_slot", Outcome("asked", NoRequest))
    /\ UNCHANGED <<identity, guacuco, history, events>>

\* interpretServicesReply, interpretStaffReply, interpretClientUuidReply: a row of the
\* catalog is taken as it is, other text is a phrase.
RepliedServices(d, m) ==
    IF m.kind = "service" /\ m.value \in Offered
    THEN {[d EXCEPT !.services = Resolved({m.value})]}
    ELSE {[d EXCEPT !.services = Guessed(v, {})] : v \in SUBSET Offered}

RepliedStaff(d, m) ==
    IF m.kind = "staff" /\ m.value \in AllStaff
    THEN {[d EXCEPT !.staff = Resolved(m.value)]}
    ELSE {[d EXCEPT !.staff = Guessed(v, None)] : v \in AllStaff \cup {None}}

\* interpretDateTimeReply: a day without an hour keeps the hour already given; an hour
\* without a day loses the day.
RepliedDateTime(d, m) ==
    {[d EXCEPT !.date = Parsed(r[1]),
               !.time = IF r[2] = None /\ r[1] # None THEN @ ELSE Parsed(r[2])] : r \in Readings(m)}

Replied(d, m) ==
    CASE m.kind = "media"                              -> {d}
      [] m.kind # "media" /\ Missing(d) = "services"   -> RepliedServices(d, m)
      [] m.kind # "media" /\ Missing(d) = "staff"      -> RepliedStaff(d, m)
      [] m.kind # "media" /\ Missing(d) = "date_time"  -> RepliedDateTime(d, m)
      [] OTHER -> {[d EXCEPT !.client = Guessed(v, None)] : v \in Clients \cup {None}}

RouteAfterAskSlot(d) == IF IsActiveDraft(d) THEN "schedule_resolve" ELSE "subgraph_finalize"

ScheduleAskSlotResumed ==
    /\ node = "schedule_ask_slot"
    /\ resumed
    /\ \E r \in Replied(draft, msg) :
         LET d == [r EXCEPT !.phase = "resolving_entities", !.attempts = @ + 1] IN
         Goto(d, RouteAfterAskSlot(d))
    /\ UNCHANGED <<identity, guacuco, history, told, events>>

-----------------------------------------------------------------------------
(* Availability.                                                           *)

Place(d) == <<d.staff.value, d.date.value, d.time.value>>

\* Guacuco: the professional performs the services and has the slot free.
Available(services, place) == place \in free /\ \A s \in services : place[1] \in catalog[s]

\* The lists Guacuco may propose: distinct free slots of the professional.
Proposals(d) ==
    LET open == {p \in Dates \X Times : Available(d.services.value, <<d.staff.value, p[1], p[2]>>)}
    IN {p \in UNION {[1..n -> open] : n \in 0..MaxOptions} :
            \A i, j \in DOMAIN p : i # j => p[i] # p[j]}

RouteAfterValidate(d) ==
    CASE ~IsActiveDraft(d)                 -> "subgraph_finalize"
      [] d.phase = "awaiting_confirmation" -> "schedule_build_confirm"
      [] d.phase = "awaiting_pick"         -> "schedule_present"
      [] OTHER                             -> "subgraph_finalize"

Vouch(d, slots) ==
    vouched' = {<<d.services.value, d.staff.value, s[1], s[2]>> : s \in slots}

\* check_availability: free, or others are proposed, or the call fails.
ScheduleValidate ==
    LET slot == <<draft.date.value, draft.time.value>>
        Return(d) == Goto(d, RouteAfterValidate(d))
    IN
    /\ node = "schedule_validate"
    /\ IF ~SummaryReady(draft)
       THEN Return([draft EXCEPT !.phase = "collecting"]) /\ UNCHANGED vouched
       ELSE \/ Return(Failed(draft, "error")) /\ UNCHANGED vouched
            \/ /\ Available(draft.services.value, Place(draft))
               /\ Return([draft EXCEPT !.proposed = <<>>, !.phase = "awaiting_confirmation"])
               /\ Vouch(draft, {slot})
            \/ /\ ~Available(draft.services.value, Place(draft))
               /\ \E p \in Proposals(draft) :
                    /\ Return([draft EXCEPT !.proposed = p, !.phase = "awaiting_pick"])
                    /\ Vouch(draft, {p[i] : i \in DOMAIN p})
    /\ UNCHANGED <<identity, guacuco, cards, asked, refused, mine, booked, withdrawn, dangling, told,
                   events>>

SchedulePresent ==
    /\ node = "schedule_present"
    /\ ~resumed
    /\ IF draft.proposed = <<>>
       THEN Goto(Failed(draft, "handed_off"), "subgraph_finalize") /\ UNCHANGED told
       ELSE Interrupt("schedule_present", Outcome("proposed", NoRequest))
    /\ UNCHANGED <<identity, guacuco, history, events>>

\* processReply: an option shown is taken as it is; other text is a new day, maybe a new
\* hour; nothing asks again.
Picked(d, m) ==
    IF m.kind = "slot_pick" /\ m.row \in DOMAIN d.proposed
      THEN {[d EXCEPT !.date = Resolved(d.proposed[m.row][1]),
                      !.time = Resolved(d.proposed[m.row][2]),
                      !.proposed = <<>>, !.phase = "awaiting_confirmation"]}
    ELSE IF m.kind # "media"
      THEN {[d EXCEPT !.date = Parsed(r[1]), !.time = IF r[2] = None THEN @ ELSE Resolved(r[2]),
                      !.proposed = <<>>, !.phase = "collecting"] : r \in Readings(m)}
    ELSE {[d EXCEPT !.phase = "awaiting_pick"]}

\* Mutant: a new day goes straight to the confirmation.
RouteAfterPresentTrusting(d) ==
    CASE ~IsActiveDraft(d)          -> "subgraph_finalize"
      [] d.phase = "awaiting_pick"  -> "schedule_present"
      [] OTHER                      -> "schedule_build_confirm"

RouteAfterPresent(d) ==
    CASE ~IsActiveDraft(d)                  -> "subgraph_finalize"
      [] d.phase = "awaiting_confirmation"  -> "schedule_build_confirm"
      [] d.phase = "collecting"             -> "schedule_resolve"
      [] d.phase = "awaiting_pick"          -> "schedule_present"
      [] OTHER                              -> "subgraph_finalize"

SchedulePresentResumed ==
    /\ node = "schedule_present"
    /\ resumed
    /\ \E d \in Picked(draft, msg) : Goto(d, RouteAfterPresent(d))
    /\ UNCHANGED <<identity, guacuco, history, told, events>>

-----------------------------------------------------------------------------
(* The gate.                                                               *)

\* A confirmation in the draft is kept; else a fresh intentUuid, under which nothing was
\* asked, names the slots.
ScheduleBuildConfirm ==
    /\ node = "schedule_build_confirm"
    /\ IF draft.key = None /\ SummaryReady(draft)
       THEN \E k \in {k \in Keys : idem[k].status # "in_progress"} :
              /\ Goto([draft EXCEPT !.key = k, !.phase = "awaiting_confirmation"], "subgraph_gate")
              /\ cards' = [cards EXCEPT ![k] = Summary(draft)]
              /\ asked' = [asked EXCEPT ![k] = NoRequest]
              /\ idem' = [idem EXCEPT ![k] = NoRow]
              /\ mine' = mine \ {k}
       ELSE Goto(draft, "subgraph_gate") /\ UNCHANGED <<cards, asked, idem, mine>>
    /\ UNCHANGED <<identity, free, vouched, refused, booked, withdrawn, dangling, told, events>>

ScheduleGate ==
    /\ node = "subgraph_gate"
    /\ ~resumed
    /\ IF draft.key = None
       THEN Goto(Failed(draft, "error"), "subgraph_finalize") /\ UNCHANGED told
       ELSE Interrupt("subgraph_gate", Outcome("gated", cards[draft.key]))
    /\ UNCHANGED <<identity, guacuco, history, events>>

Said(slot, v) == IF v = None THEN slot ELSE Resolved(v)

\* cancelHandler, cancelImplicit: the confirmation is dropped; a day or an hour said
\* instead displaces the old one.
Cancelled(d, m) ==
    LET dropped == [d EXCEPT !.key = None, !.proposed = <<>>, !.phase = "collecting"] IN
    IF m.kind = "media" \/ m = Msg("cancel", d.key) THEN {dropped}
    ELSE {[dropped EXCEPT !.date = Said(@, r[1]), !.time = Said(@, r[2])] : r \in Readings(m)}

\* Mutant: a new day keeps the confirmation.
GateRepliedKeepsKey(d, m) ==
    IF m = Msg("confirm", d.key) THEN {[d EXCEPT !.phase = "committing"]}
    ELSE {[c EXCEPT !.key = d.key] : c \in Cancelled(d, m)}

\* Mutant: the "Confirmar" of any gate message commits.
GateRepliedAnyKey(d, m) ==
    IF m.kind = "confirm" THEN {[d EXCEPT !.phase = "committing"]} ELSE Cancelled(d, m)

GateReplied(d, m) ==
    IF m = Msg("confirm", d.key) THEN {[d EXCEPT !.phase = "committing"]} ELSE Cancelled(d, m)

\* Mutant: dropping the confirmation leads nowhere.
RouteAfterGateBlind(d) ==
    IF IsActiveDraft(d) /\ d.phase = "committing" THEN "schedule_commit" ELSE "subgraph_finalize"

RouteAfterGate(d) ==
    CASE ~IsActiveDraft(d)       -> "subgraph_finalize"
      [] d.phase = "committing"  -> "schedule_commit"
      [] d.phase = "collecting"  -> "schedule_resolve"
      [] OTHER                   -> "subgraph_finalize"

ScheduleGateResumed ==
    /\ node = "subgraph_gate"
    /\ resumed
    /\ \E d \in GateReplied(draft, msg) :
         /\ Goto(d, RouteAfterGate(d))
         /\ withdrawn' = (withdrawn \/ (draft.key \in mine /\ d.key = None))
    /\ UNCHANGED <<identity, guacuco, cards, asked, vouched, refused, mine, booked, dangling, told,
                   events>>

-----------------------------------------------------------------------------
(* The commit.                                                             *)

\* assertSlotsResolved, the client, the key; then the request leaves, and may not arrive.
ScheduleCommit ==
    LET o == CASE Missing(draft) # None \/ draft.services.value = {} -> "error"
               [] Request(draft).client = None                       -> "handed_off"
               [] OTHER                                              -> "error"
    IN
    /\ node = "schedule_commit"
    /\ IF Missing(draft) # None \/ draft.services.value = {} \/ Request(draft).client = None
            \/ draft.key = None
       THEN /\ Goto(Failed(draft, o), "subgraph_finalize")
            /\ UNCHANGED <<asked, idem, mine>>
       ELSE /\ asked' = [asked EXCEPT ![draft.key] = Request(draft)]
            /\ mine' = mine \cup {draft.key}
            /\ node' = "guacuco" /\ UNCHANGED <<resumed, msg, tap, thread>>
            /\ \/ UNCHANGED idem
               \/ /\ idem[draft.key].status = "none"
                  /\ idem' = [idem EXCEPT ![draft.key].status = "in_progress"]
    /\ UNCHANGED <<identity, free, cards, vouched, refused, booked, withdrawn, dangling, told, events>>

\* What the call may bring: Guacuco's answer, or the end of the retries.
Answers(k) ==
    {"net"} \cup (CASE idem[k].status = "done"        -> {idem[k].result}
                    [] idem[k].status = "in_progress" -> {"IDEMPOTENT_REQUEST_IN_PROGRESS"}
                    [] OTHER                          -> {})

\* Mutant: the retry is not counted.
CommittedForgetful(d, answer) ==
    CASE answer = "ok" -> [d EXCEPT !.phase = "done"]
      [] answer = "STAFF_NOT_AVAILABLE" ->
           [d EXCEPT !.proposed = <<>>, !.key = None, !.phase = "validating_availability"]
      [] OTHER -> Failed(d, "error")

\* Mutant: a lost answer is tried again under a fresh intentUuid.
CommittedInsistent(d, answer) ==
    CASE answer = "ok" -> [d EXCEPT !.phase = "done"]
      [] answer \in {"STAFF_NOT_AVAILABLE", "net"} /\ ~d.retried ->
           [d EXCEPT !.proposed = <<>>, !.key = None, !.retried = TRUE,
                     !.phase = "validating_availability"]
      [] OTHER -> Failed(d, "error")

\* Mutant: the slot lost is replaced under the same intentUuid.
CommittedSameKey(d, answer) ==
    CASE answer = "ok" -> [d EXCEPT !.phase = "done"]
      [] answer = "STAFF_NOT_AVAILABLE" /\ ~d.retried ->
           [d EXCEPT !.proposed = <<>>, !.retried = TRUE, !.phase = "validating_availability"]
      [] OTHER -> Failed(d, "error")

\* handleCommitError: a slot lost meanwhile is validated anew, once per draft.
Committed(d, answer) ==
    CASE answer = "ok" -> [d EXCEPT !.phase = "done"]
      [] answer = "STAFF_NOT_AVAILABLE" /\ ~d.retried ->
           [d EXCEPT !.proposed = <<>>, !.key = None, !.retried = TRUE,
                     !.phase = "validating_availability"]
      [] answer \in {"net", "IDEMPOTENT_REQUEST_IN_PROGRESS", "BUSINESS_MISMATCH"} -> Failed(d, "error")
      [] OTHER -> Failed(d, "handed_off")

RouteAfterCommit(d) ==
    CASE ~IsActiveDraft(d)                    -> "subgraph_finalize"
      [] d.phase = "validating_availability"  -> "schedule_validate"
      [] d.phase = "done"                     -> "schedule_success"
      [] OTHER                                -> "subgraph_finalize"

ScheduleCommitAnswered ==
    /\ node = "guacuco"
    /\ \E answer \in Answers(draft.key) :
         LET d == Committed(draft, answer) IN
         /\ Goto(d, RouteAfterCommit(d))
         /\ refused' = IF answer = "STAFF_NOT_AVAILABLE" THEN refused + 1 ELSE refused
    /\ UNCHANGED <<identity, guacuco, cards, asked, vouched, mine, booked, withdrawn, dangling, told,
                   events>>

ScheduleSuccess ==
    /\ node = "schedule_success"
    /\ Goto([draft EXCEPT !.terminalOutcome = Outcome("success", Request(draft))],
            "subgraph_finalize")
    /\ UNCHANGED <<identity, guacuco, history, told, events>>

\* The keys of the flow are forgotten, but for requests still in flight.
Kept(f, nothing) == [k \in Keys |-> IF idem[k].status = "in_progress" THEN f[k] ELSE nothing]

Finalize ==
    /\ node = "subgraph_finalize"
    /\ EndTurn(IF draft.terminalOutcome = NoOutcome THEN Outcome("ignored", NoRequest)
               ELSE draft.terminalOutcome)
    /\ draft' = NoDraft /\ paused' = "none"
    /\ cards' = Kept(cards, NoRequest) /\ asked' = Kept(asked, NoRequest)
    /\ idem' = Kept(idem, NoRow)
    /\ dangling' = {k \in dangling : idem[k].status = "in_progress"}
    /\ vouched' = {} /\ refused' = 0 /\ mine' = {} /\ booked' = <<>> /\ withdrawn' = FALSE
    /\ UNCHANGED <<identity, free, events>>

-----------------------------------------------------------------------------
(* The environment.                                                        *)

\* schedule_appointment in Guacuco.
GuacucoExecute(k) ==
    LET q == asked[k]
        place == <<q.staff, q.date, q.time>>
    IN
    /\ idem[k].status = "in_progress"
    /\ \E res \in IF Available(q.services, place) THEN {"ok", "BUSINESS_MISMATCH", "OTHER"}
                  ELSE {"STAFF_NOT_AVAILABLE", "OTHER"} :
         /\ idem' = [idem EXCEPT ![k] = [status |-> "done", result |-> res]]
         /\ free' = IF res = "ok" THEN free \ {place} ELSE free
         /\ booked' = IF res = "ok" /\ k \in mine THEN Append(booked, q) ELSE booked
    /\ UNCHANGED <<turn, thread, identity, cards, asked, vouched, refused, mine, withdrawn, dangling,
                   told, events>>

TakenElsewhere ==
    /\ events < MaxEvents /\ events' = events + 1
    /\ \E s \in free : free' = free \ {s}
    /\ UNCHANGED <<turn, thread, identity, idem, history, told>>

\* runWithGlobalCatch: the checkpointer threw; or the process died and nothing is told.
Dies ==
    /\ node # "idle"
    /\ events < MaxEvents /\ events' = events + 1
    /\ EndTurn(Outcome("error", NoRequest))
    /\ dangling' = IF draft.key = None THEN dangling ELSE dangling \cup {draft.key}
    /\ UNCHANGED <<thread, identity, guacuco, cards, asked, flow>>

-----------------------------------------------------------------------------
TurnStep ==
    \/ Supervisor \/ ScheduleEntry \/ ScheduleResolve
    \/ ScheduleAskSlot \/ ScheduleAskSlotResumed
    \/ ScheduleValidate \/ SchedulePresent \/ SchedulePresentResumed
    \/ ScheduleBuildConfirm \/ ScheduleGate \/ ScheduleGateResumed
    \/ ScheduleCommit \/ ScheduleCommitAnswered \/ ScheduleSuccess \/ Finalize

Next ==
    \/ Arrive \/ TurnStep \/ Dies
    \/ \E k \in Keys : GuacucoExecute(k)
    \/ TakenElsewhere

Spec == Init /\ [][Next]_vars

-----------------------------------------------------------------------------
(* Properties.                                                             *)

\* Every variable keeps its type.
TypeOK ==
    /\ node \in {"idle", "supervisor", "schedule_entry", "schedule_resolve", "schedule_ask_slot",
                 "schedule_validate", "schedule_present", "schedule_build_confirm",
                 "subgraph_gate", "schedule_commit", "guacuco", "schedule_success",
                 "subgraph_finalize"}
    /\ resumed \in BOOLEAN /\ draft \in Drafts
    /\ paused \in {"none", "schedule_ask_slot", "schedule_present", "subgraph_gate"}
    /\ cards \in [Keys -> Requests \cup {NoRequest}] /\ asked \in [Keys -> Requests \cup {NoRequest}]
    /\ free \subseteq Places /\ dangling \subseteq Keys /\ mine \subseteq Keys

\* What Guacuco is asked to book under an intentUuid is what the gate message with that
\* intentUuid told the user: services, professional, day and hour (buildConfirm, gateConfirm,
\* commit).  Except after a turn that died with the confirmation in its draft: the next one
\* may choose another slot and keep it.
CommitMatchesCard ==
    \A k \in Keys \ dangling :
        asked[k] # NoRequest => [asked[k] EXCEPT !.client = None] = cards[k]

\* The gate only ever offers a slot that the last check called free, validated or proposed,
\* for those services and that professional, whatever the user rewrote since (validate,
\* present, gate).  Except once a turn died with a confirmation in its draft: that one is shown
\* again as it was, whatever the slots have become.
GatedWasVouched ==
    told.action = "gated" =>
        LET q == told.names IN
        dangling # {} \/ <<q.services, q.staff, q.date, q.time>> \in vouched

\* gateConfirm, commit: a request leaves only in the turn whose message taps "Confirmar"
\* under the gate message of its own intentUuid (REGLAS 10.6).
CommitOnlyOnTap ==
    [][node = "schedule_commit" /\ node' = "guacuco" => tap = draft.key]_vars

\* commit, RECOVERABLE_CODES: a slot lost after its validation is validated anew once;
\* lost again, through whatever replies, other slots and turns that die, it ends the flow.
RetriedOnce == refused >= 2 => draft.phase = "failed"

\* A flow books one appointment at most, whatever is retried, proposed anew or taken up again
\* after turns that died before they told of a success (commit, with the intentUuid kept in the
\* draft).  Unless the user, shown once more the gate of an intentUuid already sent, answers
\* anything but its "Confirmar": gateConfirm drops it, a new one follows, and nothing looks for
\* what the first booked.
BookedOnce == withdrawn \/ Len(booked) <= 1

\* The success message names a booking Guacuco made in this flow: an unanswered or refused
\* request is never reported as done (commit, successResponse).
SuccessIsTrue ==
    draft.terminalOutcome.action = "success" =>
        dangling # {} \/ \E i \in DOMAIN booked : booked[i] = draft.terminalOutcome.names

\* The subgraph as a ledger of requests, the client left out of them.  An intentUuid that a
\* turn died with is out of it: the next turn may choose another slot and keep it.
Clientless(q) == [q EXCEPT !.client = None]
Shown == [k \in Keys |-> IF k \in dangling THEN NoRequest ELSE cards[k]]
Sent  == [k \in Keys |-> IF k \in dangling THEN NoRequest ELSE Clientless(asked[k])]
Rows  == [k \in Keys |-> IF k \in dangling THEN "none" ELSE idem[k].status]
Made  == {Sent[k] : k \in {k \in mine \ dangling : idem[k].status = "done" /\ idem[k].result = "ok"}}
Reported == IF draft.terminalOutcome.action = "success" /\ draft.key \notin dangling
            THEN Clientless(draft.terminalOutcome.names) ELSE NoRequest

Ledger == INSTANCE GatedCommit WITH
    shown <- Shown, asked <- Sent, row <- Rows, done <- Made, reported <- Reported

\* Through every dialogue, retry, lost answer and dead turn: what is asked of Guacuco under an
\* intentUuid was named by its gate message, is done once at most, and ends the flow as a
\* success only if it was done, whatever happened to the other intentUuids (buildConfirm,
\* gateConfirm, commit, successResponse).
RefinesGatedCommit == Ledger!Spec

\* How many nodes a turn may still run.
Rank == CASE node = "subgraph_finalize"                     -> 1
          [] node = "schedule_success"                      -> 2
          [] node = "schedule_build_confirm"                -> 3
          [] node = "schedule_validate"                     -> 4
          [] node = "schedule_resolve"                      -> 5
          [] node \in {"schedule_entry", "guacuco"}         -> 6
          [] node \in {"supervisor", "schedule_commit"}     -> 7
          [] node \in {"schedule_ask_slot", "schedule_present", "subgraph_gate"} ->
               IF resumed THEN 8 ELSE 2
          [] OTHER                                          -> 0

\* No turn runs in circles: from any draft that earlier turns left it is over, paused or
\* finalized, after eight nodes, far from the 25 steps LangGraph allows (compile.ts; the edges of
\* the subgraph lead from the gate, the options, the question and the refusal back to resolve
\* and validate).
TurnShrinks == [][node # "idle" => Rank' < Rank \/ UNCHANGED <<turn, thread>>]_vars

\* REGLAS 10.7: no path reaches finalize without something to tell the user.
NeverSilent == told.action # "ignored"

=============================================================================
