----------------------------- MODULE Supervisor -----------------------------
(***************************************************************************)
(* The compiled graph as one thread sees it: what opens a turn, who        *)
(* answers it, and the two subgraphs of one turn's steps that Query and    *)
(* this module spell out (query, confirm); schedule, cancel and reschedule *)
(* have modules of their own and are here a node that pauses or ends.      *)
(* Every node's result is checkpointed; the channels keep their values     *)
(* from turn to turn unless a node overwrites them.  A turn that dies (the *)
(* identity stops, the checkpointer fails) leaves them where they were.     *)
(*                                                                         *)
(* A paused turn is resumed by Command(resume), with the reply alone: the  *)
(* input, the identity and the appointments are those of the turn that     *)
(* opened the flow.  External: Guacuco's appointments, the LLM, the user.  *)
(***************************************************************************)
EXTENDS Query

CONSTANTS
    OtherFlows,     \* bound: those told apart of the flows with modules of their own
    Appts,
    CONFIRM_MAX_ATTEMPTS,
    MaxEvents       \* bound: turns that die, pauses not seen, appointments cancelled elsewhere

Title == "title"    \* the static payload of a template's button: no appointment

ASSUME SupervisorConstantsOK ==
    /\ OtherFlows \subseteq {"schedule", "cancel", "reschedule"}
    /\ CONFIRM_MAX_ATTEMPTS \in Nat \ {0}
    /\ MaxEvents \in Nat

VARIABLES
    input,          \* the message that opened the turn
    reply,          \* the message that resumes a flow, until the paused node reads it
    routing,
    paused,         \* the node paused in interrupt()
    crm,            \* crmContext: the upcoming appointments when the flow opened
    told,           \* outcome: what was dispatched since the last message
    status,         \* Guacuco: each appointment
    flying,         \* confirm requests on their way; two for one appointment count as one
    answer,         \* Guacuco's answer to the turn's request
    meant,          \* history: what this turn's message points at to be confirmed
    fresh,          \* history: the draft's question is this turn's message
    dangling,       \* history: the flow outlived a turn that died, or a pause not seen
    confirmed,      \* history: what Guacuco ever confirmed
    events

turn     == <<node, work, input, reply>>
thread   == <<draft, messages, routing, paused, crm>>
guacuco  == <<status, flying, answer, confirmed>>
history  == <<meant, fresh, dangling>>
vars     == <<turn, thread, guacuco, history, identity, executed, told, events>>

-----------------------------------------------------------------------------
(* Messages and channels.                                                  *)

\* supervisor/filterTools.ts, getAvailableTools.
Flows       == {"confirm", "query"} \cup OtherFlows
AtomicTools == {"forward_message", "retrieve_manzanillo_url", "connect_mercado_pago"}

getAvailableTools ==
    Flows \cup {"forward_message"} \cup
    (CASE identity.profileType = "client" -> {"retrieve_manzanillo_url"}
       [] identity = [profileType |-> "staff", roleId |-> "owner"] ->
            {"connect_mercado_pago", "send_client_summary"}
       [] OTHER -> {"send_client_summary"})

\* text: none, plain, or with a keyword of a tool; a button has its title.  action: the
\* prefix of an own button's payload, or what a template button's title says.
Msg(type, text, action, appt) == [type |-> type, text |-> text, action |-> action, appt |-> appt]
NoMsg == Msg(None, None, None, None)

Inbox ==
    {Msg("media", t, None, None) : t \in {None, "plain"}}
      \cup {Msg("text", t, None, None) : t \in {None, "plain"} \cup AtomicTools}
      \cup {Msg("interactive", "plain", "confirm", None)}
      \cup {Msg("interactive", "plain", "apt_pick", a) : a \in Appts}
      \cup {Msg("template_button", "plain", b, None) :
              b \in {"confirm", "client_summary", None} \cup (OtherFlows \ {"schedule"})}

NoShortcut == [kind |-> None, value |-> None]
NoRouting  == [activeSubgraph |-> None, buttonShortcut |-> NoShortcut, targetTool |-> None,
               messageType |-> None, intent |-> None, takeoverReason |-> None]

NoDraft   == [kind |-> None]
Canned    == Reply("response", "unsupported")
Gone      == Reply("response", "placeholder")
Ignored   == Reply("ignored", None)

ConfirmTexts == {"no_upcomings", "which", "invariant", "not_found", "generic", "not_confirmed"}

\* An answer names an appointment or says one of these.
Texts == QueryTexts \cup ConfirmTexts \cup AtomicTools
           \cup {"send_client_summary", "unsupported", "placeholder", "human", "social",
                 "elsewhere", Title}

ASSUME ApptsAreNoTexts == Appts \cap Texts = {}

initialConfirmDraftState ==
    [kind |-> "confirm", phase |-> "collecting", slot |-> "empty", appt |-> None, attempts |-> 0,
     terminalOutcome |-> NoReply]

ConfirmDrafts ==
    [kind : {"confirm"}, phase : {"collecting", "committing", "done", "failed"},
     slot : {"empty", "guessed", "resolved"}, appt : Appts \cup {Title, None}, attempts : Nat,
     terminalOutcome : [action : {None, "response", "error", "handed_off"},
                        text : Appts \cup {Title, None} \cup ConfirmTexts]]

\* The drafts the other modules are about.
OtherDrafts == [kind : OtherFlows, terminalOutcome : {NoReply, Reply("response", "elsewhere")}]

Init ==
    /\ node = "idle" /\ work = Idle /\ input = NoMsg /\ reply = NoMsg
    /\ draft = NoDraft /\ messages = "plain" /\ routing = NoRouting
    /\ paused = None /\ crm = {}
    /\ status = [a \in Appts |-> "pending"] /\ flying = {} /\ answer = None /\ confirmed = {}
    /\ meant = {} /\ fresh = FALSE /\ dangling = FALSE
    /\ identity \in Identities /\ executed = <<>> /\ told = NoReply /\ events = 0

Upcoming == {a \in Appts : status[a] # "gone"}

-----------------------------------------------------------------------------
(* Turns begin and end.                                                    *)

\* What a turn leaves in routing; the rest is reset unread.
Left(r) == [NoRouting EXCEPT !.activeSubgraph = r.activeSubgraph, !.buttonShortcut = r.buttonShortcut]

\* The turn ends and its answer is dispatched; what the next turn overwrites before it reads it
\* is forgotten.
EndTurn(o) ==
    /\ told' = o
    /\ node' = "idle" /\ work' = Idle /\ reply' = NoMsg /\ answer' = None
    /\ crm' = IF paused' = None THEN {} ELSE crm
    /\ input' = NoMsg /\ meant' = {} /\ fresh' = FALSE /\ executed' = <<>>

\* A node goes on to node n.
Leads(n) == node' = n /\ UNCHANGED <<work, input, crm, executed, told>>
Goto(n)  == Leads(n) /\ UNCHANGED <<reply, answer, meant, fresh>>

\* The node was the graph's last.
EndGraph(o) ==
    /\ routing' = Left(routing)
    /\ UNCHANGED <<draft, paused>>
    /\ EndTurn(o)

Opened(m) ==
    /\ node' = "supervisor_entry" /\ input' = m /\ reply' = NoMsg /\ crm' = Upcoming

\* detectPendingInterrupts: a paused flow is resumed; when the checkpointer fails, the message
\* opens a turn as if nothing were pending.
Arrive ==
    /\ node = "idle"
    /\ \E m \in Inbox :
         \/ /\ paused # None
            /\ node' = paused /\ reply' = m
            /\ UNCHANGED <<input, crm, paused, events, dangling>>
         \/ /\ paused # None /\ events < MaxEvents
            /\ Opened(m) /\ paused' = None /\ events' = events + 1 /\ dangling' = TRUE
         \/ /\ paused = None
            /\ Opened(m) /\ UNCHANGED <<paused, events, dangling>>
    /\ told' = NoReply
    /\ UNCHANGED <<work, draft, messages, routing, guacuco, meant, fresh, identity, executed>>

-----------------------------------------------------------------------------
(* supervisor_entry.                                                       *)

detectUnsupportedContent(m) == m.type = "media"

\* detectTemplateButtonShortcut, detectButtonShortcut.  The template of the tap is of any
\* appointment, which is known when the template is among the recent ones, and told apart here
\* where this module's flows need it.
Shortcuts(m) ==
    CASE m.type = "template_button" /\ m.action # None ->
           {[kind |-> m.action, value |-> v] :
              v \in IF m.action = "confirm" THEN Appts \cup {Title} ELSE {Title}}
      [] m.type = "interactive" /\ m.action # "apt_pick" -> {[kind |-> m.action, value |-> Title]}
      [] OTHER -> {NoShortcut}

detectAtomicTool(m) == IF m.text \in AtomicTools THEN m.text ELSE None

\* ROUTING_TURN_RESET.
TurnReset(r) == [NoRouting EXCEPT !.activeSubgraph = r.activeSubgraph]

Routed(m, r, s) ==
    CASE r.activeSubgraph # None -> TurnReset(r)
      [] r.activeSubgraph = None /\ s # NoShortcut -> [TurnReset(r) EXCEPT !.buttonShortcut = s]
      [] OTHER -> [TurnReset(r) EXCEPT !.targetTool = detectAtomicTool(m)]

supervisorEntryRouter(m, r) ==
    LET s == r.buttonShortcut IN
    CASE r.activeSubgraph # None -> "subgraph_dispatch"
      [] r.activeSubgraph = None /\ s = NoShortcut -> "classify_intent"
      [] r.activeSubgraph = None /\ m.type = "template_button" /\ s.kind \in Flows ->
           "subgraph_dispatch"
      [] r.activeSubgraph = None /\ m.type = "template_button" /\ s.kind = "client_summary" ->
           "tool_send_client_summary"
      [] OTHER -> "subgraph_placeholder"

\* Mutant: a tap of the turn before stays in routing.
SupervisorEntryKeepsTap ==
    /\ node = "supervisor_entry"
    /\ IF detectUnsupportedContent(input) THEN EndGraph(Canned)
       ELSE /\ \E s \in Shortcuts(input) :
                 LET t == IF s = NoShortcut THEN routing.buttonShortcut ELSE s IN
                 routing' = Routed(input, routing, t)
            /\ UNCHANGED <<draft, paused>>
            /\ Goto(supervisorEntryRouter(input, routing'))
    /\ UNCHANGED <<messages, status, flying, confirmed, dangling, identity, events>>

\* Media is answered at once; the rest resets what routing held of the last turn.
SupervisorEntry ==
    /\ node = "supervisor_entry"
    /\ IF detectUnsupportedContent(input) THEN EndGraph(Canned)
       ELSE /\ \E s \in Shortcuts(input) : routing' = Routed(input, routing, s)
            /\ UNCHANGED <<draft, paused>>
            /\ Goto(supervisorEntryRouter(input, routing'))
    /\ UNCHANGED <<messages, status, flying, confirmed, dangling, identity, events>>

-----------------------------------------------------------------------------
(* classify_intent and the answers without a flow.                         *)

ActionIntents == (Flows \ {"query"}) \cup AtomicTools \cup {"unknown"}

Classification(type, intent, reason) ==
    [messageType |-> type, intent |-> intent, takeoverReason |-> reason]

\* makeFrustrationJudge: the judge may see frustration in any text; its failure sees none.
Frustrated(m) ==
    IF m.text = None THEN {} ELSE {Classification("human_request", None, "sentiment_frustration")}

\* What the classifier makes of a text: greeting, farewell and oos are one "social"; an empty
\* text is not read, and an answer that does not parse counts as unknown.
Classifications(m) ==
    IF m.text = None THEN {Classification("action", "unknown", None)}
    ELSE {Classification("action", i, None) : i \in ActionIntents}
           \cup {Classification(t, None, None) : t \in {"social", "query"}}
           \cup {Classification("human_request", None, "explicit_request")}

ToolNode(t) ==
    CASE t = "forward_message"         -> "tool_forward_message"
      [] t = "retrieve_manzanillo_url" -> "tool_retrieve_manzanillo_url"
      [] t = "connect_mercado_pago"    -> "tool_connect_mercado_pago"

\* routeFromSupervisorWithSubgraphs.
AsksForFlow(r) == r.messageType = "query" \/ (r.messageType = "action" /\ r.intent \in Flows)

\* routeFromSupervisor: the intent, if the role has it, before
\* the keyword's tool, if the role has it.
RouteFromSupervisor(r) ==
    CASE r.messageType = "action" /\ r.intent \in AtomicTools \cap getAvailableTools ->
           ToolNode(r.intent)
      [] r.messageType = "action" /\ r.intent \notin getAvailableTools
           /\ r.targetTool \in getAvailableTools -> ToolNode(r.targetTool)
      [] AsksForFlow(r) -> "subgraph_dispatch"
      [] OTHER -> "social_responder"

ClassifyIntent ==
    /\ node = "classify_intent"
    /\ \E c \in Frustrated(input) \cup Classifications(input) :
         /\ routing' = [routing EXCEPT !.messageType = c.messageType, !.intent = c.intent,
                                       !.takeoverReason = c.takeoverReason]
         /\ Goto(RouteFromSupervisor(routing'))
    /\ UNCHANGED <<draft, messages, paused, status, flying, confirmed, dangling, identity,
                   events>>

\* The four nodes that only answer.
Answered(o) ==
    /\ EndGraph(o)
    /\ UNCHANGED <<messages, status, flying, confirmed, dangling, identity, events>>

SocialResponder ==
    /\ node = "social_responder"
    /\ Answered(IF routing.messageType = "human_request" THEN Reply("handed_off", "human")
                ELSE Reply("response", "social"))

SubgraphPlaceholder ==
    /\ node = "subgraph_placeholder"
    /\ Answered(Gone)

\* The tool asked Guacuco, which may fail or bring nothing; the answer names the tool.
Ran(t) == \E a \in {"response", "error"} : Answered(Reply(a, t))

\* forwardMessage, retrieveManzanilloUrl, connectMercadoPago.
AtomicTool == \E t \in AtomicTools : node = ToolNode(t) /\ Ran(t)

\* Mutant: the tool trusts that only the staff has the button.
SendClientSummaryTrusting == node = "tool_send_client_summary" /\ Ran("send_client_summary")

\* sendClientSummary, which no router gates: isToolAllowed, then the call, by the appointment
\* or by the template itself.
SendClientSummary ==
    /\ node = "tool_send_client_summary"
    /\ IF "send_client_summary" \in getAvailableTools THEN Ran("send_client_summary")
       ELSE Answered(Reply("response", "forbidden"))

-----------------------------------------------------------------------------
(* subgraph_dispatch.                                                      *)

\* Mutant: the questions have no flow.
resolveDispatchTargetForActions(r) ==
    CASE r.activeSubgraph # None -> r.activeSubgraph
      [] r.activeSubgraph = None /\ r.buttonShortcut.kind \in Flows -> r.buttonShortcut.kind
      [] r.activeSubgraph = None /\ r.buttonShortcut.kind \notin Flows /\ r.intent \in Flows ->
           r.intent
      [] OTHER -> None

\* The live flow before the tap, the tap before what the classifier said.
resolveDispatchTarget(r) ==
    CASE r.activeSubgraph # None -> r.activeSubgraph
      [] r.activeSubgraph = None /\ r.buttonShortcut.kind \in Flows -> r.buttonShortcut.kind
      [] r.activeSubgraph = None /\ r.buttonShortcut.kind \notin Flows /\ r.intent \in Flows ->
           r.intent
      [] r.activeSubgraph = None /\ r.buttonShortcut.kind \notin Flows /\ r.intent \notin Flows
           /\ r.messageType = "query" -> "query"
      [] OTHER -> None

\* preseedAppointmentSlot.
Preseeded(d, s) ==
    IF s.kind = "confirm" THEN [d EXCEPT !.slot = "resolved", !.appt = s.value] ELSE d

InitialDraft(target) ==
    CASE target = "query"      -> initialQueryDraftState
      [] target = "confirm"    -> Preseeded(initialConfirmDraftState, routing.buttonShortcut)
      [] target \in OtherFlows -> [kind |-> target, terminalOutcome |-> NoReply]

\* routeAfterDispatch.
FirstNode(target) ==
    CASE target = "query"      -> "query_classify"
      [] target = "confirm"    -> "confirm_bootstrap"
      [] target \in OtherFlows -> "elsewhere"
      [] OTHER                 -> "subgraph_finalize"

\* What a message that opens the confirm flow points at: the appointment of the reminder tapped,
\* or the button's title alone; a text points at nothing.
PointedAt ==
    LET s == routing.buttonShortcut IN IF s.kind = "confirm" THEN {s.value} ELSE {}

\* A draft of the same kind goes on, another one is replaced.
SubgraphDispatch ==
    LET target == resolveDispatchTarget(routing) IN
    /\ node = "subgraph_dispatch"
    /\ IF target = None
       THEN UNCHANGED <<routing, draft, meant, fresh>>
       ELSE /\ routing' = [routing EXCEPT !.activeSubgraph = target]
            /\ draft' = IF draft.kind = target THEN draft ELSE InitialDraft(target)
            /\ meant' = IF target = "confirm" /\ draft.kind # target THEN PointedAt ELSE {}
            /\ fresh' = (draft.kind # target)
    /\ Leads(FirstNode(target))
    /\ UNCHANGED <<reply, answer, messages, paused, status, flying, confirmed, dangling,
                   identity, events>>

-----------------------------------------------------------------------------
(* The flows.                                                              *)

\* What a node of a flow leaves alone.
FlowFrame == UNCHANGED <<messages, dangling, identity, events>>

Interrupt(n, question) ==
    /\ paused' = n /\ UNCHANGED draft /\ routing' = Left(routing)
    /\ EndTurn(Reply("interrupt", question))

\* schedule, cancel, reschedule: pause with a question, or end.
Elsewhere ==
    /\ node = "elsewhere"
    /\ \/ Interrupt("elsewhere", "elsewhere")
       \/ /\ draft' = [draft EXCEPT !.terminalOutcome = Reply("response", "elsewhere")]
          /\ paused' = None /\ reply' = NoMsg
          /\ Leads("subgraph_finalize") /\ UNCHANGED <<answer, meant, fresh, routing>>
    /\ FlowFrame /\ UNCHANGED <<status, flying, confirmed>>

\* Mutant: a draft that failed is put in a phase nobody handles.
FailedConfirmInLimbo(d, a, t) == [d EXCEPT !.phase = "given_up", !.terminalOutcome = Reply(a, t)]

FailedConfirm(d, a, t) == [d EXCEPT !.phase = "failed", !.terminalOutcome = Reply(a, t)]

RouteAfterConfirmBootstrap(d) ==
    CASE ~IsActiveDraft(d)         -> "subgraph_finalize"
      [] IsActiveDraft(d) /\ d.phase = "committing" -> "confirm_commit"
      [] IsActiveDraft(d) /\ d.phase = "collecting" -> "confirm_ask_slot"

IsOne(S) == \E a \in S : S = {a}

\* bootstrap: the appointment tapped, or the only one, is confirmed without asking.
Bootstrapped(d) ==
    CASE d.slot = "resolved" /\ d.appt \in crm -> [d EXCEPT !.phase = "committing"]
      [] ~(d.slot = "resolved" /\ d.appt \in crm) /\ crm = {} ->
           FailedConfirm(d, "response", "no_upcomings")
      [] ~(d.slot = "resolved" /\ d.appt \in crm) /\ IsOne(crm) ->
           [d EXCEPT !.slot = "resolved", !.appt = CHOOSE a \in crm : TRUE, !.phase = "committing"]
      [] OTHER -> [d EXCEPT !.phase = "collecting"]

ConfirmBootstrap ==
    /\ node = "confirm_bootstrap"
    /\ draft' = Bootstrapped(draft)
    /\ Goto(RouteAfterConfirmBootstrap(draft'))
    /\ FlowFrame /\ UNCHANGED <<paused, routing, status, flying, confirmed>>

RouteAfterConfirmAskSlot(d) ==
    CASE ~IsActiveDraft(d) -> "subgraph_finalize"
      [] IsActiveDraft(d) /\ d.phase = "committing" -> "confirm_commit"
      [] OTHER -> "confirm_ask_slot"

ConfirmAskSlot ==
    /\ node = "confirm_ask_slot"
    /\ reply = NoMsg
    /\ IF draft.attempts >= CONFIRM_MAX_ATTEMPTS
       THEN /\ draft' = FailedConfirm(draft, "handed_off", "which")
            /\ Goto(RouteAfterConfirmAskSlot(draft')) /\ UNCHANGED <<paused, routing>>
       ELSE Interrupt("confirm_ask_slot", "which")
    /\ FlowFrame /\ UNCHANGED <<status, flying, confirmed>>

\* Mutant: a text is taken for the first of the list.
InterpretReplyEager(d, m) ==
    IF m.text # None /\ crm # {}
    THEN [d EXCEPT !.slot = "resolved", !.appt = CHOOSE a \in crm : TRUE, !.phase = "committing"]
    ELSE d

\* interpretReply: a row of the list shown is taken, a text is only a guess.
InterpretReply(d, m) ==
    CASE m.action = "apt_pick" /\ m.appt \in crm ->
           [d EXCEPT !.slot = "resolved", !.appt = m.appt, !.phase = "committing"]
      [] ~(m.action = "apt_pick" /\ m.appt \in crm) /\ m.text # None ->
           [d EXCEPT !.slot = "guessed", !.appt = None]
      [] OTHER -> d

ConfirmAskSlotResumed ==
    /\ node = "confirm_ask_slot"
    /\ reply # NoMsg
    /\ draft' = [InterpretReply(draft, reply) EXCEPT !.attempts = @ + 1]
    /\ paused' = None /\ reply' = NoMsg
    /\ meant' = IF reply.action = "apt_pick" THEN {reply.appt} ELSE {}
    /\ Leads(RouteAfterConfirmAskSlot(draft'))
    /\ FlowFrame /\ UNCHANGED <<answer, fresh, routing, status, flying, confirmed>>

\* commit: a key of its own for each request, which may not arrive.
ConfirmCommit ==
    /\ node = "confirm_commit"
    /\ IF draft.slot # "resolved"
       THEN /\ draft' = FailedConfirm(draft, "error", "invariant")
            /\ Goto("subgraph_finalize") /\ UNCHANGED flying
       ELSE /\ flying' \in {flying, flying \cup {draft.appt}}
            /\ Goto("guacuco") /\ UNCHANGED draft
    /\ FlowFrame /\ UNCHANGED <<paused, routing, status, confirmed>>

\* Mutant: a call without an answer counts as done.
ConfirmCommittedOptimist(d, a) ==
    CASE a \in {"ok", "APPOINTMENT_ALREADY_CONFIRMED", None} -> [d EXCEPT !.phase = "done"]
      [] a = "APPOINTMENT_NOT_FOUND" -> FailedConfirm(d, "error", "not_found")
      [] OTHER                       -> FailedConfirm(d, "handed_off", "not_confirmed")

\* handleError; None is a call without an answer.
ConfirmCommitted(d, a) ==
    CASE a \in {"ok", "APPOINTMENT_ALREADY_CONFIRMED"} -> [d EXCEPT !.phase = "done"]
      [] a = "APPOINTMENT_NOT_FOUND"        -> FailedConfirm(d, "error", "not_found")
      [] a \in {"BUSINESS_MISMATCH", None} -> FailedConfirm(d, "error", "generic")
      [] OTHER                              -> FailedConfirm(d, "handed_off", "not_confirmed")

\* Mutant: a call that failed is made again until it is answered.
RouteAfterConfirmCommitInsistent(d) ==
    CASE d.phase = "done"                                -> "confirm_success"
      [] d.terminalOutcome = Reply("error", "generic")   -> "confirm_commit"
      [] OTHER                                           -> "subgraph_finalize"

RouteAfterConfirmCommit(d) ==
    IF IsActiveDraft(d) /\ d.phase = "done" THEN "confirm_success" ELSE "subgraph_finalize"

ConfirmAnswered ==
    /\ node = "guacuco"
    /\ \E a \in {answer, None} : draft' = ConfirmCommitted(draft, a)
    /\ Leads(RouteAfterConfirmCommit(draft')) /\ answer' = None
    /\ FlowFrame /\ UNCHANGED <<reply, meant, fresh, paused, routing, status, flying, confirmed>>

ConfirmSuccess ==
    /\ node = "confirm_success"
    /\ draft' = [draft EXCEPT !.terminalOutcome = Reply("response", draft.appt)]
    /\ Goto("subgraph_finalize")
    /\ FlowFrame /\ UNCHANGED <<paused, routing, status, flying, confirmed>>

QueryTurn ==
    /\ QueryStep
    /\ UNCHANGED <<input, reply, routing, paused, crm, guacuco, history, told, events>>

\* Mutant: the flow that ended is still the active one.
ClearedButActive(r) == [r EXCEPT !.intent = None, !.messageType = None]

\* What finalize clears of routing.
Cleared(r) == [r EXCEPT !.activeSubgraph = None, !.intent = None, !.messageType = None]

FinalOutcome(d) ==
    IF d.kind = None THEN Ignored ELSE IF d.terminalOutcome = NoReply THEN Ignored
    ELSE d.terminalOutcome

\* finalize: the flow is forgotten; its answer joins the history.
Finalize ==
    /\ node = "subgraph_finalize"
    /\ draft' = NoDraft /\ routing' = Left(Cleared(routing)) /\ paused' = None
    /\ dangling' = FALSE
    /\ messages' \in {"plain", "figures"}
    /\ EndTurn(FinalOutcome(draft))
    /\ UNCHANGED <<status, flying, confirmed, identity, events>>

-----------------------------------------------------------------------------
(* The environment.                                                        *)

\* confirm_appointment in Guacuco.
GuacucoConfirm ==
    \E a \in flying :
      \E res \in CASE status[a] = "pending"   -> {"ok", "BUSINESS_MISMATCH", "OTHER"}
                  [] status[a] = "confirmed" -> {"APPOINTMENT_ALREADY_CONFIRMED"}
                  [] status[a] = "gone"      -> {"APPOINTMENT_NOT_FOUND"} :
        /\ flying' = flying \ {a}
        /\ status' = IF res = "ok" THEN [status EXCEPT ![a] = "confirmed"] ELSE status
        /\ confirmed' = IF res = "ok" THEN confirmed \cup {a} ELSE confirmed
        /\ answer' = IF node = "guacuco" /\ draft.appt = a THEN res ELSE answer
        /\ UNCHANGED <<turn, thread, history, identity, executed, told, events>>

CancelledElsewhere ==
    /\ events < MaxEvents /\ events' = events + 1
    /\ \E a \in Upcoming : status' = [status EXCEPT ![a] = "gone"]
    /\ UNCHANGED <<turn, thread, flying, answer, confirmed, history, identity, executed, told>>

\* The identity stops or the checkpointer fails: the channels stay as the last node left them.
Dies ==
    /\ node # "idle"
    /\ events < MaxEvents /\ events' = events + 1
    /\ dangling' = (dangling \/ routing.activeSubgraph # None)
    /\ UNCHANGED paused /\ routing' = Left(routing) /\ EndTurn(Reply("error", "generic"))
    /\ UNCHANGED <<draft, messages, status, flying, confirmed, identity>>

-----------------------------------------------------------------------------
TurnStep ==
    \/ SupervisorEntry \/ ClassifyIntent
    \/ SocialResponder \/ SubgraphPlaceholder \/ AtomicTool \/ SendClientSummary
    \/ SubgraphDispatch \/ Elsewhere \/ QueryTurn
    \/ ConfirmBootstrap \/ ConfirmAskSlot \/ ConfirmAskSlotResumed
    \/ ConfirmCommit \/ ConfirmAnswered \/ ConfirmSuccess
    \/ Finalize

Next == Arrive \/ TurnStep \/ Dies \/ GuacucoConfirm \/ CancelledElsewhere

\* LangGraph runs the nodes of a turn to its end, and every call has a timeout.
Spec == Init /\ [][Next]_vars /\ WF_vars(TurnStep)

-----------------------------------------------------------------------------
(* Properties.                                                             *)

\* Every variable keeps its type.
TypeOK ==
    /\ QueryTypeOK
    /\ draft \in {NoDraft} \cup ConfirmDrafts \cup OtherDrafts \cup QueryDrafts
    /\ input \in Inbox \cup {NoMsg} /\ reply \in Inbox \cup {NoMsg}
    /\ routing.activeSubgraph \in Flows \cup {None}
    /\ routing.targetTool \in AtomicTools \cup {None}
    /\ paused \in {None, "elsewhere", "confirm_ask_slot"}
    /\ crm \subseteq Appts /\ meant \subseteq Appts \cup {Title} /\ flying \subseteq Appts
    /\ status \in [Appts -> {"pending", "confirmed", "gone"}]

\* finalize, supervisor_entry (compile.ts:562): between turns a flow is active only while it
\* waits for an answer, and is then the flow of the draft and of the paused node; a flow left
\* active with nobody to answer it swallows the next message, and only a turn that died or a
\* pause that was not seen leaves one.
FlowIsCoherent ==
    node = "idle" =>
        /\ routing.activeSubgraph = draft.kind
        /\ paused = None /\ routing.activeSubgraph # None => dangling
        /\ paused # None => FirstNode(draft.kind) \in {"elsewhere", "confirm_bootstrap"}

\* supervisor_entry (compile.ts:515-548): what ends a turn is about its message.  The answer for
\* media goes to media, the one for old buttons to a tap, and a question answered is this
\* turn's, whatever the channels kept of the turns before; except in a flow that outlived a
\* turn that died.
AnswersThisMessage ==
    [][node # "idle" /\ node' = "idle" =>
         /\ told' = Canned => input.type = "media"
         /\ told' = Gone => input.type \in {"interactive", "template_button"}
         /\ node = "subgraph_finalize" /\ draft.kind = "query" => fresh \/ dangling]_vars

\* filterTools, router, sendClientSummary: no road to a tool (intent, keyword, tap) asks Guacuco
\* for one the user's role does not have.
AskedIsAllowed ==
    told.text \in AtomicTools \cup {"send_client_summary"} => told.text \in getAvailableTools

\* confirm has no gate: among several upcoming appointments a request leaves only for the one
\* that the turn's message pointed at, the reminder tapped or the row picked, and a text never
\* chooses; the only one upcoming needs no pointing at (bootstrap, askSlot, commit).  Except in a
\* flow that outlived a turn that died.
NeverOneAmongSeveral ==
    [][node = "confirm_commit" /\ node' = "guacuco" =>
         dangling \/ draft.appt \in meant \/ crm = {draft.appt}]_vars

\* What compile.ts:582-585 and buttonShortcut.ts:110-112 say of a reminder tapped: when it leads to
\* no appointment the user is asked, and no other one is confirmed.  bootstrap.ts:69 confirms the
\* only upcoming one.
TapNeverElsewhere ==
    [][node = "confirm_commit" /\ node' = "guacuco" =>
         dangling \/ meant \subseteq {draft.appt}]_vars

\* commit, successResponse: "confirmed" is told only of what Guacuco did confirm, however often
\* the request was sent and whatever answers were lost.
ConfirmedIsTrue ==
    told.text \in Appts => told.text \in confirmed

\* routers and finalize (REGLAS 10.7): every message gets something to read.
NeverIgnored == told # Ignored

\* Every turn ends: no chain of nodes, retries or verdicts of the judge goes on for ever.
TurnEnds == node # "idle" ~> node = "idle"

\* How far a step of query is from the end of its turn: each road to a SQL is gone down once.
QueryRank(n, w) ==
    CASE n = "query_classify" -> 15
      [] n = "query_fetch" ->
           CASE w.at = "start"                              -> 14
             [] w.at = "generate" /\ w.why = "first"        -> 13
             [] w.at = "generate" /\ w.why = "drilldown"    -> 12
             [] w.at = "execute" /\ w.why \in {"first", "drilldown"} -> 11
             [] w.at = "generate" /\ w.why = "error"        -> 10
             [] w.at = "execute" /\ w.why = "error"         -> 9
             [] w.at = "judge"                              -> 8
             [] w.at = "generate" /\ w.why = "critique"     -> 7
             [] OTHER                                       -> 6
      [] n = "query_synthesize" ->
           CASE w.at = "start"      -> 5
             [] w.at = "judge_text" -> 4
             [] w.at = "retry_text" -> 3
             [] OTHER               -> 2

Rank ==
    CASE node = "idle"                     -> 0
      [] node \in {"query_classify", "query_fetch", "query_synthesize"} -> QueryRank(node, work)
      [] node = "supervisor_entry"         -> 18
      [] node = "classify_intent"          -> 17
      [] node = "subgraph_dispatch"        -> 16
      [] node = "confirm_bootstrap"        -> 6
      [] node = "confirm_ask_slot"         -> IF reply # NoMsg THEN 5 ELSE 2
      [] node = "confirm_commit"           -> 4
      [] node = "guacuco"                  -> 3
      [] node \in {"confirm_success", "elsewhere"} -> 2
      [] OTHER                             -> 1

\* The safety half of TurnEnds: every node, call to the LLM and SQL of a turn brings it nearer its
\* end, and only a message takes it up again (compile.ts, runFreeformSql, synthesizeResponse).
TurnShrinks == [][node # "idle" => Rank' < Rank \/ UNCHANGED <<turn, draft>>]_vars

=============================================================================
