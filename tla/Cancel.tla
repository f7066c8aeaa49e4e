------------------------------- MODULE Cancel -------------------------------
(***************************************************************************)
(* The cancel_appointment subgraph, run by webhook turns over one          *)
(* conversation thread.  A turn resolves the identity (with a snapshot of  *)
(* the upcoming appointments), looks at the thread's last checkpoint, and  *)
(* either resumes the node paused in interrupt() or enters the graph fresh;*)
(* it then walks the nodes, writing a checkpoint after each, until it      *)
(* pauses again or finalizes.  Turns of one thread are not serialised.     *)
(*                                                                         *)
(* External: the LangGraph checkpointer (last written checkpoint wins, a   *)
(* pause is attached to the checkpoint it interrupted), Guacuco's          *)
(* appointment book and idempotency table, and the user.                   *)
(***************************************************************************)
EXTENDS Naturals, FiniteSets

CONSTANTS
    Appts,          \* appointments of the client
    Runs,           \* webhook turns that may be in flight at once
    MAX_ATTEMPTS,   \* CANCEL_MAX_ATTEMPTS
    MaxKeys,        \* bound: intentUuids generated
    MaxFaults,      \* bound: crashes and failed checkpoint reads
    MaxEvents       \* bound: outside cancellations, thread and row expiries

NoAppt == "no appointment"
NoRun  == "no run"
NoKey  == 0
Keys   == 1..MaxKeys

ASSUME ConstantsOK ==
    /\ MAX_ATTEMPTS \in Nat \ {0} /\ MaxKeys \in Nat \ {0} /\ MaxFaults \in Nat /\ MaxEvents \in Nat
    /\ NoAppt \notin Appts /\ NoRun \notin Runs

VARIABLES
    ckpt,       \* the thread's last checkpoint
    runs,       \* the turns being processed
    booked,     \* Guacuco: the appointments not cancelled
    idem,       \* Guacuco: the idempotency table, by key
    asked,      \* history: the cancel requests sent to Guacuco
    cards,      \* history: the appointment each gate message named, by key
    told,       \* the outcome dispatched since the last message arrived
    nextKey,    \* the next fresh intentUuid
    faults,     \* faults so far
    events      \* outside events so far

vars == <<ckpt, runs, booked, idem, asked, cards, told, nextKey, faults, events>>

-----------------------------------------------------------------------------
(* The draft of the subgraph, and the messages of the user.                *)

Phases   == {"none", "collecting", "awaiting_confirmation", "committing", "done", "failed"}
Slots    == [status : {"empty", "guessed", "resolved"}, value : Appts \cup {NoAppt}]
Confirms == [key : Keys \cup {NoKey}, names : Appts \cup {NoAppt}]
Outcomes == [action : {"none", "no_upcomings", "handed_off", "error", "success"},
             names : Appts \cup {NoAppt}]
Drafts   == [phase : Phases, slot : Slots, confirmation : Confirms,
             attempts : Nat, terminalOutcome : Outcomes]

Outcome(o, a)  == [action |-> o, names |-> a]
NoOutcome      == Outcome("none", NoAppt)
EmptySlot      == [status |-> "empty", value |-> NoAppt]
Resolved(a)    == [status |-> "resolved", value |-> a]
Unconfirmed    == [key |-> NoKey, names |-> NoAppt]
NoDraft        == [phase |-> "none", slot |-> EmptySlot, confirmation |-> Unconfirmed,
                   attempts |-> 0, terminalOutcome |-> NoOutcome]

initialCancelDraftState == [NoDraft EXCEPT !.phase = "collecting"]

Messages == [kind : {"text", "media", "template", "pick"}, value : Appts \cup {NoAppt}, key : {NoKey}]
              \cup [kind : {"confirm", "deny"}, value : {NoAppt}, key : Keys]

Say(kind)      == [kind |-> kind, value |-> NoAppt, key |-> NoKey]
Pick(a)        == [kind |-> "pick", value |-> a, key |-> NoKey]
Template(a)    == [kind |-> "template", value |-> a, key |-> NoKey]
Tap(button, k) == [kind |-> button, value |-> NoAppt, key |-> k]

Nodes == {"idle", "resolve_thread", "supervisor", "cancel_bootstrap", "cancel_ask_slot",
          "cancel_build_confirm", "subgraph_gate", "cancel_commit", "guacuco",
          "cancel_success", "subgraph_finalize"}

Checkpoints == [paused : {"none", "cancel_ask_slot", "subgraph_gate"}, draft : Drafts,
                upcomings : SUBSET Appts, by : Runs \cup {NoRun}]
RunStates   == [node : Nodes, draft : Drafts, upcomings : SUBSET Appts,
                msg : Messages, reply : BOOLEAN]
IdemRows    == [status : {"none", "in_progress", "done"}, value : Appts \cup {NoAppt},
                result : {"none", "ok", "APPOINTMENT_ALREADY_CANCELLED",
                          "APPOINTMENT_NOT_FOUND", "BUSINESS_MISMATCH", "OTHER"}]
Tolds == Outcomes \cup [action : {"ignored", "unsupported", "placeholder", "other_intent",
                                  "asked", "gated"},
                        names : Appts \cup {NoAppt}]

NoRow      == [status |-> "none", value |-> NoAppt, result |-> "none"]
NoThread   == [paused |-> "none", draft |-> NoDraft, upcomings |-> {}, by |-> NoRun]
Idle       == [node |-> "idle", draft |-> NoDraft, upcomings |-> {},
               msg |-> Say("text"), reply |-> FALSE]

Init ==
    /\ ckpt = NoThread
    /\ runs = [r \in Runs |-> Idle]
    /\ booked = Appts
    /\ idem = [k \in Keys |-> NoRow]
    /\ asked = {}
    /\ cards = [k \in Keys |-> NoAppt]
    /\ told = NoOutcome
    /\ nextKey = 1
    /\ faults = 0
    /\ events = 0

\* isActiveDraft: the draft exists, has not failed and has no outcome pending.
IsActiveDraft(d) == d.phase \notin {"none", "failed"} /\ d.terminalOutcome = NoOutcome

\* The node of run r returned draft d: checkpoint it and go on to node n.  The
\* message is kept while a node ahead reads it, and in a commit as history.
Goto(r, d, n) ==
    /\ runs' = [runs EXCEPT ![r] =
         [node |-> n, draft |-> d, upcomings |-> runs[r].upcomings, reply |-> FALSE,
          msg |-> IF n \in {"supervisor", "cancel_commit"} THEN runs[r].msg ELSE Say("text")]]
    /\ ckpt' = [NoThread EXCEPT !.draft = d, !.by = r]

\* interrupt(): the pause is recorded on the run's own last checkpoint, which
\* a concurrent run may have superseded.  The identity channel is kept only
\* with a pause: a fresh entry overwrites it.
Interrupt(r, n) ==
    /\ ckpt' = IF ckpt.by = r THEN [ckpt EXCEPT !.paused = n, !.upcomings = runs[r].upcomings]
             ELSE ckpt
    /\ runs' = [runs EXCEPT ![r] = Idle]

Tell(o, a) == told' = Outcome(o, a)

-----------------------------------------------------------------------------
(* The pregraph.                                                           *)

\* What the user can send now: free text, an unsupported media, any row or
\* button already shown (they stay in the chat), a reminder's button.
Inbox ==
    {Say("text"), Say("media")}
      \cup {Pick(a) : a \in Appts}
      \cup {Template(a) : a \in Appts \cup {NoAppt}}
      \cup {Tap(b, k) : b \in {"confirm", "deny"}, k \in {k \in Keys : cards[k] # NoAppt}}

\* The bound leaves intentUuids enough for a whole flow.
KeysLeft == nextKey + MAX_ATTEMPTS <= MaxKeys

\* resolveIdentity brings the appointments upcoming at this moment.
Arrive(r) ==
    /\ runs[r].node = "idle"
    /\ ckpt.draft = NoDraft => KeysLeft
    /\ \E m \in Inbox :
         runs' = [runs EXCEPT ![r] = [Idle EXCEPT !.node = "resolve_thread",
                                                  !.upcomings = booked, !.msg = m]]
    /\ told' = NoOutcome
    /\ UNCHANGED <<ckpt, booked, idem, asked, cards, nextKey, faults, events>>

\* detectPendingInterrupts found a pause: Command(resume) re-enters the paused
\* node with the checkpoint's state, the snapshot of this turn unused.
Resume(r) ==
    /\ runs[r].node = "resolve_thread"
    /\ ckpt.paused # "none"
    /\ runs' = [runs EXCEPT ![r].node = ckpt.paused, ![r].draft = ckpt.draft,
                            ![r].upcomings = ckpt.upcomings, ![r].reply = TRUE]
    /\ UNCHANGED <<ckpt, booked, idem, asked, cards, told, nextKey, faults, events>>

\* No pause: the graph starts over at the supervisor; the channels the input
\* does not name, the draft among them, keep the checkpoint's values.
EnterFresh(r) ==
    /\ runs[r].node = "resolve_thread"
    /\ ckpt.paused = "none"
    /\ Goto(r, ckpt.draft, "supervisor")
    /\ UNCHANGED <<booked, idem, asked, cards, told, nextKey, faults, events>>

\* getState failed: the pause goes unseen and the turn enters fresh.
EnterBlind(r) ==
    /\ runs[r].node = "resolve_thread"
    /\ ckpt.paused # "none"
    /\ faults < MaxFaults
    /\ faults' = faults + 1
    /\ Goto(r, ckpt.draft, "supervisor")
    /\ UNCHANGED <<booked, idem, asked, cards, told, nextKey, events>>

\* supervisor_entry, classify_intent and subgraph_dispatch.
EndTurn(r, o) ==
    /\ Tell(o, NoAppt)
    /\ runs' = [runs EXCEPT ![r] = Idle]
    /\ ckpt' = [NoThread EXCEPT !.draft = runs[r].draft, !.by = r]

Supervisor(r) ==
    LET d == runs[r].draft
        m == runs[r].msg
    IN
    /\ runs[r].node = "supervisor"
    /\ \/ m.kind = "media" /\ EndTurn(r, "unsupported")
       \/ m.kind # "media" /\ d # NoDraft /\ Goto(r, d, "cancel_bootstrap") /\ UNCHANGED told
       \/ m.kind = "template" /\ d = NoDraft /\ UNCHANGED told
            /\ Goto(r, [initialCancelDraftState EXCEPT !.slot = Resolved(m.value)],
                    "cancel_bootstrap")
       \/ m.kind \in {"confirm", "deny"} /\ d = NoDraft /\ EndTurn(r, "placeholder")
       \/ m.kind \in {"text", "pick"} /\ d = NoDraft /\ UNCHANGED told
            /\ Goto(r, initialCancelDraftState, "cancel_bootstrap")
       \/ m.kind \in {"text", "pick"} /\ d = NoDraft /\ EndTurn(r, "other_intent")
    /\ UNCHANGED <<booked, idem, asked, cards, nextKey, faults, events>>

-----------------------------------------------------------------------------
(* The nodes of the subgraph, each with the router on its outgoing edge.   *)

\* Mutants of Failed: the outcome lands in the phase; no outcome at all.
FailedPhase(d, o)  == [d EXCEPT !.phase = o, !.terminalOutcome = Outcome(o, NoAppt)]
FailedSilent(d, o) == [d EXCEPT !.phase = "failed"]

Failed(d, o) == [d EXCEPT !.phase = "failed", !.terminalOutcome = Outcome(o, NoAppt)]

RouteAfterBootstrap(d) ==
    IF ~IsActiveDraft(d) THEN "subgraph_finalize"
    ELSE IF d.phase = "awaiting_confirmation" THEN "cancel_build_confirm"
    ELSE "cancel_ask_slot"

Bootstrapped(d, upcomings) ==
    IF d.slot.status = "resolved" /\ d.slot.value \in upcomings
      THEN {[d EXCEPT !.phase = "awaiting_confirmation"]}
    ELSE IF upcomings = {}
      THEN {Failed(d, "no_upcomings")}
    ELSE IF Cardinality(upcomings) = 1
      THEN {[d EXCEPT !.slot = Resolved(a), !.phase = "awaiting_confirmation"] : a \in upcomings}
    ELSE {[d EXCEPT !.phase = "collecting"]}

CancelBootstrap(r) ==
    /\ runs[r].node = "cancel_bootstrap"
    /\ \E d \in Bootstrapped(runs[r].draft, runs[r].upcomings) : Goto(r, d, RouteAfterBootstrap(d))
    /\ UNCHANGED <<booked, idem, asked, cards, told, nextKey, faults, events>>

\* askSlot on entry: the anti-loop guard, else the list of upcomings.
CancelAskSlot(r) ==
    LET d == runs[r].draft IN
    /\ runs[r].node = "cancel_ask_slot"
    /\ ~runs[r].reply
    /\ \/ /\ d.attempts >= MAX_ATTEMPTS
          /\ Goto(r, Failed(d, "handed_off"), "subgraph_finalize")
          /\ UNCHANGED told
       \/ /\ d.attempts < MAX_ATTEMPTS
          /\ Interrupt(r, "cancel_ask_slot")
          /\ Tell("asked", NoAppt)
    /\ UNCHANGED <<booked, idem, asked, cards, nextKey, faults, events>>

\* Mutant of Interpreted: a reply that is not understood is not counted.
InterpretedUncounted(d, m, upcomings) ==
    IF m.kind = "pick" /\ m.value \in upcomings
      THEN [d EXCEPT !.slot = Resolved(m.value), !.phase = "awaiting_confirmation"]
    ELSE d

\* interpretReply: a listed row resolves the slot, other text guesses it.
Interpreted(d, m, upcomings) ==
    LET counted == [d EXCEPT !.attempts = @ + 1] IN
    IF m.kind = "pick" /\ m.value \in upcomings
      THEN [counted EXCEPT !.slot = Resolved(m.value), !.phase = "awaiting_confirmation"]
    ELSE IF m.kind # "media"
      THEN [counted EXCEPT !.slot = [status |-> "guessed", value |-> NoAppt]]
    ELSE counted

CancelAskSlotResumed(r) ==
    LET d == Interpreted(runs[r].draft, runs[r].msg, runs[r].upcomings) IN
    /\ runs[r].node = "cancel_ask_slot"
    /\ runs[r].reply
    /\ Goto(r, d, IF d.phase = "awaiting_confirmation" THEN "cancel_build_confirm"
                  ELSE "cancel_ask_slot")
    /\ UNCHANGED <<booked, idem, asked, cards, told, nextKey, faults, events>>

\* Mutant of CancelBuildConfirm: the cached intentUuid under a new message.
BuildConfirmRenamed(r) ==
    LET d == runs[r].draft
        c == d.confirmation
    IN
    /\ runs[r].node = "cancel_build_confirm"
    /\ c.key = NoKey => nextKey <= MaxKeys
    /\ nextKey' = IF c.key = NoKey THEN nextKey + 1 ELSE nextKey
    /\ Goto(r, [d EXCEPT !.confirmation = [key |-> IF c.key = NoKey THEN nextKey ELSE c.key,
                                          names |-> d.slot.value]], "subgraph_gate")
    /\ UNCHANGED <<booked, idem, asked, cards, told, faults, events>>

\* A confirmation already in the draft is kept, message and intentUuid; without
\* a resolved slot there is nothing to build.
CancelBuildConfirm(r) ==
    LET d     == runs[r].draft
        build == d.confirmation.key = NoKey /\ d.slot.status = "resolved"
    IN
    /\ runs[r].node = "cancel_build_confirm"
    /\ build => nextKey <= MaxKeys
    /\ nextKey' = IF build THEN nextKey + 1 ELSE nextKey
    /\ Goto(r, IF build
               THEN [d EXCEPT !.confirmation = [key |-> nextKey, names |-> d.slot.value],
                              !.phase = "awaiting_confirmation"]
               ELSE d, "subgraph_gate")
    /\ UNCHANGED <<booked, idem, asked, cards, told, faults, events>>

\* runGateConfirm up to interrupt(): no_gate without a prepared confirmation.
CancelGate(r) ==
    LET c == runs[r].draft.confirmation IN
    /\ runs[r].node = "subgraph_gate"
    /\ ~runs[r].reply
    /\ IF c.key = NoKey
       THEN /\ Goto(r, Failed(runs[r].draft, "error"), "subgraph_finalize")
            /\ UNCHANGED <<cards, told>>
       ELSE /\ Interrupt(r, "subgraph_gate")
            /\ cards' = [cards EXCEPT ![c.key] = c.names]
            /\ Tell("gated", c.names)
    /\ UNCHANGED <<booked, idem, asked, nextKey, faults, events>>

\* Mutants of CancelGateResumed: any confirm button commits; No keeps the gate.
GateResumedAnyKey(r) ==
    LET d == runs[r].draft IN
    /\ runs[r].node = "subgraph_gate" /\ runs[r].reply
    /\ IF runs[r].msg.kind = "confirm"
       THEN Goto(r, [d EXCEPT !.phase = "committing"], "cancel_commit")
       ELSE Goto(r, [d EXCEPT !.confirmation = Unconfirmed, !.phase = "collecting"],
                 "cancel_ask_slot")
    /\ UNCHANGED <<booked, idem, asked, cards, told, nextKey, faults, events>>

GateResumedNoReset(r) ==
    LET d == runs[r].draft IN
    /\ runs[r].node = "subgraph_gate" /\ runs[r].reply
    /\ IF runs[r].msg = Tap("confirm", d.confirmation.key)
       THEN Goto(r, [d EXCEPT !.phase = "committing"], "cancel_commit")
       ELSE Goto(r, [d EXCEPT !.phase = "collecting"], "cancel_ask_slot")
    /\ UNCHANGED <<booked, idem, asked, cards, told, nextKey, faults, events>>

\* Only the exact confirm:<intentUuid> commits; anything else drops the gate.
CancelGateResumed(r) ==
    LET d == runs[r].draft IN
    /\ runs[r].node = "subgraph_gate"
    /\ runs[r].reply
    /\ IF runs[r].msg = Tap("confirm", d.confirmation.key)
       THEN Goto(r, [d EXCEPT !.phase = "committing"], "cancel_commit")
       ELSE Goto(r, [d EXCEPT !.confirmation = Unconfirmed, !.phase = "collecting"],
                 "cancel_ask_slot")
    /\ UNCHANGED <<booked, idem, asked, cards, told, nextKey, faults, events>>

\* commit: the request leaves for Guacuco under the intentUuid; it may be lost.
\* An unresolved slot (invariant_violated) or a missing key fails the draft.
CancelCommit(r) ==
    LET d == runs[r].draft
        k == d.confirmation.key
    IN
    /\ runs[r].node = "cancel_commit"
    /\ IF d.slot.status # "resolved" \/ k = NoKey
       THEN /\ Goto(r, Failed(d, "error"), "subgraph_finalize")
            /\ UNCHANGED <<asked, idem>>
       ELSE /\ asked' = asked \cup {[key |-> k, value |-> d.slot.value]}
            /\ runs' = [runs EXCEPT ![r].node = "guacuco"]
            /\ \/ UNCHANGED idem
               \/ /\ idem[k].status = "none"
                  /\ idem' = [idem EXCEPT ![k] = [NoRow EXCEPT !.status = "in_progress",
                                                               !.value = d.slot.value]]
            /\ UNCHANGED ckpt
    /\ UNCHANGED <<booked, cards, told, nextKey, faults, events>>

\* Mutant of Answers: no timeout on the call.
AnswersNoTimeout(k) ==
    IF idem[k].status = "done" THEN {idem[k].result}
    ELSE IF idem[k].status = "in_progress" THEN {"IDEMPOTENT_REQUEST_IN_PROGRESS"} ELSE {}

\* The HTTP call came back (or gave up, "net"): the stored result of the key,
\* or a 409, which the client throws as any HTTP error, while the key is still being executed.
Answers(k) ==
    {"net"} \cup (IF idem[k].status = "done" THEN {idem[k].result}
                  ELSE IF idem[k].status = "in_progress" THEN {"IDEMPOTENT_REQUEST_IN_PROGRESS"}
                  ELSE {})

\* Mutant of Committed: no answer is taken for an answer.
CommittedOptimist(d, answer) ==
    IF answer \in {"ok", "APPOINTMENT_ALREADY_CANCELLED", "net"} THEN [d EXCEPT !.phase = "done"]
    ELSE Failed(d, IF answer = "APPOINTMENT_NOT_FOUND" THEN "error" ELSE "handed_off")

Committed(d, answer) ==
    IF answer \in {"ok", "APPOINTMENT_ALREADY_CANCELLED"} THEN [d EXCEPT !.phase = "done"]
    ELSE Failed(d, IF answer \in {"APPOINTMENT_NOT_FOUND", "BUSINESS_MISMATCH",
                                  "IDEMPOTENT_REQUEST_IN_PROGRESS", "net"}
                   THEN "error" ELSE "handed_off")

CancelCommitAnswered(r) ==
    /\ runs[r].node = "guacuco"
    /\ \E answer \in Answers(runs[r].draft.confirmation.key) :
         LET d == Committed(runs[r].draft, answer)
         IN Goto(r, d, IF d.phase = "done" THEN "cancel_success" ELSE "subgraph_finalize")
    /\ UNCHANGED <<booked, idem, asked, cards, told, nextKey, faults, events>>

\* successResponse: the text names the appointment of the slot.
CancelSuccess(r) ==
    /\ runs[r].node = "cancel_success"
    /\ Goto(r, [runs[r].draft EXCEPT !.terminalOutcome = Outcome("success", runs[r].draft.slot.value)],
            "subgraph_finalize")
    /\ UNCHANGED <<booked, idem, asked, cards, told, nextKey, faults, events>>

\* The outcome goes out (ignored when there is none) and the draft is cleared.
Finalize(r) ==
    LET d == runs[r].draft IN
    /\ runs[r].node = "subgraph_finalize"
    /\ told' = IF d.terminalOutcome = NoOutcome THEN Outcome("ignored", NoAppt)
               ELSE d.terminalOutcome
    /\ runs' = [runs EXCEPT ![r] = Idle]
    /\ ckpt' = [NoThread EXCEPT !.by = r]
    /\ UNCHANGED <<booked, idem, asked, cards, nextKey, faults, events>>

-----------------------------------------------------------------------------
(* The environment.                                                        *)

\* Guacuco executes the request that holds the key: cancels, finds it already
\* cancelled, or refuses it.
GuacucoExecute(k) ==
    LET a == idem[k].value IN
    /\ idem[k].status = "in_progress"
    /\ \E res \in IF a \in booked THEN {"ok", "BUSINESS_MISMATCH", "OTHER"}
                  ELSE {"APPOINTMENT_ALREADY_CANCELLED", "APPOINTMENT_NOT_FOUND"} :
         /\ idem' = [idem EXCEPT ![k].status = "done", ![k].result = res]
         /\ booked' = IF res = "ok" THEN booked \ {a} ELSE booked
    /\ UNCHANGED <<ckpt, runs, asked, cards, told, nextKey, faults, events>>

\* The idempotency row outlives its ten minutes.
GuacucoForget(k) ==
    /\ idem[k].status = "done"
    /\ \A r \in Runs : runs[r].node # "guacuco"
    /\ events < MaxEvents
    /\ events' = events + 1
    /\ idem' = [idem EXCEPT ![k] = NoRow]
    /\ UNCHANGED <<ckpt, runs, booked, asked, cards, told, nextKey, faults>>

\* The salon, or the client by another channel, cancels an appointment.
CancelledElsewhere ==
    /\ \E a \in booked : booked' = booked \ {a}
    /\ events < MaxEvents
    /\ events' = events + 1
    /\ UNCHANGED <<ckpt, runs, idem, asked, cards, told, nextKey, faults>>

\* The thread outlives its TTL and is deleted (ThreadResolver or cleanup job).
Expire ==
    /\ KeysLeft
    /\ events < MaxEvents
    /\ events' = events + 1
    /\ ckpt' = NoThread
    /\ UNCHANGED <<runs, booked, idem, asked, cards, told, nextKey, faults>>

\* The process dies, or the checkpointer rejects a write, in the middle of a turn.
Crash(r) ==
    /\ runs[r].node # "idle"
    /\ faults < MaxFaults
    /\ faults' = faults + 1
    /\ runs' = [runs EXCEPT ![r] = Idle]
    /\ UNCHANGED <<ckpt, booked, idem, asked, cards, told, nextKey, events>>

-----------------------------------------------------------------------------
RunStep(r) ==
    \/ Resume(r) \/ EnterFresh(r) \/ Supervisor(r) \/ CancelBootstrap(r)
    \/ CancelAskSlot(r) \/ CancelAskSlotResumed(r) \/ CancelBuildConfirm(r)
    \/ CancelGate(r) \/ CancelGateResumed(r) \/ CancelCommit(r)
    \/ CancelCommitAnswered(r) \/ CancelSuccess(r) \/ Finalize(r)

Next ==
    \/ \E r \in Runs : Arrive(r) \/ RunStep(r) \/ EnterBlind(r) \/ Crash(r)
    \/ \E k \in Keys : GuacucoExecute(k) \/ GuacucoForget(k)
    \/ CancelledElsewhere
    \/ Expire

Spec == Init /\ [][Next]_vars

\* A turn in flight is always carried on, and Guacuco answers; the user of the
\* fair specification keeps writing to the bot.
FairSpec ==
    /\ Spec
    /\ \A r \in Runs : WF_vars(RunStep(r)) /\ WF_vars(Arrive(r))
    /\ \A k \in Keys : WF_vars(GuacucoExecute(k))

-----------------------------------------------------------------------------
(* Properties.                                                             *)

\* Every variable keeps its type.
TypeOK ==
    /\ ckpt \in Checkpoints
    /\ runs \in [Runs -> RunStates]
    /\ booked \subseteq Appts
    /\ idem \in [Keys -> IdemRows]
    /\ asked \subseteq [key : Keys, value : Appts \cup {NoAppt}]
    /\ cards \in [Keys -> Appts \cup {NoAppt}]
    /\ told \in Tolds
    /\ nextKey \in 1..(MaxKeys + 1)
    /\ faults \in 0..MaxFaults
    /\ events \in 0..MaxEvents

\* REGLAS 10.3: a cancel request is under way only in the turn whose message is
\* the tap on the confirm button of the very key the request carries, and that
\* button was shown.  Whatever crashes, resumes or interleaves, no other message
\* commits, nor does a turn that re-enters the flow.
CommitOnlyOnTap ==
    \A r \in Runs : runs[r].node \in {"cancel_commit", "guacuco"} =>
        LET k == runs[r].draft.confirmation.key IN
        /\ k # NoKey
        /\ runs[r].msg = Tap("confirm", k)
        /\ cards[k] # NoAppt

\* While no turn died: what Guacuco is asked to cancel under a key is what the
\* gate message with that key named to the user (gateConfirm, commit).  A turn
\* that dies leaves its confirmation in the draft, and with it this may fail, as
\* it does with two turns in flight.
CommitMatchesCard == faults = 0 => \A q \in asked : cards[q.key] = q.value

\* While no turn died: the bot says an appointment was cancelled only if it no
\* longer stands (commit, successResponse: done also on
\* APPOINTMENT_ALREADY_CANCELLED).
SuccessIsTrue == faults = 0 /\ told.action = "success" => told.names \notin booked

\* A flow that finalizes always has something to tell: no path of the subgraph
\* reaches finalize without a terminalOutcome, which the user would see as silence.
NeverSilent == told.action # "ignored"

\* The button a gate message carries stays bound to the appointment that message
\* named: no re-run, crash or concurrent turn shows another one under the same
\* intentUuid (buildConfirm, gateConfirm).
CardIsFixed == [][\A k \in Keys : cards[k] # NoAppt => cards'[k] = cards[k]]_cards

\* The confirmations a turn holds in memory or the checkpoint would give back.
Live == {runs[r].draft.confirmation : r \in Runs} \cup {ckpt.draft.confirmation}

\* Behind CardIsFixed: an intentUuid is never drawn twice, and all the copies of
\* a confirmation, in the checkpoint, in the turns that loaded it and on the
\* user's screen, name one appointment (buildConfirm, gateConfirm, reducer).
KeyNamesOneAppt ==
    /\ \A c \in Live : c.key < nextKey /\ (c.key # NoKey => c.names \in Appts)
    /\ \A c, e \in Live : c.key # NoKey /\ c.key = e.key => c.names = e.names
    /\ \A c \in Live : c.key # NoKey /\ cards[c.key] # NoAppt => cards[c.key] = c.names
    /\ \A k \in Keys : cards[k] # NoAppt => k < nextKey

\* A confirm tap in hand was on a button already shown, and the message is built
\* only for an appointment of the client: what CommitOnlyOnTap rests on.
TapsWereShown ==
    \A r \in Runs :
        /\ runs[r].msg.key # NoKey => cards[runs[r].msg.key] # NoAppt
        /\ runs[r].node = "cancel_build_confirm" =>
              runs[r].draft.slot.status = "resolved" /\ runs[r].draft.slot.value \in Appts

\* askSlot runs, or waits, only while the appointment is still to be chosen; and
\* a turn whose write is the last holds the draft it wrote.  (routeAfterCancelAskSlot
\* takes the phase awaiting_confirmation for a choice just made.)
AskingCollects ==
    /\ \A r \in Runs :
         /\ runs[r].node = "cancel_ask_slot" => runs[r].draft.phase # "awaiting_confirmation"
         /\ ckpt.by = r /\ runs[r].node \notin {"idle", "resolve_thread"} =>
              runs[r].draft = ckpt.draft
    /\ ckpt.paused = "cancel_ask_slot" => ckpt.draft.phase # "awaiting_confirmation"

\* REGLAS 10.7, the anti-loop guard: if the user keeps answering, whatever he
\* answers, the flow ends: the gate's No leads back through askSlot, whose
\* attempts are counted.  (While no turn dies: the draft of one that died is no
\* longer waiting, and media sent to it is answered without being counted.)
FlowEnds == ckpt.draft # NoDraft ~> ckpt.draft = NoDraft \/ faults > 0

\* How far a node is from the end of its turn.
Rank(run) == CASE run.node = "subgraph_finalize"                    -> 1
               [] run.node = "cancel_success"                       -> 2
               [] run.node \in {"cancel_build_confirm", "guacuco"}  -> 3
               [] run.node \in {"cancel_bootstrap", "cancel_commit"} -> 4
               [] run.node = "supervisor"                           -> 5
               [] run.node = "resolve_thread"                       -> 6
               [] run.node = "cancel_ask_slot"                      -> IF run.reply THEN 4 ELSE 2
               [] run.node = "subgraph_gate"                        -> IF run.reply THEN 5 ELSE 2
               [] OTHER                                             -> 0

\* The safety half of TurnEnds, for turns in any number, whatever crashes: each node a turn
\* runs brings that turn nearer its end, and no other turn undoes it (compile.ts).
TurnShrinks ==
    [][\A r \in Runs : runs[r].node # "idle" =>
          runs'[r] = runs[r] \/ Rank(runs'[r]) < Rank(runs[r])]_vars

\* Where the flow of r's thread stands: at the node r runs, else at the pause on record.
Place(n, waits, reply) ==
    CASE n = "subgraph_finalize"    -> 1
      [] n = "cancel_success"       -> 2
      [] n = "guacuco"              -> 3
      [] n = "cancel_commit"        -> 4
      [] n = "cancel_ask_slot"      -> IF reply THEN 5 ELSE IF waits THEN 6 ELSE 7
      [] n = "subgraph_gate"        -> IF reply THEN 8 ELSE IF waits THEN 9 ELSE 10
      [] n = "cancel_build_confirm" -> 11
      [] n = "cancel_bootstrap"     -> 12
      [] OTHER                      -> 13
InTurn(r) == runs[r].node \notin {"idle", "resolve_thread"}

Left(r) ==
    IF InTurn(r)
    THEN 10 * (MAX_ATTEMPTS - runs[r].draft.attempts) + Place(runs[r].node, FALSE, runs[r].reply)
    ELSE IF ckpt.paused # "none"
    THEN 10 * (MAX_ATTEMPTS - ckpt.draft.attempts) + Place(ckpt.paused, TRUE, FALSE)
    ELSE 0

\* The safety half of FlowEnds: while no turn dies, every step a turn takes brings the flow nearer
\* its end, whatever the user answers and whatever expires or is cancelled meanwhile; a "No" at
\* the gate is paid for at the next question (askSlot: attempts).
FlowShrinks ==
    [][faults' = 0 => \A r \in Runs : Left(r) # 0 =>
          IF RunStep(r) THEN Left(r)' < Left(r) ELSE Left(r)' \in {0, Left(r)}]_vars

\* A turn taken up is always finished, or dies: every cycle of the graph passes
\* through an interrupt.
TurnEnds == \A r \in Runs : runs[r].node # "idle" ~> runs[r].node = "idle" \/ faults > 0

=============================================================================
