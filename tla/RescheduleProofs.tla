-------------------------- MODULE RescheduleProofs --------------------------
(***************************************************************************)
(* Theorems about Reschedule, for every calendar, every set of intentUuids *)
(* and every bound: types, the tap behind every commit, the truth of what  *)
(* is told, the refinement of GatedCommit, the single retry, the slots the *)
(* gate offers.  The invariants come in layers, each proved on top of the  *)
(* ones before.                                                            *)
(***************************************************************************)
EXTENDS Reschedule, SequenceTheorems, TLAPS

-----------------------------------------------------------------------------
(* Types.                                                                  *)

Nodes == {"idle", "supervisor", "reschedule_bootstrap", "reschedule_ask_slot",
          "reschedule_validate", "reschedule_present", "reschedule_build_confirm",
          "subgraph_gate", "reschedule_commit", "guacuco", "reschedule_success",
          "subgraph_finalize"}
Pauses == {"none", "reschedule_ask_slot", "reschedule_present", "subgraph_gate"}
Kinds    == {"media", "text", "pick", "template", "slot_pick", "confirm", "deny"}
Results  == {"none", "ok", "STAFF_NOT_AVAILABLE", "BUSINESS_MISMATCH", "APPOINTMENT_NOT_FOUND",
             "APPOINTMENT_NOT_ACTIVE", "OTHER"}
Replies  == Results \cup {"net", "IDEMPOTENT_REQUEST_IN_PROGRESS"}
Messages == [kind : Kinds, appt : Appts \cup {None}, idx : Nat, key : Keys \cup {None},
             date : Dates \cup {None}, time : Times \cup {None}]
Outcomes == [action : Actions, names : Requests \cup {NoRequest}]
IdemRows == [status : {"none", "in_progress", "done"}, result : Results]

\* Where the draft's confirmation is used, and those an edge leads to without it.
Sending == {"guacuco", "reschedule_success"}
Others  == Nodes \ Sending

\* What TypeOK leaves unsaid; the number of options, which bounds the rows shown; a request is
\* only made of slots with a value.
Types ==
    /\ TypeOK
    /\ msg \in Messages /\ resumed \in BOOLEAN
    /\ told \in Outcomes /\ idem \in [Keys -> IdemRows] /\ refused \in Nat
    /\ DOMAIN draft.proposed \subseteq 1..MaxOptions
    /\ node \in Sending => draft.key \in Keys /\ AllResolved(draft)

LEMMA OutcomeType ==
    NoOutcome \in Outcomes /\ \A o \in Actions : Outcome(o, NoRequest) \in Outcomes
  BY DEF NoOutcome, Outcome, Outcomes, Actions

LEMMA NoProposals == <<>> \in Seq(Places)
  OBVIOUS

LEMMA NoDraftType == NoDraft \in Drafts /\ NoDraft.proposed = <<>>
  BY OutcomeType DEF NoDraft, Drafts, Phases, SlotOf, Statuses, Empty, Outcomes

LEMMA InitialType ==
    initialRescheduleDraftState \in Drafts /\ initialRescheduleDraftState.proposed = <<>>
  <1>1. initialRescheduleDraftState \in Drafts
    BY NoDraftType DEF initialRescheduleDraftState, Drafts, Phases
  <1>2. initialRescheduleDraftState.proposed = <<>>
    BY NoDraftType DEF initialRescheduleDraftState, NoDraft
  <1> QED  BY <1>1, <1>2

LEMMA MsgType == \A k \in Kinds : Msg(k) \in Messages
  BY DEF Kinds, Msg, Messages

LEMMA ReadType ==
    ASSUME NEW m \in Messages, NEW d \in Dates \cup {None}, NEW t \in Times \cup {None}
    PROVE  Read(m, d, t) \in Messages
  BY DEF Messages, Read

LEMMA InboxType ==
    ASSUME Types
    PROVE  Inbox \subseteq Messages
  <1> SUFFICES ASSUME NEW m \in Inbox PROVE m \in Messages
    OBVIOUS
  <1>1. CASE m = Msg("media")
    BY <1>1, MsgType DEF Kinds
  <1>2. CASE \E d \in Dates \cup {None}, t \in Times \cup {None} : m = Read(Msg("text"), d, t)
    BY <1>2, MsgType, ReadType DEF Kinds
  <1>3. CASE \E k \in {"pick", "template"}, a \in Appts : m = [Msg(k) EXCEPT !.appt = a]
    BY <1>3, MsgType DEF Kinds, Messages
  <1>4. CASE \E r \in rows : m = Read([Msg("slot_pick") EXCEPT !.idx = r[1]], r[2][1], r[2][2])
    <2> PICK r \in rows : m = Read([Msg("slot_pick") EXCEPT !.idx = r[1]], r[2][1], r[2][2])
      BY <1>4
    <2>1. r \in (1..MaxOptions) \X (Dates \X Times)
      BY DEF Types, TypeOK, Places
    <2>2. ASSUME NEW i \in Nat PROVE [Msg("slot_pick") EXCEPT !.idx = i] \in Messages
      BY MsgType DEF Kinds, Messages
    <2> QED  BY <2>1, <2>2, ReadType, ConstantsOK DEF ConstantsOK
  <1>5. CASE \E b \in {"confirm", "deny"}, k \in Keys : m = Tap(b, k)
    BY <1>5, MsgType DEF Kinds, Messages, Tap
  <1> QED  BY <1>1, <1>2, <1>3, <1>4, <1>5 DEF Inbox

-----------------------------------------------------------------------------
(* What the nodes make of a draft is a draft, and the slots it proposes are *)
(* those it proposed before, or none.                                      *)

SlotShapes == \A S : /\ Empty \in SlotOf(S)
                     /\ \A v \in S : Resolved(v) \in SlotOf(S)
                     /\ \A v \in S \cup {None} : Parsed(v) \in SlotOf(S)

LEMMA SlotType == SlotShapes
  BY DEF SlotShapes, Resolved, Parsed, Empty, SlotOf, Statuses

LEMMA FailedType ==
    ASSUME NEW d \in Drafts, NEW o \in Actions
    PROVE  Failed(d, o) \in Drafts /\ Failed(d, o).proposed = d.proposed
  <1>1. Outcome(o, NoRequest) \in [action : Actions, names : Requests \cup {NoRequest}]
    BY DEF Outcome
  <1> QED  BY <1>1 DEF Failed, Drafts, Phases

LEMMA PhaseType ==
    ASSUME NEW d \in Drafts, NEW ph \in Phases
    PROVE  [d EXCEPT !.phase = ph] \in Drafts /\ [d EXCEPT !.phase = ph].proposed = d.proposed
  BY DEF Drafts

LEMMA KeyType ==
    ASSUME NEW d \in Drafts, NEW ph \in Phases, NEW k \in Keys \cup {None}
    PROVE  /\ [d EXCEPT !.key = k, !.phase = ph] \in Drafts
           /\ [d EXCEPT !.key = k, !.phase = ph].proposed = d.proposed
  BY DEF Drafts

LEMMA ProposedType ==
    ASSUME NEW d \in Drafts, NEW ph \in Phases, NEW p \in Seq(Places)
    PROVE  /\ [d EXCEPT !.proposed = p, !.phase = ph] \in Drafts
           /\ [d EXCEPT !.proposed = p, !.phase = ph].proposed = p
  BY DEF Drafts

LEMMA SuccessType ==
    ASSUME NEW d \in Drafts, NEW q \in Requests \cup {NoRequest}
    PROVE  /\ [d EXCEPT !.terminalOutcome = Outcome("success", q)] \in Drafts
           /\ [d EXCEPT !.terminalOutcome = Outcome("success", q)].proposed = d.proposed
  <1>1. Outcome("success", q) \in [action : Actions, names : Requests \cup {NoRequest}]
    BY DEF Outcome, Actions
  <1> QED  BY <1>1 DEF Drafts

\* An appointment chosen, its day and hour forgotten.
Chosen(d, a) == [d EXCEPT !.appt = Resolved(a), !.newDate = Empty, !.newTime = Empty,
                          !.phase = "collecting"]

LEMMA ChosenType ==
    ASSUME NEW d \in Drafts, NEW a \in Appts
    PROVE  Chosen(d, a) \in Drafts /\ Chosen(d, a).proposed = d.proposed
  <1>1. Resolved(a) \in SlotOf(Appts) /\ Empty \in SlotOf(Dates) /\ Empty \in SlotOf(Times)
    BY SlotType DEF SlotShapes
  <1> QED  BY <1>1 DEF Chosen, Drafts, Phases

LEMMA BootstrappedType ==
    ASSUME NEW d \in Drafts, NEW U \in SUBSET Appts, NEW e \in Bootstrapped(d, U)
    PROVE  e \in Drafts /\ e.proposed = d.proposed
  <1>1. CASE \E a \in U : e = Chosen(d, a)
    BY <1>1, ChosenType
  <1>2. CASE e = Failed(d, "no_upcomings")
    BY <1>2, FailedType DEF Actions
  <1>3. CASE e = [d EXCEPT !.phase = "collecting"]
    BY <1>3, PhaseType DEF Phases
  <1> QED  BY <1>1, <1>2, <1>3 DEF Bootstrapped, Chosen

LEMMA InterpretedProposed ==
    ASSUME NEW d \in Drafts, NEW m \in Messages, NEW U \in SUBSET Appts
    PROVE  Interpreted(d, m, U).proposed = d.proposed
  BY DEF Interpreted, Drafts

LEMMA InterpretedType ==
    ASSUME NEW d \in Drafts, NEW m \in Messages, NEW U \in SUBSET Appts
    PROVE  Interpreted(d, m, U) \in Drafts /\ Interpreted(d, m, U).proposed = d.proposed
  <1> DEFINE e == [d EXCEPT !.attempts = @ + 1]
  <1>1. e \in Drafts
    BY DEF Drafts
  <1>2. e.newTime \in SlotOf(Times) /\ m.date \in Dates \cup {None} /\ m.time \in Times \cup {None}
    BY <1>1 DEF Drafts, Messages
  <1>3. /\ Parsed(m.date) \in SlotOf(Dates) /\ Parsed(m.time) \in SlotOf(Times)
        /\ Parsed(None) \in SlotOf(Appts)
    BY <1>2, SlotType DEF SlotShapes
  <1>4. [e EXCEPT !.appt = Parsed(None)] \in Drafts
    BY <1>1, <1>3 DEF Drafts
  <1>5. \A t \in SlotOf(Times) :
           [e EXCEPT !.newDate = Parsed(m.date), !.newTime = t, !.phase = "collecting"] \in Drafts
    BY <1>1, <1>3 DEF Drafts, Phases
  <1>6. Interpreted(d, m, U) \in Drafts
    <2>1. CASE m.kind = "media"
      BY <2>1, <1>1 DEF Interpreted
    <2>2. CASE m.kind # "media" /\ ~Has(d.appt)
      <3>1. \A a \in Appts : Chosen(e, a) \in Drafts
        BY <1>1, ChosenType
      <3> QED  BY <2>2, <3>1, <1>4 DEF Interpreted, Chosen
    <2>3. CASE m.kind # "media" /\ Has(d.appt)
      <3>1. (IF m.time = None /\ m.date # None THEN e.newTime ELSE Parsed(m.time)) \in SlotOf(Times)
        BY <1>2, <1>3
      <3> QED  BY <2>3, <3>1, <1>5 DEF Interpreted
    <2> QED  BY <2>1, <2>2, <2>3
  <1>7. Interpreted(d, m, U).proposed = d.proposed
    BY InterpretedProposed
  <1> QED  BY <1>6, <1>7

\* Another day and hour, the options forgotten.
Moved(d, x, y, ph) == [d EXCEPT !.newDate = x, !.newTime = y, !.proposed = <<>>, !.phase = ph]

LEMMA MovedType ==
    ASSUME NEW d \in Drafts, NEW x \in SlotOf(Dates), NEW y \in SlotOf(Times), NEW ph \in Phases
    PROVE  Moved(d, x, y, ph) \in Drafts /\ Moved(d, x, y, ph).proposed = <<>>
  <1>1. Moved(d, x, y, ph) \in Drafts
    BY NoProposals DEF Moved, Drafts
  <1>2. Moved(d, x, y, ph).proposed = <<>>
    BY DEF Moved, Drafts
  <1> QED  BY <1>1, <1>2

LEMMA PickedType ==
    ASSUME NEW d \in Drafts, NEW m \in Messages
    PROVE  Picked(d, m) \in Drafts /\ Picked(d, m).proposed \in {d.proposed, <<>>}
  <1>2. CASE m.kind = "slot_pick" /\ m.idx \in DOMAIN d.proposed
    <2>1. d.proposed \in Seq(Places)
      BY DEF Drafts
    <2>2. d.proposed[m.idx] \in Dates \X Times
      BY <1>2, <2>1 DEF Places
    <2>3. /\ Resolved(d.proposed[m.idx][1]) \in SlotOf(Dates)
          /\ Resolved(d.proposed[m.idx][2]) \in SlotOf(Times)
      BY <2>2, SlotType DEF SlotShapes
    <2>4. Picked(d, m) = Moved(d, Resolved(d.proposed[m.idx][1]), Resolved(d.proposed[m.idx][2]),
                               "awaiting_confirmation")
      BY <1>2 DEF Picked, Moved
    <2>5. "awaiting_confirmation" \in Phases
      BY DEF Phases
    <2> QED  BY MovedType, <2>3, <2>4, <2>5
  <1>3. CASE m.kind = "media"
    BY <1>3, PhaseType DEF Picked, Phases
  <1>4. CASE ~(m.kind = "slot_pick" /\ m.idx \in DOMAIN d.proposed) /\ m.kind # "media"
    <2>1. d.newTime \in SlotOf(Times) /\ m.date \in Dates \cup {None} /\ m.time \in Times \cup {None}
      BY DEF Drafts, Messages
    <2>2. /\ Parsed(m.date) \in SlotOf(Dates)
          /\ (IF m.time = None THEN d.newTime ELSE Resolved(m.time)) \in SlotOf(Times)
      BY <2>1, SlotType DEF SlotShapes
    <2>3. Parsed(m.date) \in SlotOf(Dates)
      BY <2>2
    <2>4. PICK t \in SlotOf(Times) : t = IF m.time = None THEN d.newTime ELSE Resolved(m.time)
      BY <2>2
    <2>5. Picked(d, m) = Moved(d, Parsed(m.date), t, "collecting")
      BY <1>4, <2>4 DEF Picked, Moved, Drafts
    <2>6. "collecting" \in Phases
      BY DEF Phases
    <2> QED  BY MovedType, <2>3, <2>5, <2>6
  <1> QED  BY <1>2, <1>3, <1>4

LEMMA CommittedType ==
    ASSUME NEW d \in Drafts, NEW answer \in Replies
    PROVE  Committed(d, answer) \in Drafts /\ Committed(d, answer).proposed \in {d.proposed, <<>>}
  <1> DEFINE e == [d EXCEPT !.proposed = <<>>, !.key = None, !.retried = TRUE,
                            !.phase = "validating_availability"]
  <1>1. e \in Drafts /\ e.proposed = <<>>
    <2>1. e \in Drafts
      BY NoProposals DEF Drafts, Phases
    <2>2. e.proposed = <<>>
      BY DEF Drafts
    <2> QED  BY <2>1, <2>2
  <1>2. \A o \in {"error", "handed_off"} : Failed(d, o) \in Drafts /\ Failed(d, o).proposed = d.proposed
    BY FailedType DEF Actions
  <1>3. [d EXCEPT !.phase = "done"] \in Drafts /\ [d EXCEPT !.phase = "done"].proposed = d.proposed
    BY PhaseType DEF Phases
  <1> QED  BY <1>1, <1>2, <1>3 DEF Committed

-----------------------------------------------------------------------------
(* Types is inductive.                                                     *)

LEMMA ProposalsType ==
    ASSUME free \subseteq Places, NEW p \in Proposals
    PROVE  p \in Seq(Places) /\ DOMAIN p \subseteq 1..MaxOptions
  <1>1. PICK n \in 0..MaxOptions : p \in [1..n -> free]
    BY DEF Proposals
  <1>2. n \in Nat /\ n <= MaxOptions
    BY ConstantsOK DEF ConstantsOK
  <1>3. p \in Seq(free)
    BY <1>1, <1>2
  <1> QED  BY <1>1, <1>2, <1>3, ConstantsOK DEF ConstantsOK

LEMMA RequestType ==
    ASSUME NEW d \in Drafts, AllResolved(d)
    PROVE  Request(d) \in Requests /\ <<d.newDate.value, d.newTime.value>> \in Places
  <1>1. d.appt \in SlotOf(Appts) /\ d.newDate \in SlotOf(Dates) /\ d.newTime \in SlotOf(Times)
    BY DEF Drafts
  <1>2. d.appt.value \in Appts /\ d.newDate.value \in Dates /\ d.newTime.value \in Times
    BY <1>1 DEF AllResolved, Has, SlotOf
  <1> QED  BY <1>2 DEF Request, Requests, Places

\* A node that only returns a draft and leads on.
LEMMA GotoTypes ==
    ASSUME Types, NEW d \in Drafts, NEW n \in Others, Goto(d, n),
           DOMAIN d.proposed \subseteq 1..MaxOptions, refused' \in Nat,
           UNCHANGED <<guacuco, cards, asked, rows, told>>
    PROVE  Types'
  BY DEF Types, TypeOK, Goto, Others, Nodes, Sending, guacuco

\* A node that pauses.
LEMMA InterruptTypes ==
    ASSUME Types, NEW n \in Pauses, Interrupt(n), told' \in Outcomes,
           rows' \subseteq (1..MaxOptions) \X Places, UNCHANGED <<guacuco, history>>
    PROVE  Types'
  <1>1. msg' \in Messages
    BY MsgType DEF Interrupt, Kinds
  <1> QED  BY <1>1 DEF Types, TypeOK, Interrupt, guacuco, history, Pauses, Sending

LEMMA InitTypes == Init => Types
  <1> SUFFICES ASSUME Init PROVE Types
    OBVIOUS
  <1>1. draft \in Drafts /\ DOMAIN draft.proposed \subseteq 1..MaxOptions
    BY NoDraftType DEF Init
  <1>2. msg \in Messages /\ told \in Outcomes
    BY MsgType, OutcomeType DEF Init, Kinds
  <1>3. idem \in [Keys -> IdemRows]
    BY DEF Init, NoRow, IdemRows, Results
  <1> QED  BY <1>1, <1>2, <1>3 DEF Init, Types, TypeOK, Sending

LEMMA ArriveTypes == Types /\ Arrive => Types'
  <1> SUFFICES ASSUME Types, Arrive PROVE Types'
    OBVIOUS
  <1>1. msg' \in Messages /\ told' \in Outcomes
    BY InboxType, OutcomeType DEF Arrive
  <1>2. upcomings' \subseteq Appts /\ resumed' \in BOOLEAN
    BY DEF Arrive, Types, TypeOK, Upcoming
  <1>3. node' \in Others
    BY DEF Arrive, Types, TypeOK, Others, Nodes, Sending
  <1> QED  BY <1>1, <1>2, <1>3 DEF Arrive, Types, TypeOK, Others, Nodes, guacuco

LEMMA SupervisorTypes == Types /\ Supervisor => Types'
  <1> SUFFICES ASSUME Types, Supervisor PROVE Types'
    OBVIOUS
  <1> DEFINE start == IF msg.kind = "template"
                      THEN [initialRescheduleDraftState EXCEPT !.appt = Resolved(msg.appt)]
                      ELSE initialRescheduleDraftState
  <1>0. "reschedule_bootstrap" \in Others
    BY DEF Others, Nodes, Sending
  <1>1. CASE Goto(draft, "reschedule_bootstrap") /\ UNCHANGED told
    BY <1>0, <1>1, GotoTypes DEF Supervisor, Types, TypeOK, history
  <1>2. CASE Goto(start, "reschedule_bootstrap") /\ UNCHANGED told
    <2>1. Resolved(msg.appt) \in SlotOf(Appts)
      BY DEF Resolved, SlotOf, Statuses, Types, Messages
    <2>2. start \in Drafts /\ start.proposed = <<>>
      BY <2>1, InitialType DEF Drafts
    <2>3. DOMAIN start.proposed \subseteq 1..MaxOptions
      BY <2>2
    <2>4. refused' \in Nat /\ UNCHANGED <<guacuco, cards, asked, rows, told>>
      BY <1>2 DEF Supervisor, Types, history
    <2> HIDE DEF start
    <2> QED  BY <1>2, <2>2, <2>3, <1>0, <2>4, GotoTypes
  <1>3. CASE /\ told' = Outcome("other", NoRequest)
             /\ node' = "idle" /\ msg' = Msg("media") /\ UNCHANGED <<resumed, thread>>
    <2>1. msg' \in Messages /\ told' \in Outcomes
      BY <1>3, MsgType, OutcomeType DEF Kinds, Actions
    <2> QED  BY <1>3, <2>1 DEF Supervisor, Types, TypeOK, thread, guacuco, history, Sending
  <1> QED  BY <1>1, <1>2, <1>3 DEF Supervisor

LEMMA AskTypes ==
    Types /\ (RescheduleBootstrap \/ RescheduleAskSlot \/ RescheduleAskSlotResumed) => Types'
  <1> SUFFICES ASSUME Types, RescheduleBootstrap \/ RescheduleAskSlot \/ RescheduleAskSlotResumed
               PROVE  Types'
    OBVIOUS
  <1> USE DEF history
  <1>1. draft \in Drafts /\ upcomings \in SUBSET Appts /\ msg \in Messages /\ refused \in Nat
        /\ DOMAIN draft.proposed \subseteq 1..MaxOptions
    BY DEF Types, TypeOK
  <1>2. \A d : DecideAfterCollecting(d) \in Others
    BY DEF DecideAfterCollecting, Others, Nodes, Sending
  <1>3. CASE RescheduleBootstrap
    <2>1. PICK d \in Bootstrapped(draft, upcomings) : Goto(d, DecideAfterCollecting(d))
      BY <1>3 DEF RescheduleBootstrap
    <2>2. d \in Drafts /\ d.proposed = draft.proposed
      BY <1>1, <2>1, BootstrappedType
    <2> QED  BY <1>1, <1>2, <1>3, <2>1, <2>2, GotoTypes DEF RescheduleBootstrap
  <1>4. CASE RescheduleAskSlot
    <2>1. CASE Interrupt("reschedule_ask_slot")
      <3>1. told' \in Outcomes \/ UNCHANGED told
        BY <1>4, OutcomeType DEF RescheduleAskSlot, Actions
      <3>2. told' \in Outcomes /\ rows' \subseteq (1..MaxOptions) \X Places
        BY <1>4, <3>1 DEF RescheduleAskSlot, Types, TypeOK
      <3> QED  BY <1>4, <2>1, <3>2, InterruptTypes DEF RescheduleAskSlot, Pauses
    <2>2. CASE ~Interrupt("reschedule_ask_slot")
      <3> DEFINE d == IF draft.attempts >= MAX_ATTEMPTS THEN Failed(draft, "handed_off")
                      ELSE [draft EXCEPT !.phase = "validating_availability"]
      <3>1. d \in Drafts /\ d.proposed = draft.proposed
        BY <1>1, FailedType, PhaseType DEF Actions, Phases
      <3>2. Goto(d, DecideAfterCollecting(d)) /\ UNCHANGED <<guacuco, history, rows, told, events>>
        BY <1>4, <2>2 DEF RescheduleAskSlot
      <3> QED  BY <1>1, <1>2, <3>1, <3>2, GotoTypes
    <2> QED  BY <2>1, <2>2
  <1>5. CASE RescheduleAskSlotResumed
    <2> DEFINE d == Interpreted(draft, msg, upcomings)
    <2>1. d \in Drafts /\ d.proposed = draft.proposed
      BY <1>1, InterpretedType
    <2> QED  BY <1>1, <1>2, <1>5, <2>1, GotoTypes DEF RescheduleAskSlotResumed
  <1> QED  BY <1>3, <1>4, <1>5

LEMMA ValidateTypes == Types /\ RescheduleValidate => Types'
  <1> SUFFICES ASSUME Types, RescheduleValidate PROVE Types'
    OBVIOUS
  <1>1. draft \in Drafts /\ DOMAIN draft.proposed \subseteq 1..MaxOptions /\ free \subseteq Places
    BY DEF Types, TypeOK
  <1>2. refused' \in Nat /\ UNCHANGED <<guacuco, cards, asked, rows, told>>
    BY DEF RescheduleValidate, Types
  <1>3. {"subgraph_finalize", "reschedule_build_confirm", "reschedule_present"} \subseteq Others
    BY DEF Others, Nodes, Sending
  <1>4. CASE Goto([draft EXCEPT !.phase = "collecting"], "subgraph_finalize")
    BY <1>1, <1>2, <1>3, <1>4, GotoTypes, PhaseType DEF Phases
  <1>5. CASE Goto(Failed(draft, "error"), "subgraph_finalize")
    BY <1>1, <1>2, <1>3, <1>5, GotoTypes, FailedType DEF Actions
  <1>6. CASE \E p \in Proposals \cup {<<>>}, ph \in Phases, n \in Others :
               Goto([draft EXCEPT !.proposed = p, !.phase = ph], n)
    <2>1. PICK p \in Proposals \cup {<<>>}, ph \in Phases, n \in Others :
                 Goto([draft EXCEPT !.proposed = p, !.phase = ph], n)
      BY <1>6
    <2>2. p \in Seq(Places) /\ DOMAIN p \subseteq 1..MaxOptions
      <3>1. CASE p \in Proposals
        BY <1>1, <3>1, ProposalsType
      <3>2. CASE p = <<>>
        BY <3>2, NoProposals
      <3> QED  BY <3>1, <3>2
    <2> DEFINE d == [draft EXCEPT !.proposed = p, !.phase = ph]
    <2>3. d \in Drafts /\ d.proposed = p
      <3>1. draft \in Drafts /\ p \in Seq(Places)
        BY <1>1, <2>2
      <3>2. d \in Drafts
        BY <3>1, ProposedType
      <3>3. d.proposed = p
        BY <3>1 DEF Drafts
      <3> QED  BY <3>2, <3>3
    <2>4. Goto(d, n)
      BY <2>1
    <2> HIDE DEF d
    <2> QED  BY <1>2, <2>2, <2>3, <2>4, GotoTypes
  <1>7. "awaiting_confirmation" \in Phases /\ "awaiting_pick" \in Phases
    BY DEF Phases
  <1> QED  BY <1>3, <1>4, <1>5, <1>6, <1>7 DEF RescheduleValidate

LEMMA PresentTypes == Types /\ (ReschedulePresent \/ ReschedulePresentResumed) => Types'
  <1> SUFFICES ASSUME Types, ReschedulePresent \/ ReschedulePresentResumed PROVE Types'
    OBVIOUS
  <1> USE DEF history
  <1>1. draft \in Drafts /\ msg \in Messages /\ DOMAIN draft.proposed \subseteq 1..MaxOptions
        /\ draft.proposed \in Seq(Places) /\ rows \subseteq (1..MaxOptions) \X Places
    BY DEF Types, TypeOK, Drafts
  <1>2. CASE ReschedulePresent /\ draft.proposed = <<>>
    <2>1. Goto(Failed(draft, "handed_off"), "subgraph_finalize")
          /\ UNCHANGED <<guacuco, history, rows, told, events>>
      BY <1>2 DEF ReschedulePresent
    <2>2. "subgraph_finalize" \in Others /\ refused' \in Nat
      BY <2>1 DEF Others, Nodes, Sending, Types
    <2> QED  BY <1>1, <2>1, <2>2, FailedType, GotoTypes DEF Actions
  <1>3. CASE ReschedulePresent /\ draft.proposed # <<>>
    <2>1. /\ Interrupt("reschedule_present")
          /\ rows' = rows \cup {<<i, draft.proposed[i]>> : i \in DOMAIN draft.proposed}
          /\ told' = Outcome("proposed", NoRequest)
          /\ UNCHANGED <<guacuco, history, events>>
      BY <1>3 DEF ReschedulePresent
    <2>2. rows' \subseteq (1..MaxOptions) \X Places
      BY <1>1, <2>1
    <2>3. told' \in Outcomes /\ "reschedule_present" \in Pauses
      BY <2>1, OutcomeType DEF Actions, Pauses
    <2> QED  BY <2>1, <2>2, <2>3, InterruptTypes
  <1>4. CASE ReschedulePresentResumed
    <2> DEFINE d == Picked(draft, msg)
    <2>1. d \in Drafts /\ d.proposed \in {draft.proposed, <<>>}
      BY <1>1, PickedType
    <2>2. Goto(d, RouteAfterPresent(d)) /\ UNCHANGED <<guacuco, history, rows, told, events>>
      BY <1>4 DEF ReschedulePresentResumed
    <2>3. RouteAfterPresent(d) \in Others /\ refused' \in Nat
      BY <2>2 DEF RouteAfterPresent, Others, Nodes, Sending, Types
    <2>4. DOMAIN d.proposed \subseteq 1..MaxOptions
      BY <1>1, <2>1
    <2> QED  BY <2>1, <2>2, <2>3, <2>4, GotoTypes
  <1> QED  BY <1>2, <1>3, <1>4

LEMMA GateTypes ==
    Types /\ (RescheduleBuildConfirm \/ RescheduleGate \/ RescheduleGateResumed) => Types'
  <1> SUFFICES ASSUME Types, RescheduleBuildConfirm \/ RescheduleGate \/ RescheduleGateResumed
               PROVE  Types'
    OBVIOUS
  <1>1. draft \in Drafts /\ DOMAIN draft.proposed \subseteq 1..MaxOptions /\ refused \in Nat
    BY DEF Types, TypeOK
  <1>2. {"subgraph_finalize", "subgraph_gate", "reschedule_commit", "reschedule_ask_slot"}
          \subseteq Others
    BY DEF Others, Nodes, Sending
  <1>3. {"awaiting_confirmation", "committing", "collecting"} \subseteq Phases
    BY DEF Phases
  <1>4. CASE RescheduleBuildConfirm /\ draft.key = None /\ AllResolved(draft)
    <2>1. PICK k \in Keys :
            /\ Goto([draft EXCEPT !.key = k, !.phase = "awaiting_confirmation"], "subgraph_gate")
            /\ cards' = [cards EXCEPT ![k] = Request(draft)]
            /\ asked' = [asked EXCEPT ![k] = NoRequest]
            /\ idem' = [idem EXCEPT ![k] = NoRow]
      BY <1>4 DEF RescheduleBuildConfirm
    <2>2. UNCHANGED <<free, at, refused, rows, told>>
      BY <1>4 DEF RescheduleBuildConfirm
    <2>3. draft' \in Drafts /\ draft'.proposed = draft.proposed
      BY <1>1, <1>3, <2>1, KeyType DEF Goto
    <2>4. NoRow \in IdemRows /\ Request(draft) \in Requests
      BY <1>1, <1>4, RequestType DEF NoRow, IdemRows, Results
    <2>5. idem' \in [Keys -> IdemRows] /\ cards' \in [Keys -> Requests \cup {NoRequest}]
          /\ asked' \in [Keys -> Requests \cup {NoRequest}]
      BY <2>1, <2>4 DEF Types, TypeOK
    <2> QED  BY <2>1, <2>2, <2>3, <2>5 DEF Types, TypeOK, Goto, Sending
  <1>5. CASE RescheduleBuildConfirm /\ ~(draft.key = None /\ AllResolved(draft))
    BY <1>1, <1>2, <1>5, GotoTypes DEF RescheduleBuildConfirm, guacuco
  <1>6. CASE RescheduleGate /\ draft.key = None
    <2>1. Goto(Failed(draft, "error"), "subgraph_finalize")
          /\ UNCHANGED <<guacuco, history, rows, told, events>>
      BY <1>6 DEF RescheduleGate
    <2> QED  BY <1>1, <1>2, <2>1, FailedType, GotoTypes DEF Actions, history
  <1>7. CASE RescheduleGate /\ draft.key # None
    <2>1. Interrupt("subgraph_gate") /\ told' = Outcome("gated", cards[draft.key])
          /\ UNCHANGED <<guacuco, history, rows, events>>
      BY <1>7 DEF RescheduleGate
    <2>2. cards[draft.key] \in Requests \cup {NoRequest}
      BY <1>1, <1>7 DEF Drafts, Types, TypeOK
    <2>3. told' \in Outcomes
      BY <2>1, <2>2 DEF Outcome, Outcomes, Actions
    <2> QED  BY <2>1, <2>3, InterruptTypes DEF Pauses, Types, TypeOK
  <1>8. CASE RescheduleGateResumed
    <2>1. UNCHANGED <<guacuco, cards, asked, rows, told, refused>>
      BY <1>8 DEF RescheduleGateResumed, history
    <2>2. CASE Goto([draft EXCEPT !.phase = "committing"], "reschedule_commit")
      BY <1>1, <1>2, <1>3, <2>1, <2>2, PhaseType, GotoTypes
    <2>3. CASE Goto([draft EXCEPT !.key = None, !.phase = "collecting"], "reschedule_ask_slot")
      BY <1>1, <1>2, <1>3, <2>1, <2>3, KeyType, GotoTypes
    <2> QED  BY <1>8, <2>2, <2>3 DEF RescheduleGateResumed
  <1> QED  BY <1>4, <1>5, <1>6, <1>7, <1>8

LEMMA CommitTypes ==
    Types /\ (RescheduleCommit \/ RescheduleCommitAnswered \/ RescheduleSuccess) => Types'
  <1> SUFFICES ASSUME Types, RescheduleCommit \/ RescheduleCommitAnswered \/ RescheduleSuccess
               PROVE  Types'
    OBVIOUS
  <1>1. draft \in Drafts /\ DOMAIN draft.proposed \subseteq 1..MaxOptions /\ refused \in Nat
        /\ idem \in [Keys -> IdemRows]
    BY DEF Types, TypeOK
  <1>2. {"subgraph_finalize", "reschedule_validate"} \subseteq Others
    BY DEF Others, Nodes, Sending
  <1>3. CASE RescheduleCommit /\ (~AllResolved(draft) \/ draft.key = None)
    <2>1. Goto(Failed(draft, "error"), "subgraph_finalize")
          /\ UNCHANGED <<guacuco, cards, asked, rows, told, refused>>
      BY <1>3 DEF RescheduleCommit, guacuco
    <2> QED  BY <1>1, <1>2, <2>1, FailedType, GotoTypes DEF Actions
  <1>4. CASE RescheduleCommit /\ AllResolved(draft) /\ draft.key # None
    <2>1. draft.key \in Keys /\ Request(draft) \in Requests
      BY <1>1, <1>4, RequestType DEF Drafts
    <2>2. asked' \in [Keys -> Requests \cup {NoRequest}]
      BY <1>4, <2>1 DEF RescheduleCommit, Types, TypeOK
    <2>3. idem' \in [Keys -> IdemRows]
      BY <1>1, <1>4, <2>1 DEF RescheduleCommit, IdemRows
    <2>4. AllResolved(draft)'
      BY <1>4 DEF RescheduleCommit, thread, AllResolved
    <2> QED  BY <1>4, <2>1, <2>2, <2>3, <2>4 DEF RescheduleCommit, Types, TypeOK, thread
  <1>5. CASE RescheduleCommitAnswered
    <2>1. PICK answer \in Answers(draft.key) :
            /\ Goto(Committed(draft, answer), RouteAfterCommit(Committed(draft, answer)))
            /\ refused' = IF answer = "STAFF_NOT_AVAILABLE" THEN refused + 1 ELSE refused
      BY <1>5 DEF RescheduleCommitAnswered
    <2> DEFINE d == Committed(draft, answer)
    <2>2. draft.key \in Keys /\ AllResolved(draft)
      BY <1>5 DEF RescheduleCommitAnswered, Types, Sending
    <2>3. answer \in Replies
      BY <1>1, <2>2 DEF Answers, Replies, Results, IdemRows
    <2>4. d \in Drafts /\ d.proposed \in {draft.proposed, <<>>}
      BY <1>1, <2>3, CommittedType
    <2>5. refused' \in Nat /\ UNCHANGED <<guacuco, cards, asked, rows, told>>
      BY <1>1, <1>5, <2>1 DEF RescheduleCommitAnswered
    <2>6. DOMAIN d.proposed \subseteq 1..MaxOptions
      BY <1>1, <2>4
    <2>7. CASE answer = "ok"
      <3>1. d.key = draft.key /\ AllResolved(d)
        BY <1>1, <2>2, <2>7 DEF Committed, AllResolved, Drafts
      <3>2. RouteAfterCommit(d) \in Nodes \ {"guacuco"}
        BY DEF RouteAfterCommit, Nodes
      <3> HIDE DEF d
      <3> QED  BY <2>1, <2>2, <2>4, <2>5, <2>6, <3>1, <3>2 DEF d, Types, TypeOK, Goto, Nodes, guacuco
    <2>8. CASE answer # "ok"
      <3>1. \/ d = [draft EXCEPT !.proposed = <<>>, !.key = None, !.retried = TRUE,
                                 !.phase = "validating_availability"]
            \/ \E o \in {"error", "handed_off"} : d = Failed(draft, o)
        BY <2>8 DEF Committed
      <3>2. d.phase \in {"validating_availability", "failed"}
        BY <1>1, <3>1 DEF Failed, Drafts
      <3>3. RouteAfterCommit(d) \in Others
        BY <1>2, <3>2 DEF RouteAfterCommit, IsActiveDraft
      <3> HIDE DEF d
      <3> QED  BY <2>1, <2>4, <2>5, <2>6, <3>3, GotoTypes DEF d
    <2> QED  BY <2>7, <2>8
  <1>6. CASE RescheduleSuccess
    <2> DEFINE d == [draft EXCEPT !.terminalOutcome = Outcome("success", Request(draft))]
    <2>1. Request(draft) \in Requests
      BY <1>1, <1>6, RequestType DEF RescheduleSuccess, Types, Sending
    <2>2. d \in Drafts /\ d.proposed = draft.proposed
      BY <1>1, <2>1, SuccessType
    <2>3. Goto(d, "subgraph_finalize") /\ UNCHANGED <<guacuco, cards, asked, rows, told, refused>>
      BY <1>6 DEF RescheduleSuccess, history
    <2> HIDE DEF d
    <2> QED  BY <1>1, <1>2, <2>2, <2>3, GotoTypes
  <1> QED  BY <1>3, <1>4, <1>5, <1>6

LEMMA FinalizeTypes == Types /\ Finalize => Types'
  <1> SUFFICES ASSUME Types, Finalize PROVE Types'
    OBVIOUS
  <1>1. told' \in Outcomes
    <2>1. draft.terminalOutcome \in Outcomes
      BY DEF Types, TypeOK, Drafts, Outcomes
    <2> QED  BY <2>1, OutcomeType DEF Finalize, Actions
  <1>2. draft' \in Drafts /\ DOMAIN draft'.proposed \subseteq 1..MaxOptions /\ msg' \in Messages
    BY NoDraftType, MsgType DEF Finalize, Kinds
  <1> QED  BY <1>1, <1>2 DEF Finalize, Types, TypeOK, guacuco, Sending

LEMMA OutsideTypes ==
    Types /\ ((\E k \in Keys : GuacucoExecute(k)) \/ TakenElsewhere \/ CancelledElsewhere) => Types'
  <1> SUFFICES ASSUME Types,
                      (\E k \in Keys : GuacucoExecute(k)) \/ TakenElsewhere \/ CancelledElsewhere
               PROVE  Types'
    OBVIOUS
  <1>1. UNCHANGED <<node, resumed, msg, draft, paused, upcomings, cards, asked, refused, rows, told>>
    BY DEF GuacucoExecute, TakenElsewhere, CancelledElsewhere, turn, thread, history
  <1>2. free' \subseteq Places /\ at' \in [Appts -> Places \cup {Elsewhere, Cancelled}]
        /\ idem' \in [Keys -> IdemRows]
    <2>1. CASE \E k \in Keys : GuacucoExecute(k)
      <3>1. PICK k \in Keys : GuacucoExecute(k)
        BY <2>1
      <3> DEFINE place == <<asked[k].date, asked[k].time>>
      <3>2. PICK res \in Results :
              /\ idem' = [idem EXCEPT ![k] = [status |-> "done", result |-> res]]
              /\ IF res = "ok" THEN /\ at' = [at EXCEPT ![asked[k].appt] = place]
                                    /\ free' = (free \ {place}) \cup ({at[asked[k].appt]} \cap Places)
                                    /\ place \in free
                 ELSE UNCHANGED <<at, free>>
        BY <3>1 DEF GuacucoExecute, Results
      <3>3. idem' \in [Keys -> IdemRows]
        BY <3>2 DEF Types, IdemRows
      <3>4. CASE res = "ok"
        <4>1. place \in Places
          BY <3>2, <3>4 DEF Types, TypeOK
        <4>2. at' \in [Appts -> Places \cup {Elsewhere, Cancelled}]
          BY <3>2, <3>4, <4>1 DEF Types, TypeOK
        <4> QED  BY <3>2, <3>3, <3>4, <4>2 DEF Types, TypeOK
      <3> QED  BY <3>2, <3>3, <3>4 DEF Types, TypeOK
    <2>2. CASE TakenElsewhere
      BY <2>2 DEF TakenElsewhere, Types, TypeOK
    <2>3. CASE CancelledElsewhere
      BY <2>3 DEF CancelledElsewhere, Types, TypeOK
    <2> QED  BY <2>1, <2>2, <2>3
  <1>3. AllResolved(draft)' <=> AllResolved(draft)
    BY <1>1 DEF AllResolved
  <1> QED  BY <1>1, <1>2, <1>3 DEF Types, TypeOK

LEMMA StutterTypes == Types /\ UNCHANGED vars => Types'
  BY DEF Types, TypeOK, vars, turn, thread, guacuco, history, AllResolved

LEMMA TypesStep == Types /\ [Next]_vars => Types'
  BY ArriveTypes, SupervisorTypes, AskTypes, ValidateTypes, PresentTypes, GateTypes, CommitTypes,
     FinalizeTypes, OutsideTypes, StutterTypes DEF Next, TurnStep

\* Types holds in every reachable state.
THEOREM TypesHold == Spec => []Types
  BY InitTypes, TypesStep, PTL DEF Spec

\* Every variable keeps its type, whatever the calendar and the number of appointments, options
\* and events.
THEOREM TypeCorrect == Spec => []TypeOK
  <1>1. Types => TypeOK
    BY DEF Types
  <1> QED  BY <1>1, TypesHold, PTL

-----------------------------------------------------------------------------
(* The confirmation in the draft: where it is, and what it says.           *)

Holding == {"subgraph_gate", "reschedule_commit", "guacuco", "reschedule_success",
            "subgraph_finalize"}

Bound     == draft.key # None => AllResolved(draft) /\ cards[draft.key] = Request(draft)
KeyAtGate == draft.key # None => node \in Holding \/ (node = "idle" /\ paused = "subgraph_gate")
Waiting   == /\ paused # "none" => node = "idle" \/ (node = paused /\ resumed)
             /\ node = "idle" /\ paused = "none" => draft = NoDraft
             /\ node = "supervisor" => draft = NoDraft /\ paused = "none"
Tapped    == node = "reschedule_commit" => msg = Tap("confirm", draft.key)

\* Together they are inductive on top of Types.
FlowInv == Bound /\ KeyAtGate /\ Waiting /\ Tapped

LEMMA NoDraftKey == NoDraft.key = None /\ initialRescheduleDraftState.key = None
  BY DEF NoDraft, initialRescheduleDraftState

LEMMA KeepsKey ==
    ASSUME NEW d \in Drafts
    PROVE  /\ \A o : Failed(d, o).key = d.key
           /\ \A ph : [d EXCEPT !.phase = ph].key = d.key
           /\ \A p, ph : [d EXCEPT !.proposed = p, !.phase = ph].key = d.key
           /\ \A m : Picked(d, m).key = d.key
  <1>1. \A o : Failed(d, o).key = d.key
    BY DEF Failed, Drafts
  <1>2. \A ph : [d EXCEPT !.phase = ph].key = d.key
    BY DEF Drafts
  <1>3. \A p, ph : [d EXCEPT !.proposed = p, !.phase = ph].key = d.key
    BY DEF Drafts
  <1>4. \A m : Picked(d, m).key = d.key
    BY DEF Picked, Drafts
  <1> QED  BY <1>1, <1>2, <1>3, <1>4

LEMMA CollectingKeepsKey ==
    ASSUME NEW d \in Drafts
    PROVE  /\ \A m, U : Interpreted(d, m, U).key = d.key
           /\ \A U : \A e \in Bootstrapped(d, U) : e.key = d.key
  <1>1. \A m, U : Interpreted(d, m, U).key = d.key
    BY DEF Interpreted, Drafts
  <1>2. ASSUME NEW U, NEW e \in Bootstrapped(d, U)
        PROVE  e.key = d.key
    <2>1. CASE \E a : e = Chosen(d, a)
      BY <2>1 DEF Chosen, Drafts
    <2>2. CASE e = Failed(d, "no_upcomings")
      BY <2>2, KeepsKey
    <2>3. CASE e = [d EXCEPT !.phase = "collecting"]
      BY <2>3 DEF Drafts
    <2> QED  BY <1>2, <2>1, <2>2, <2>3 DEF Bootstrapped, Chosen
  <1> QED  BY <1>1, <1>2

LEMMA GotoFlow ==
    ASSUME NEW d, NEW n, Goto(d, n), d.key = None, n \notin {"idle", "supervisor", "reschedule_commit"}
    PROVE  FlowInv'
  BY DEF Goto, FlowInv, Bound, KeyAtGate, Waiting, Tapped

LEMMA InterruptFlow ==
    ASSUME NEW n \in Pauses \ {"none"}, Interrupt(n), UNCHANGED cards,
           draft.key = None \/ (n = "subgraph_gate" /\ Bound)
    PROVE  FlowInv'
  BY DEF Interrupt, Pauses, FlowInv, Bound, KeyAtGate, Waiting, Tapped, AllResolved, Request

LEMMA InitFlow == Init => FlowInv
  BY NoDraftKey DEF Init, FlowInv, Bound, KeyAtGate, Waiting, Tapped

LEMMA ArriveFlow == Types /\ FlowInv /\ Arrive => FlowInv'
  <1> SUFFICES ASSUME Types, FlowInv, Arrive PROVE FlowInv'
    OBVIOUS
  <1>1. UNCHANGED <<draft, paused, cards>>
    BY DEF Arrive
  <1>2. Bound'
    BY <1>1 DEF FlowInv, Bound, AllResolved, Request
  <1>3. paused \in Pauses /\ node = "idle"
    BY DEF Types, TypeOK, Pauses, Arrive
  <1> QED  BY <1>1, <1>2, <1>3, NoDraftKey
           DEF Arrive, FlowInv, KeyAtGate, Waiting, Tapped, Pauses, Holding

LEMMA CollectFlow ==
    ASSUME Types, FlowInv,
           \/ Supervisor \/ RescheduleBootstrap \/ RescheduleAskSlot \/ RescheduleAskSlotResumed
           \/ RescheduleValidate \/ ReschedulePresent \/ ReschedulePresentResumed
    PROVE  FlowInv'
  <1>1. draft \in Drafts /\ draft.key = None
    BY DEF Types, TypeOK, FlowInv, KeyAtGate, Holding, Supervisor, RescheduleBootstrap,
           RescheduleAskSlot, RescheduleAskSlotResumed, RescheduleValidate, ReschedulePresent,
           ReschedulePresentResumed
  <1>2. CASE Supervisor
    <2>0. draft = NoDraft /\ paused = "none"
      BY <1>2 DEF Supervisor, FlowInv, Waiting
    <2>1. CASE \E d : Goto(d, "reschedule_bootstrap") /\ d.key = None
      BY <2>1, GotoFlow
    <2>2. CASE node' = "idle" /\ UNCHANGED thread
      BY <1>1, <2>0, <2>2 DEF FlowInv, Bound, KeyAtGate, Waiting, Tapped, thread
    <2>3. [initialRescheduleDraftState EXCEPT !.appt = Resolved(msg.appt)].key = None
      BY InitialType, NoDraftKey DEF Drafts
    <2> QED  BY <1>1, <1>2, <2>1, <2>2, <2>3, NoDraftKey DEF Supervisor
  <1>3. \A d : DecideAfterCollecting(d) \notin {"idle", "supervisor", "reschedule_commit"}
    BY DEF DecideAfterCollecting
  <1>4. CASE RescheduleBootstrap
    BY <1>1, <1>3, <1>4, CollectingKeepsKey, GotoFlow DEF RescheduleBootstrap
  <1>5. CASE RescheduleAskSlot
    <2>1. CASE Interrupt("reschedule_ask_slot")
      BY <1>1, <1>5, <2>1, InterruptFlow DEF RescheduleAskSlot, history, Pauses
    <2>2. CASE ~Interrupt("reschedule_ask_slot")
      BY <1>1, <1>3, <1>5, <2>2, KeepsKey, GotoFlow DEF RescheduleAskSlot
    <2> QED  BY <2>1, <2>2
  <1>6. CASE RescheduleAskSlotResumed
    BY <1>1, <1>3, <1>6, CollectingKeepsKey, GotoFlow DEF RescheduleAskSlotResumed
  <1>7. CASE RescheduleValidate
    <2>1. CASE Goto([draft EXCEPT !.phase = "collecting"], "subgraph_finalize")
      <3> DEFINE d == [draft EXCEPT !.phase = "collecting"]
      <3>1. d.key = None
        BY <1>1 DEF Drafts
      <3>2. Goto(d, "subgraph_finalize")
        BY <2>1
      <3> HIDE DEF d
      <3> QED  BY <3>1, <3>2, GotoFlow
    <2>2. CASE Goto(Failed(draft, "error"), "subgraph_finalize")
      BY <1>1, <2>2, KeepsKey, GotoFlow
    <2>3. CASE \E p, ph : \E n \in {"reschedule_build_confirm", "reschedule_present"} :
                 Goto([draft EXCEPT !.proposed = p, !.phase = ph], n)
      BY <1>1, <2>3, KeepsKey, GotoFlow
    <2> QED  BY <1>7, <2>1, <2>2, <2>3 DEF RescheduleValidate
  <1>8. CASE ReschedulePresent
    <2>1. CASE Interrupt("reschedule_present")
      BY <1>1, <1>8, <2>1, InterruptFlow DEF ReschedulePresent, history, Pauses
    <2>2. CASE ~Interrupt("reschedule_present")
      BY <1>1, <1>8, <2>2, KeepsKey, GotoFlow DEF ReschedulePresent
    <2> QED  BY <2>1, <2>2
  <1>9. CASE ReschedulePresentResumed
    <2>1. \A d : RouteAfterPresent(d) \notin {"idle", "supervisor", "reschedule_commit"}
      BY DEF RouteAfterPresent
    <2> QED  BY <1>1, <1>9, <2>1, KeepsKey, GotoFlow DEF ReschedulePresentResumed
  <1> QED  BY <1>2, <1>4, <1>5, <1>6, <1>7, <1>8, <1>9

\* From the gate on the draft keeps its slots and its confirmation, or loses the latter.
LEMMA HoldingFlow ==
    ASSUME Types, FlowInv, NEW d, NEW n \in Holding \ {"reschedule_commit"}, Goto(d, n),
           UNCHANGED cards,
           d.key = draft.key, d.appt = draft.appt, d.newDate = draft.newDate, d.newTime = draft.newTime
    PROVE  FlowInv'
  BY DEF Goto, Holding, FlowInv, Bound, KeyAtGate, Waiting, Tapped, AllResolved, Request

LEMMA KeepsSlots ==
    ASSUME NEW d \in Drafts
    PROVE  /\ \A o, t : LET e == [d EXCEPT !.phase = o, !.terminalOutcome = t] IN
                 e.key = d.key /\ e.appt = d.appt /\ e.newDate = d.newDate /\ e.newTime = d.newTime
           /\ \A ph : LET e == [d EXCEPT !.phase = ph] IN
                 e.key = d.key /\ e.appt = d.appt /\ e.newDate = d.newDate /\ e.newTime = d.newTime
           /\ \A t : LET e == [d EXCEPT !.terminalOutcome = t] IN
                 e.key = d.key /\ e.appt = d.appt /\ e.newDate = d.newDate /\ e.newTime = d.newTime
  BY DEF Drafts

LEMMA GateFlow ==
    ASSUME Types, FlowInv, RescheduleBuildConfirm \/ RescheduleGate \/ RescheduleGateResumed
    PROVE  FlowInv'
  <1>1. draft \in Drafts /\ cards \in [Keys -> Requests \cup {NoRequest}]
    BY DEF Types, TypeOK
  <1>2. CASE RescheduleBuildConfirm
    <2>1. draft.key = None
      BY <1>2 DEF RescheduleBuildConfirm, FlowInv, KeyAtGate, Holding
    <2>2. CASE AllResolved(draft)
      <3>1. PICK k \in Keys :
              /\ Goto([draft EXCEPT !.key = k, !.phase = "awaiting_confirmation"], "subgraph_gate")
              /\ cards' = [cards EXCEPT ![k] = Request(draft)]
        BY <1>2, <2>1, <2>2 DEF RescheduleBuildConfirm
      <3>2. /\ draft'.key = k /\ draft'.appt = draft.appt /\ draft'.newDate = draft.newDate
            /\ draft'.newTime = draft.newTime
        BY <1>1, <3>1 DEF Goto, Drafts
      <3>3. Bound'
        BY <1>1, <2>2, <3>1, <3>2 DEF Bound, AllResolved, Request
      <3> QED  BY <3>1, <3>2, <3>3 DEF Goto, FlowInv, KeyAtGate, Waiting, Tapped, Holding
    <2>3. CASE ~AllResolved(draft)
      BY <1>2, <2>1, <2>3, GotoFlow DEF RescheduleBuildConfirm
    <2> QED  BY <2>2, <2>3
  <1>3. CASE RescheduleGate
    <2>1. CASE draft.key = None
      BY <1>1, <1>3, <2>1, KeepsKey, GotoFlow DEF RescheduleGate
    <2>2. CASE draft.key # None
      BY <1>3, <2>2, InterruptFlow DEF RescheduleGate, history, Pauses, FlowInv
    <2> QED  BY <2>1, <2>2
  <1>4. CASE RescheduleGateResumed
    <2>1. CASE msg = Tap("confirm", draft.key)
      <3>1. Goto([draft EXCEPT !.phase = "committing"], "reschedule_commit") /\ UNCHANGED cards
        BY <1>4, <2>1 DEF RescheduleGateResumed, history
      <3>2. /\ draft'.key = draft.key /\ draft'.appt = draft.appt
            /\ draft'.newDate = draft.newDate /\ draft'.newTime = draft.newTime
        BY <1>1, <3>1, KeepsSlots DEF Goto
      <3> QED  BY <2>1, <3>1, <3>2 DEF Goto, Holding, FlowInv, Bound, KeyAtGate, Waiting, Tapped,
                                   AllResolved, Request
    <2>2. CASE msg # Tap("confirm", draft.key)
      <3> DEFINE d == [draft EXCEPT !.key = None, !.phase = "collecting"]
      <3>1. d.key = None
        BY <1>1 DEF Drafts
      <3>2. Goto(d, "reschedule_ask_slot")
        BY <1>4, <2>2 DEF RescheduleGateResumed
      <3> HIDE DEF d
      <3> QED  BY <3>1, <3>2, GotoFlow
    <2> QED  BY <2>1, <2>2
  <1> QED  BY <1>2, <1>3, <1>4

LEMMA CommitFlow ==
    ASSUME Types, FlowInv, RescheduleCommit \/ RescheduleCommitAnswered \/ RescheduleSuccess
    PROVE  FlowInv'
  <1>1. draft \in Drafts
    BY DEF Types, TypeOK
  <1>2. \A o : LET e == Failed(draft, o) IN
           e.key = draft.key /\ e.appt = draft.appt /\ e.newDate = draft.newDate
             /\ e.newTime = draft.newTime
    BY <1>1, KeepsSlots DEF Failed
  <1>3. CASE RescheduleCommit
    <2>1. CASE Goto(Failed(draft, "error"), "subgraph_finalize")
      BY <1>2, <1>3, <2>1, HoldingFlow DEF RescheduleCommit, Holding
    <2>2. CASE node' = "guacuco" /\ UNCHANGED <<resumed, msg, thread>>
      <3>1. UNCHANGED <<msg, draft, paused, resumed, cards>> /\ node' = "guacuco" /\ paused = "none"
        BY <1>3, <2>2 DEF RescheduleCommit, thread, FlowInv, Waiting, Types, TypeOK
      <3>2. Bound'
        BY <3>1 DEF FlowInv, Bound, AllResolved, Request
      <3> QED  BY <3>1, <3>2 DEF Holding, FlowInv, KeyAtGate, Waiting, Tapped
    <2> QED  BY <1>3, <2>1, <2>2 DEF RescheduleCommit
  <1>4. CASE RescheduleCommitAnswered
    <2>1. PICK answer : LET d == Committed(draft, answer) IN Goto(d, RouteAfterCommit(d))
      BY <1>4 DEF RescheduleCommitAnswered
    <2> DEFINE d == Committed(draft, answer)
    <2>2. UNCHANGED cards
      BY <1>4 DEF RescheduleCommitAnswered
    <2>3. CASE answer = "ok" \/ (\E o : d = Failed(draft, o))
      <3>1. /\ d.key = draft.key /\ d.appt = draft.appt /\ d.newDate = draft.newDate
            /\ d.newTime = draft.newTime
        <4>1. CASE answer = "ok"
          BY <1>1, <4>1, KeepsSlots DEF Committed
        <4>2. CASE \E o : d = Failed(draft, o)
          BY <1>2, <4>2
        <4> QED  BY <2>3, <4>1, <4>2
      <3>2. d.phase \in {"done", "failed"}
        BY <1>1, <2>3 DEF Committed, Failed, Drafts
      <3>3. RouteAfterCommit(d) \in Holding \ {"reschedule_commit"}
        BY <3>2 DEF RouteAfterCommit, Holding
      <3> HIDE DEF d
      <3> QED  BY <2>1, <2>2, <3>1, <3>3, HoldingFlow DEF d
    <2>4. CASE ~(answer = "ok" \/ (\E o : d = Failed(draft, o)))
      <3>1. d.key = None
        BY <1>1, <2>4 DEF Committed, Drafts
      <3>2. RouteAfterCommit(d) \notin {"idle", "supervisor", "reschedule_commit"}
        BY DEF RouteAfterCommit
      <3> HIDE DEF d
      <3> QED  BY <2>1, <3>1, <3>2, GotoFlow DEF d
    <2> QED  BY <2>3, <2>4
  <1>5. CASE RescheduleSuccess
    BY <1>1, <1>5, KeepsSlots, HoldingFlow DEF RescheduleSuccess, history, Holding
  <1> QED  BY <1>3, <1>4, <1>5

LEMMA FinalizeFlow == Finalize => FlowInv'
  BY NoDraftKey DEF Finalize, FlowInv, Bound, KeyAtGate, Waiting, Tapped

LEMMA OutsideFlow ==
    ASSUME FlowInv,
           \/ \E k \in Keys : GuacucoExecute(k)
           \/ TakenElsewhere \/ CancelledElsewhere \/ UNCHANGED vars
    PROVE  FlowInv'
  <1>1. UNCHANGED <<node, resumed, msg, draft, paused, cards>>
    BY DEF GuacucoExecute, TakenElsewhere, CancelledElsewhere, turn, thread, history, vars
  <1> QED  BY <1>1 DEF FlowInv, Bound, KeyAtGate, Waiting, Tapped, AllResolved, Request

LEMMA FlowStep == Types /\ FlowInv /\ [Next]_vars => FlowInv'
  BY ArriveFlow, CollectFlow, GateFlow, CommitFlow, FinalizeFlow, OutsideFlow DEF Next, TurnStep

\* The draft's confirmation is only where the nodes from the gate on are, and is of its own slots.
THEOREM FlowHolds == Spec => [](Types /\ FlowInv)
  BY InitTypes, TypesStep, InitFlow, FlowStep, PTL DEF Spec

\* A request leaves only in the turn whose message taps the button of its own intentUuid.
THEOREM CommitNeedsTap == Spec => CommitOnlyOnTap
  <1>1. FlowInv => (node = "reschedule_commit" /\ node' = "guacuco" => msg = Tap("confirm", draft.key))
    BY DEF FlowInv, Tapped
  <1> QED  BY <1>1, FlowHolds, PTL DEF CommitOnlyOnTap

-----------------------------------------------------------------------------
(* What Guacuco was asked.                                                 *)

SentIsDraft == node = "guacuco" => asked[draft.key] = Request(draft)
RowsAsked   == \A k \in Keys : idem[k].status # "none" => asked[k] \in Requests
AskedInv    == CommitMatchesCard /\ SentIsDraft /\ RowsAsked

LEMMA NoRequestIsNone == NoRequest \notin Requests
  BY ConstantsOK DEF NoRequest, Requests, ConstantsOK

LEMMA InitAsked == Init => AskedInv
  BY DEF Init, AskedInv, CommitMatchesCard, SentIsDraft, RowsAsked, NoRow

\* Most steps neither show nor send anything.
LEMMA QuietAsked ==
    ASSUME AskedInv, UNCHANGED <<cards, asked, idem>>, node' # "guacuco" \/ UNCHANGED <<node, draft>>
    PROVE  AskedInv'
  BY DEF AskedInv, CommitMatchesCard, SentIsDraft, RowsAsked, Request

LEMMA AskedStep == Types /\ FlowInv /\ AskedInv /\ [Next]_vars => AskedInv'
  <1> SUFFICES ASSUME Types, FlowInv, AskedInv, [Next]_vars PROVE AskedInv'
    OBVIOUS
  <1>1. draft \in Drafts /\ cards \in [Keys -> Requests \cup {NoRequest}]
        /\ asked \in [Keys -> Requests \cup {NoRequest}] /\ idem \in [Keys -> IdemRows]
    BY DEF Types, TypeOK
  <1>2. CASE Arrive \/ UNCHANGED vars
    <2>1. paused # "guacuco"
      BY DEF Types, TypeOK
    <2> QED  BY <1>2, <2>1, QuietAsked DEF Arrive, guacuco, vars, turn, thread, history
  <1>3. CASE \/ Supervisor \/ RescheduleBootstrap \/ RescheduleAskSlot \/ RescheduleAskSlotResumed
             \/ RescheduleValidate \/ ReschedulePresent \/ ReschedulePresentResumed
             \/ RescheduleGate \/ RescheduleGateResumed \/ RescheduleCommitAnswered
             \/ RescheduleSuccess \/ Finalize
    <2>1. UNCHANGED <<cards, asked, idem>>
      BY <1>3 DEF Supervisor, RescheduleBootstrap, RescheduleAskSlot, RescheduleAskSlotResumed,
                  RescheduleValidate, ReschedulePresent, ReschedulePresentResumed, RescheduleGate,
                  RescheduleGateResumed, RescheduleCommitAnswered, RescheduleSuccess, Finalize,
                  guacuco, history
    <2>2. node' # "guacuco"
      BY <1>3 DEF Supervisor, RescheduleBootstrap, RescheduleAskSlot, RescheduleAskSlotResumed,
                  RescheduleValidate, ReschedulePresent, ReschedulePresentResumed, RescheduleGate,
                  RescheduleGateResumed, RescheduleCommitAnswered, RescheduleSuccess, Finalize,
                  Goto, Interrupt, DecideAfterCollecting, RouteAfterPresent, RouteAfterCommit
    <2> QED  BY <2>1, <2>2, QuietAsked
  <1>4. CASE RescheduleBuildConfirm
    <2>1. node' # "guacuco"
      BY <1>4 DEF RescheduleBuildConfirm, Goto
    <2>2. CASE UNCHANGED <<cards, asked, idem>>
      BY <2>1, <2>2, QuietAsked
    <2>3. CASE \E k \in Keys : /\ cards' = [cards EXCEPT ![k] = Request(draft)]
                              /\ asked' = [asked EXCEPT ![k] = NoRequest]
                              /\ idem' = [idem EXCEPT ![k] = NoRow]
      BY <1>1, <2>1, <2>3 DEF AskedInv, CommitMatchesCard, SentIsDraft, RowsAsked, NoRow
    <2> QED  BY <1>4, <2>2, <2>3 DEF RescheduleBuildConfirm
  <1>5. CASE RescheduleCommit
    <2>1. CASE Goto(Failed(draft, "error"), "subgraph_finalize") /\ UNCHANGED <<asked, idem>>
      BY <1>5, <2>1, QuietAsked DEF RescheduleCommit, Goto
    <2>2. CASE /\ AllResolved(draft) /\ draft.key # None
               /\ asked' = [asked EXCEPT ![draft.key] = Request(draft)]
               /\ UNCHANGED thread
               /\ \/ UNCHANGED idem
                  \/ /\ idem[draft.key].status = "none"
                     /\ idem' = [idem EXCEPT ![draft.key].status = "in_progress"]
      <3>1. draft.key \in Keys /\ Request(draft) \in Requests /\ cards[draft.key] = Request(draft)
        BY <1>1, <2>2, RequestType DEF Drafts, FlowInv, Bound
      <3>2. UNCHANGED <<cards, draft>>
        BY <1>5, <2>2 DEF RescheduleCommit, thread
      <3>3. CommitMatchesCard' /\ SentIsDraft'
        BY <1>1, <2>2, <3>1, <3>2 DEF AskedInv, CommitMatchesCard, SentIsDraft, Request
      <3>4. RowsAsked'
        BY <1>1, <2>2, <3>1, <3>2 DEF AskedInv, RowsAsked, IdemRows
      <3> QED  BY <3>3, <3>4 DEF AskedInv
    <2> QED  BY <1>5, <2>1, <2>2 DEF RescheduleCommit
  <1>6. CASE \E k \in Keys : GuacucoExecute(k)
    <2>1. PICK k \in Keys : GuacucoExecute(k)
      BY <1>6
    <2>2. UNCHANGED <<cards, asked, node, draft>>
      BY <2>1 DEF GuacucoExecute, turn, thread
    <2>3. \A j \in Keys : idem'[j].status # "none" => idem[j].status # "none"
      BY <1>1, <2>1 DEF GuacucoExecute, IdemRows
    <2> QED  BY <2>2, <2>3 DEF AskedInv, CommitMatchesCard, SentIsDraft, RowsAsked, Request
  <1>7. CASE TakenElsewhere \/ CancelledElsewhere
    BY <1>7, QuietAsked DEF TakenElsewhere, CancelledElsewhere, turn, thread, history
  <1> QED  BY <1>2, <1>3, <1>4, <1>5, <1>6, <1>7 DEF Next, TurnStep

\* What was asked is what was shown, and the request on its way is the draft's.
THEOREM AskedHolds == Spec => [](Types /\ FlowInv /\ AskedInv)
  BY FlowHolds, InitAsked, AskedStep, PTL DEF Spec

\* What Guacuco is asked under an intentUuid is what the gate message with it named, through
\* every rewriting, every proposal and the retry.
THEOREM AskedIsShown == Spec => []CommitMatchesCard
  <1>1. AskedInv => CommitMatchesCard
    BY DEF AskedInv
  <1> QED  BY <1>1, AskedHolds, PTL

-----------------------------------------------------------------------------
(* What the nodes keep of a draft, and what they may end it with.          *)

Ends == {"no_upcomings", "handed_off", "error"}
Keeps(e, d) == /\ e.key = d.key /\ e.retried = d.retried
               /\ \/ e.terminalOutcome = d.terminalOutcome
                  \/ \E o \in Ends : e.terminalOutcome = Outcome(o, NoRequest)

LEMMA FailedKeeps ==
    ASSUME NEW d \in Drafts, NEW o \in Ends
    PROVE  Keeps(Failed(d, o), d)
  BY DEF Failed, Keeps, Drafts

LEMMA PhaseKeeps ==
    ASSUME NEW d \in Drafts, NEW ph
    PROVE  Keeps([d EXCEPT !.phase = ph], d)
  BY DEF Keeps, Drafts

LEMMA ProposedKeeps ==
    ASSUME NEW d \in Drafts, NEW p, NEW ph
    PROVE  Keeps([d EXCEPT !.proposed = p, !.phase = ph], d)
  BY DEF Keeps, Drafts

LEMMA BootstrappedKeeps ==
    ASSUME NEW d \in Drafts, NEW U, NEW e \in Bootstrapped(d, U)
    PROVE  Keeps(e, d)
  <1>1. CASE \E a : e = Chosen(d, a)
    BY <1>1 DEF Chosen, Keeps, Drafts
  <1>2. CASE e = Failed(d, "no_upcomings")
    BY <1>2, FailedKeeps DEF Ends
  <1>3. CASE e = [d EXCEPT !.phase = "collecting"]
    BY <1>3, PhaseKeeps
  <1> QED  BY <1>1, <1>2, <1>3 DEF Bootstrapped, Chosen

LEMMA InterpretedKeeps ==
    ASSUME NEW d \in Drafts, NEW m, NEW U
    PROVE  Keeps(Interpreted(d, m, U), d)
  BY DEF Interpreted, Keeps, Drafts

LEMMA PickedKeeps ==
    ASSUME NEW d \in Drafts, NEW m
    PROVE  Keeps(Picked(d, m), d)
  BY DEF Picked, Keeps, Drafts

\* What a new flow starts from.
Fresh(d) == d.key = None /\ d.retried = FALSE /\ d.terminalOutcome = NoOutcome /\ d.proposed = <<>>

LEMMA FreshDrafts ==
    /\ Fresh(NoDraft) /\ Fresh(initialRescheduleDraftState)
    /\ \A a : Fresh([initialRescheduleDraftState EXCEPT !.appt = a])
  <1>1. Fresh(NoDraft)
    BY DEF Fresh, NoDraft
  <1>2. Fresh(initialRescheduleDraftState)
    BY DEF Fresh, NoDraft, initialRescheduleDraftState
  <1>3. ASSUME NEW a
        PROVE  Fresh([initialRescheduleDraftState EXCEPT !.appt = a])
    BY <1>2, InitialType DEF Fresh, Drafts
  <1> QED  BY <1>1, <1>2, <1>3

\* A collecting node: it has no confirmation, and pauses or leads on with its draft.
Collects ==
    /\ draft.key = None /\ UNCHANGED <<idem, asked, cards, moved, refused>>
    /\ \/ /\ \E d \in Drafts, n \in Others \ {"reschedule_commit"} :
               Goto(d, n) /\ (Keeps(d, draft) \/ (draft = NoDraft /\ Fresh(d)))
          /\ UNCHANGED told
       \/ /\ UNCHANGED draft /\ node' = "idle"
          /\ \E o \in {"other", "asked", "proposed"} : told' = Outcome(o, NoRequest)

LEMMA CollectStep ==
    ASSUME Types, FlowInv,
           \/ Supervisor \/ RescheduleBootstrap \/ RescheduleAskSlot \/ RescheduleAskSlotResumed
           \/ RescheduleValidate \/ ReschedulePresent \/ ReschedulePresentResumed
    PROVE  Collects
  <1>1. draft \in Drafts /\ draft.key = None
    BY DEF Types, TypeOK, FlowInv, KeyAtGate, Holding, Supervisor, RescheduleBootstrap,
           RescheduleAskSlot, RescheduleAskSlotResumed, RescheduleValidate, ReschedulePresent,
           ReschedulePresentResumed
  <1>2. UNCHANGED <<idem, asked, cards, moved, refused>>
    BY DEF Supervisor, RescheduleBootstrap, RescheduleAskSlot, RescheduleAskSlotResumed,
           RescheduleValidate, ReschedulePresent, ReschedulePresentResumed, guacuco, history
  <1>3. ASSUME NEW d \in Drafts, NEW n \in Others \ {"reschedule_commit"}, Goto(d, n),
               UNCHANGED told, Keeps(d, draft) \/ (draft = NoDraft /\ Fresh(d))
        PROVE  Collects
    BY <1>1, <1>2, <1>3 DEF Collects
  <1>4. ASSUME NEW n, Interrupt(n), NEW o \in {"asked", "proposed"}, told' = Outcome(o, NoRequest)
        PROVE  Collects
    BY <1>1, <1>2, <1>4 DEF Collects, Interrupt
  <1>5. /\ upcomings \in SUBSET Appts /\ msg \in Messages
    BY DEF Types, TypeOK
  <1>6. \A d : DecideAfterCollecting(d) \in Others \ {"reschedule_commit"}
    BY DEF DecideAfterCollecting, Others, Nodes, Sending
  <1>7. {"reschedule_bootstrap", "subgraph_finalize", "reschedule_build_confirm",
         "reschedule_present"} \subseteq Others \ {"reschedule_commit"}
    BY DEF Others, Nodes, Sending
  <1>8. CASE Supervisor
    <2>0. draft = NoDraft /\ paused = "none"
      BY <1>8 DEF Supervisor, FlowInv, Waiting
    <2> DEFINE started == [initialRescheduleDraftState EXCEPT !.appt = Resolved(msg.appt)]
    <2>1. CASE Goto(draft, "reschedule_bootstrap") /\ UNCHANGED told
      BY <1>1, <1>3, <1>7, <2>1 DEF Keeps
    <2>2. CASE Goto(initialRescheduleDraftState, "reschedule_bootstrap") /\ UNCHANGED told
      BY <1>3, <1>7, <2>0, <2>2, InitialType, FreshDrafts
    <2>3. CASE Goto(started, "reschedule_bootstrap") /\ UNCHANGED told
      <3>1. Resolved(msg.appt) \in SlotOf(Appts)
        BY <1>5 DEF Resolved, SlotOf, Statuses, Messages
      <3>2. started \in Drafts
        BY <3>1, InitialType DEF Drafts
      <3>3. Fresh(started)
        BY FreshDrafts
      <3> HIDE DEF started
      <3> QED  BY <1>3, <1>7, <2>0, <2>3, <3>2, <3>3
    <2>4. CASE /\ told' = Outcome("other", NoRequest)
               /\ node' = "idle" /\ msg' = Msg("media") /\ UNCHANGED <<resumed, thread>>
      BY <1>1, <1>2, <2>4 DEF Collects, thread
    <2> QED  BY <1>8, <2>1, <2>2, <2>3, <2>4 DEF Supervisor
  <1>9. CASE RescheduleBootstrap
    <2>1. PICK d \in Bootstrapped(draft, upcomings) : Goto(d, DecideAfterCollecting(d))
      BY <1>9 DEF RescheduleBootstrap
    <2>2. d \in Drafts /\ Keeps(d, draft)
      BY <1>1, <1>5, BootstrappedType, BootstrappedKeeps
    <2> QED  BY <1>3, <1>6, <1>9, <2>1, <2>2 DEF RescheduleBootstrap
  <1>10. CASE RescheduleAskSlot
    <2> DEFINE d == IF draft.attempts >= MAX_ATTEMPTS THEN Failed(draft, "handed_off")
                    ELSE [draft EXCEPT !.phase = "validating_availability"]
    <2>1. d \in Drafts /\ Keeps(d, draft)
      <3>1. CASE d = Failed(draft, "handed_off")
        BY <1>1, <3>1, FailedType, FailedKeeps DEF Actions, Ends
      <3>2. CASE d = [draft EXCEPT !.phase = "validating_availability"]
        <4>1. "validating_availability" \in Phases
          BY DEF Phases
        <4>2. [draft EXCEPT !.phase = "validating_availability"] \in Drafts
          BY <1>1, <4>1, PhaseType
        <4>3. Keeps([draft EXCEPT !.phase = "validating_availability"], draft)
          BY <1>1, PhaseKeeps
        <4> QED  BY <3>2, <4>2, <4>3
      <3> QED  BY <3>1, <3>2
    <2>2. \/ Goto(d, DecideAfterCollecting(d)) /\ UNCHANGED told
          \/ Interrupt("reschedule_ask_slot") /\ told' = Outcome("asked", NoRequest)
      BY <1>10 DEF RescheduleAskSlot
    <2> HIDE DEF d
    <2> QED  BY <1>3, <1>4, <1>6, <2>1, <2>2
  <1>11. CASE RescheduleAskSlotResumed
    <2> DEFINE d == Interpreted(draft, msg, upcomings)
    <2>1. d \in Drafts /\ Keeps(d, draft)
      BY <1>1, <1>5, InterpretedType, InterpretedKeeps
    <2>2. Goto(d, DecideAfterCollecting(d)) /\ UNCHANGED told
      BY <1>11 DEF RescheduleAskSlotResumed
    <2> HIDE DEF d
    <2> QED  BY <1>3, <1>6, <2>1, <2>2
  <1>12. CASE RescheduleValidate
    <2>0. UNCHANGED told
      BY <1>12 DEF RescheduleValidate
    <2>1. CASE Goto([draft EXCEPT !.phase = "collecting"], "subgraph_finalize")
      <3> DEFINE d == [draft EXCEPT !.phase = "collecting"]
      <3>1. d \in Drafts /\ Keeps(d, draft)
        BY <1>1, PhaseType, PhaseKeeps DEF Phases
      <3> HIDE DEF d
      <3> QED  BY <1>3, <1>7, <2>0, <2>1, <3>1 DEF d
    <2>2. CASE Goto(Failed(draft, "error"), "subgraph_finalize")
      <3>1. Failed(draft, "error") \in Drafts /\ Keeps(Failed(draft, "error"), draft)
        BY <1>1, FailedType, FailedKeeps DEF Actions, Ends
      <3> QED  BY <1>3, <1>7, <2>0, <2>2, <3>1
    <2>3. CASE \E p \in Proposals \cup {<<>>} :
               \E ph \in {"awaiting_confirmation", "awaiting_pick"} :
               \E n \in {"reschedule_build_confirm", "reschedule_present"} :
                  Goto([draft EXCEPT !.proposed = p, !.phase = ph], n)
      <3>1. PICK p \in Proposals \cup {<<>>}, ph \in {"awaiting_confirmation", "awaiting_pick"},
                 n \in {"reschedule_build_confirm", "reschedule_present"} :
                   Goto([draft EXCEPT !.proposed = p, !.phase = ph], n)
        BY <2>3
      <3>2. p \in Seq(Places) /\ ph \in Phases
        <4>1. CASE p \in Proposals
          BY <4>1, ProposalsType DEF Types, TypeOK, Phases
        <4>2. CASE p = <<>>
          BY <4>2, NoProposals DEF Phases
        <4> QED  BY <4>1, <4>2
      <3> DEFINE d == [draft EXCEPT !.proposed = p, !.phase = ph]
      <3>3. d \in Drafts
        BY <1>1, <3>2, ProposedType
      <3>4. Keeps(d, draft)
        BY <1>1, ProposedKeeps
      <3>5. Goto(d, n)
        BY <3>1
      <3> HIDE DEF d
      <3> QED  BY <1>3, <1>7, <2>0, <3>3, <3>4, <3>5
    <2> QED  BY <1>12, <2>1, <2>2, <2>3 DEF RescheduleValidate
  <1>13. CASE ReschedulePresent
    <2>1. CASE draft.proposed # <<>>
      BY <1>4, <1>13, <2>1 DEF ReschedulePresent
    <2>2. CASE draft.proposed = <<>>
      <3>1. Failed(draft, "handed_off") \in Drafts /\ Keeps(Failed(draft, "handed_off"), draft)
        BY <1>1, FailedType, FailedKeeps DEF Actions, Ends
      <3> QED  BY <1>3, <1>7, <1>13, <2>2, <3>1 DEF ReschedulePresent
    <2> QED  BY <2>1, <2>2
  <1>14. CASE ReschedulePresentResumed
    <2> DEFINE d == Picked(draft, msg)
    <2>1. d \in Drafts /\ Keeps(d, draft)
      BY <1>1, <1>5, PickedType, PickedKeeps
    <2>2. RouteAfterPresent(d) \in Others \ {"reschedule_commit"}
      BY DEF RouteAfterPresent, Others, Nodes, Sending
    <2>3. Goto(d, RouteAfterPresent(d)) /\ UNCHANGED told
      BY <1>14 DEF ReschedulePresentResumed
    <2> HIDE DEF d
    <2> QED  BY <1>3, <2>1, <2>2, <2>3
  <1> QED  BY <1>8, <1>9, <1>10, <1>11, <1>12, <1>13, <1>14

-----------------------------------------------------------------------------
(* What was done, and what is said of it.                                  *)

OkIsDone    == draft.key # None /\ idem[draft.key].status = "done" /\ idem[draft.key].result = "ok"
                 => Request(draft) \in moved
SuccessNode == node = "reschedule_success" => Request(draft) \in moved
EndIsTrue   == draft.terminalOutcome.action = "success" => draft.terminalOutcome.names \in moved
DoneInv     == OkIsDone /\ SuccessNode /\ EndIsTrue /\ SuccessIsTrue

LEMMA EndsAreNoSuccess ==
    /\ NoOutcome.action # "success"
    /\ \A o \in Ends \cup {"other", "asked", "proposed", "gated", "ignored"} :
         \A q : Outcome(o, q).action # "success"
  BY DEF NoOutcome, Outcome, Ends

LEMMA InitDone == Init => DoneInv
  BY FreshDrafts, EndsAreNoSuccess
     DEF Init, DoneInv, OkIsDone, SuccessNode, EndIsTrue, SuccessIsTrue, Fresh

LEMMA CollectDone ==
    ASSUME DoneInv, Collects
    PROVE  DoneInv'
  <1>1. draft'.key = None
    BY DEF Collects, Goto, Keeps, Fresh
  <1>2. node' # "reschedule_success"
    BY DEF Collects, Goto, Others, Sending
  <1>3. \/ draft'.terminalOutcome = draft.terminalOutcome
        \/ draft'.terminalOutcome.action # "success"
    BY EndsAreNoSuccess DEF Collects, Goto, Keeps, Fresh
  <1>4. told' = told \/ told'.action # "success"
    BY EndsAreNoSuccess DEF Collects
  <1>5. moved' = moved
    BY DEF Collects
  <1> QED  BY <1>1, <1>2, <1>3, <1>4, <1>5 DEF DoneInv, OkIsDone, SuccessNode, EndIsTrue, SuccessIsTrue

\* Beyond the collecting nodes: the confirmation goes, or stays with what it confirms.
LEMMA HoldingDone ==
    ASSUME DoneInv, UNCHANGED moved, node' # "reschedule_success",
           \/ draft'.key = None
           \/ UNCHANGED idem /\ draft'.key = draft.key /\ Request(draft') = Request(draft),
           \/ draft'.terminalOutcome = draft.terminalOutcome
           \/ draft'.terminalOutcome.action # "success",
           told' = told \/ told'.action # "success"
    PROVE  DoneInv'
  <1>1. Request(draft)' = Request(draft')
    OBVIOUS
  <1> QED  BY <1>1 DEF DoneInv, OkIsDone, SuccessNode, EndIsTrue, SuccessIsTrue

LEMMA GateDone ==
    ASSUME Types, FlowInv, DoneInv, RescheduleBuildConfirm \/ RescheduleGate \/ RescheduleGateResumed
    PROVE  DoneInv'
  <1>1. draft \in Drafts
    BY DEF Types, TypeOK
  <1>2. UNCHANGED moved /\ node' # "reschedule_success"
    BY DEF RescheduleBuildConfirm, RescheduleGate, RescheduleGateResumed, Goto, Interrupt, history
  <1>3. told' = told \/ told'.action # "success"
    BY EndsAreNoSuccess DEF RescheduleBuildConfirm, RescheduleGate, RescheduleGateResumed
  <1>4. CASE RescheduleBuildConfirm
    <2>1. CASE draft' = draft /\ idem' = idem
      BY <1>2, <1>3, <2>1, HoldingDone
    <2>2. CASE \E k \in Keys : /\ idem' = [idem EXCEPT ![k] = NoRow]
                              /\ draft' = [draft EXCEPT !.key = k, !.phase = "awaiting_confirmation"]
      <3>1. PICK k \in Keys : /\ idem' = [idem EXCEPT ![k] = NoRow]
                             /\ draft' = [draft EXCEPT !.key = k, !.phase = "awaiting_confirmation"]
        BY <2>2
      <3>2. draft'.key = k /\ draft'.terminalOutcome = draft.terminalOutcome
        BY <1>1, <3>1 DEF Drafts
      <3>3. idem'[k].status = "none"
        BY <3>1 DEF Types, TypeOK, NoRow
      <3> QED  BY <1>2, <1>3, <3>2, <3>3 DEF DoneInv, OkIsDone, SuccessNode, EndIsTrue, SuccessIsTrue
    <2> QED  BY <1>4, <2>1, <2>2 DEF RescheduleBuildConfirm, Goto
  <1>5. CASE RescheduleGate
    <2>1. CASE draft' = draft
      BY <1>2, <1>3, <1>5, <2>1, HoldingDone DEF RescheduleGate, guacuco
    <2>2. CASE draft' = Failed(draft, "error") /\ draft.key = None
      <3>1. Keeps(draft', draft)
        BY <1>1, <2>2, FailedKeeps DEF Ends
      <3> QED  BY <1>2, <1>3, <2>2, <3>1, HoldingDone, EndsAreNoSuccess DEF Keeps
    <2> QED  BY <1>5, <2>1, <2>2 DEF RescheduleGate, Goto, Interrupt
  <1>6. CASE RescheduleGateResumed
    <2>1. CASE draft' = [draft EXCEPT !.phase = "committing"]
      <3>1. draft'.key = draft.key /\ Request(draft') = Request(draft)
            /\ draft'.terminalOutcome = draft.terminalOutcome
        BY <1>1, <2>1 DEF Request, Drafts
      <3> QED  BY <1>2, <1>3, <1>6, <3>1, HoldingDone DEF RescheduleGateResumed, guacuco
    <2>2. CASE draft' = [draft EXCEPT !.key = None, !.phase = "collecting"]
      <3>1. draft'.key = None /\ draft'.terminalOutcome = draft.terminalOutcome
        BY <1>1, <2>2 DEF Drafts
      <3> QED  BY <1>2, <1>3, <3>1, HoldingDone
    <2> QED  BY <1>6, <2>1, <2>2 DEF RescheduleGateResumed, Goto
  <1> QED  BY <1>4, <1>5, <1>6

LEMMA CommitDone ==
    ASSUME Types, FlowInv, DoneInv, RescheduleCommit \/ RescheduleCommitAnswered \/ RescheduleSuccess
    PROVE  DoneInv'
  <1>1. draft \in Drafts
    BY DEF Types, TypeOK
  <1>2. UNCHANGED <<moved, told>>
    BY DEF RescheduleCommit, RescheduleCommitAnswered, RescheduleSuccess, history
  <1>3. ASSUME NEW o \in Ends, draft' = Failed(draft, o), UNCHANGED idem, node' # "reschedule_success"
        PROVE  DoneInv'
    <2>1. draft'.key = draft.key /\ Request(draft') = Request(draft)
          /\ draft'.terminalOutcome.action # "success"
      BY <1>1, <1>3, EndsAreNoSuccess DEF Failed, Request, Drafts
    <2> QED  BY <1>2, <1>3, <2>1, HoldingDone
  <1>4. CASE RescheduleCommit
    <2>1. CASE Goto(Failed(draft, "error"), "subgraph_finalize") /\ UNCHANGED idem
      BY <1>3, <2>1 DEF Goto, Ends
    <2>2. CASE /\ UNCHANGED thread /\ node' = "guacuco" /\ draft.key # None
               /\ \/ UNCHANGED idem
                  \/ idem' = [idem EXCEPT ![draft.key].status = "in_progress"]
      <3>1. draft' = draft
        BY <2>2 DEF thread
      <3>2. CASE UNCHANGED idem
        BY <1>2, <2>2, <3>1, <3>2, HoldingDone
      <3>3. CASE idem' = [idem EXCEPT ![draft.key].status = "in_progress"]
        <4>1. draft.key \in Keys /\ idem \in [Keys -> IdemRows]
          BY <1>1, <2>2 DEF Drafts, Types
        <4>2. idem'[draft.key].status = "in_progress"
          BY <3>3, <4>1 DEF IdemRows
        <4> QED  BY <1>2, <2>2, <3>1, <4>2 DEF DoneInv, OkIsDone, SuccessNode, EndIsTrue, SuccessIsTrue
      <3> QED  BY <2>2, <3>2, <3>3
    <2> QED  BY <1>4, <2>1, <2>2 DEF RescheduleCommit
  <1>5. CASE RescheduleCommitAnswered
    <2>1. PICK answer \in Answers(draft.key) :
            Goto(Committed(draft, answer), RouteAfterCommit(Committed(draft, answer)))
      BY <1>5 DEF RescheduleCommitAnswered
    <2>2. draft' = Committed(draft, answer) /\ UNCHANGED idem
      BY <1>5, <2>1 DEF RescheduleCommitAnswered, Goto, guacuco
    <2>3. node' = RouteAfterCommit(draft')
      BY <2>1, <2>2 DEF Goto
    <2>4. CASE answer = "ok"
      <3>1. draft.key \in Keys
        BY <1>5 DEF RescheduleCommitAnswered, Types, Sending
      <3>2. idem[draft.key].status = "done" /\ idem[draft.key].result = "ok"
        BY <2>4 DEF Answers
      <3>3. Request(draft) \in moved
        BY <3>1, <3>2, ConstantsOK DEF DoneInv, OkIsDone, ConstantsOK
      <3>4. Request(draft') = Request(draft) /\ draft'.terminalOutcome = draft.terminalOutcome
        BY <1>1, <2>2, <2>4 DEF Committed, Request, Drafts
      <3>5. Request(draft)' = Request(draft')
        OBVIOUS
      <3> QED  BY <1>2, <3>3, <3>4, <3>5 DEF DoneInv, OkIsDone, SuccessNode, EndIsTrue, SuccessIsTrue
    <2>5. CASE \E o \in {"error", "handed_off"} : draft' = Failed(draft, o)
      <3>1. draft'.phase = "failed"
        BY <1>1, <2>5 DEF Failed, Drafts
      <3>2. node' # "reschedule_success"
        BY <2>3, <3>1 DEF RouteAfterCommit, IsActiveDraft
      <3> QED  BY <1>3, <2>2, <2>5, <3>2 DEF Ends
    <2>6. CASE draft' = [draft EXCEPT !.proposed = <<>>, !.key = None, !.retried = TRUE,
                                      !.phase = "validating_availability"]
      <3>1. draft'.key = None /\ draft'.phase = "validating_availability"
            /\ draft'.terminalOutcome = draft.terminalOutcome
        BY <1>1, <2>6 DEF Drafts
      <3>2. node' # "reschedule_success"
        BY <2>3, <3>1 DEF RouteAfterCommit
      <3> QED  BY <1>2, <3>1, <3>2, HoldingDone
    <2> QED  BY <2>2, <2>4, <2>5, <2>6 DEF Committed
  <1>6. CASE RescheduleSuccess
    <2>1. draft' = [draft EXCEPT !.terminalOutcome = Outcome("success", Request(draft))]
          /\ node' = "subgraph_finalize" /\ UNCHANGED idem
      BY <1>6 DEF RescheduleSuccess, Goto, guacuco
    <2>2. draft'.key = draft.key /\ Request(draft') = Request(draft)
          /\ draft'.terminalOutcome = Outcome("success", Request(draft))
      BY <1>1, <2>1 DEF Request, Drafts
    <2>3. Request(draft) \in moved
      BY <1>6 DEF RescheduleSuccess, DoneInv, SuccessNode
    <2>4. Request(draft)' = Request(draft')
      OBVIOUS
    <2> QED  BY <1>2, <2>1, <2>2, <2>3, <2>4
             DEF Outcome, DoneInv, OkIsDone, SuccessNode, EndIsTrue, SuccessIsTrue
  <1> QED  BY <1>4, <1>5, <1>6

LEMMA ArriveDone == Types /\ DoneInv /\ Arrive => DoneInv'
  <1> SUFFICES ASSUME Types, DoneInv, Arrive PROVE DoneInv'
    OBVIOUS
  <1>1. told'.action # "success" /\ UNCHANGED <<draft, idem>>
    BY EndsAreNoSuccess DEF Arrive, guacuco
  <1>2. node' # "reschedule_success"
    BY DEF Arrive, Types, TypeOK
  <1>3. CASE draft = NoDraft
    BY <1>1, <1>2, <1>3, FreshDrafts, EndsAreNoSuccess
       DEF Fresh, DoneInv, OkIsDone, SuccessNode, EndIsTrue, SuccessIsTrue
  <1>4. CASE draft # NoDraft
    BY <1>1, <1>2, <1>4, HoldingDone DEF Arrive
  <1> QED  BY <1>3, <1>4

LEMMA FinalizeDone == DoneInv /\ Finalize => DoneInv'
  <1> SUFFICES ASSUME DoneInv, Finalize PROVE DoneInv'
    OBVIOUS
  <1>1. draft' = NoDraft /\ node' = "idle" /\ UNCHANGED moved
    BY DEF Finalize
  <1>2. told'.action = "success" => told' = draft.terminalOutcome
    BY EndsAreNoSuccess DEF Finalize
  <1> QED  BY <1>1, <1>2, FreshDrafts, EndsAreNoSuccess
           DEF Fresh, DoneInv, OkIsDone, SuccessNode, EndIsTrue, SuccessIsTrue

LEMMA OutsideDone ==
    ASSUME Types, FlowInv, AskedInv, DoneInv,
           \/ \E k \in Keys : GuacucoExecute(k)
           \/ TakenElsewhere \/ CancelledElsewhere \/ UNCHANGED vars
    PROVE  DoneInv'
  <1>1. UNCHANGED <<draft, node, told>>
    BY DEF GuacucoExecute, TakenElsewhere, CancelledElsewhere, turn, thread, history, vars
  <1>2. Request(draft)' = Request(draft)
    BY <1>1 DEF Request
  <1>3. CASE TakenElsewhere \/ CancelledElsewhere \/ UNCHANGED vars
    BY <1>1, <1>2, <1>3 DEF TakenElsewhere, CancelledElsewhere, vars, history, guacuco,
       DoneInv, OkIsDone, SuccessNode, EndIsTrue, SuccessIsTrue
  <1>4. CASE \E k \in Keys : GuacucoExecute(k)
    <2>1. PICK k \in Keys : GuacucoExecute(k)
      BY <1>4
    <2>2. PICK res : /\ idem' = [idem EXCEPT ![k] = [status |-> "done", result |-> res]]
                     /\ IF res = "ok" THEN moved' = moved \cup {asked[k]} ELSE UNCHANGED moved
      BY <2>1 DEF GuacucoExecute
    <2>3. moved \subseteq moved'
      BY <2>2
    <2>4. OkIsDone'
      <3>1. CASE draft.key = None
        BY <1>1, <3>1 DEF OkIsDone
      <3>2. CASE draft.key # None /\ draft.key # k
        BY <1>1, <1>2, <2>2, <2>3, <3>2 DEF DoneInv, OkIsDone, Types
      <3>3. CASE draft.key # None /\ draft.key = k
        <4>1. asked[k] = Request(draft)
          <5>1. asked[k] \in Requests
            BY <2>1 DEF AskedInv, RowsAsked, GuacucoExecute
          <5>2. asked[k] = cards[k]
            BY <5>1, NoRequestIsNone DEF AskedInv, CommitMatchesCard
          <5> QED  BY <3>3, <5>2 DEF FlowInv, Bound
        <4>2. idem'[k].result = res
          BY <2>2 DEF Types
        <4> QED  BY <1>1, <1>2, <2>2, <3>3, <4>1, <4>2 DEF OkIsDone
      <3> QED  BY <3>1, <3>2, <3>3
    <2> QED  BY <1>1, <1>2, <2>3, <2>4 DEF DoneInv, SuccessNode, EndIsTrue, SuccessIsTrue
  <1> QED  BY <1>3, <1>4

LEMMA DoneStep == Types /\ FlowInv /\ AskedInv /\ DoneInv /\ [Next]_vars => DoneInv'
  BY CollectStep, CollectDone, GateDone, CommitDone, ArriveDone, FinalizeDone, OutsideDone
     DEF Next, TurnStep

\* An answer "ok" stands for a move that was made.
THEOREM DoneHolds == Spec => [](Types /\ FlowInv /\ AskedInv /\ DoneInv)
  BY AskedHolds, InitDone, DoneStep, PTL DEF Spec

\* A success is told only of a move Guacuco made since the flow began, whatever answers were
\* lost and whatever else it did meanwhile.
THEOREM SuccessToldIsTrue == Spec => []SuccessIsTrue
  <1>1. DoneInv => SuccessIsTrue
    BY DEF DoneInv
  <1> QED  BY <1>1, DoneHolds, PTL

-----------------------------------------------------------------------------
(* The refinement of GatedCommit.                                          *)

Rows     == [k \in Keys |-> idem[k].status]
Reported == IF told.action = "success" THEN told.names ELSE NoRequest

LEMMA InitRefines == Init => Ledger!Init
  BY EndsAreNoSuccess DEF Init, Ledger!Init, NoRow

\* A step that shows, sends and does nothing tells at most a true success.
LEMMA QuietRefines ==
    ASSUME SuccessIsTrue', UNCHANGED <<cards, asked, idem, moved>>
    PROVE  Ledger!Tell
  BY DEF Ledger!Tell, SuccessIsTrue

\* The ledger's two steps of a gate: a message that names a request, and the request itself.
LEMMA ShowIsNext ==
    ASSUME NEW k \in Keys, NEW q \in Requests, Ledger!Show(k, q)
    PROVE  Ledger!Next
  BY DEF Ledger!Next

LEMMA AskIsNext ==
    ASSUME NEW k \in Keys, Ledger!Ask(k)
    PROVE  Ledger!Next
  BY DEF Ledger!Next

LEMMA ShowRefines ==
    ASSUME Types, RescheduleBuildConfirm, SuccessIsTrue'
    PROVE  Ledger!Next
  <1>1. idem \in [Keys -> IdemRows] /\ draft \in Drafts
    BY DEF Types, TypeOK
  <1>2. CASE UNCHANGED <<cards, asked, idem>>
    BY <1>2, QuietRefines DEF RescheduleBuildConfirm, Ledger!Next
  <1>3. CASE ~UNCHANGED <<cards, asked, idem>>
    <2>1. PICK k \in Keys : /\ idem[k].status # "in_progress"
                           /\ cards' = [cards EXCEPT ![k] = Request(draft)]
                           /\ asked' = [asked EXCEPT ![k] = NoRequest]
                           /\ idem' = [idem EXCEPT ![k] = NoRow]
      BY <1>3 DEF RescheduleBuildConfirm
    <2>2. Request(draft) \in Requests
      BY <1>1, <1>3, RequestType DEF RescheduleBuildConfirm
    <2>3. Rows' = [Rows EXCEPT ![k] = "none"]
      BY <1>1, <2>1 DEF Rows, NoRow
    <2>4. UNCHANGED <<moved, told>>
      BY DEF RescheduleBuildConfirm
    <2>5. ASSUME NEW q \in Requests, q = Request(draft) PROVE Ledger!Next
      <3>1. Ledger!Show(k, q)
        BY <2>1, <2>3, <2>4, <2>5 DEF Ledger!Show, Rows
      <3> QED  BY <3>1, ShowIsNext
    <2> QED  BY <2>2, <2>5
  <1> QED  BY <1>2, <1>3

LEMMA AskRefines ==
    ASSUME Types, FlowInv, RescheduleCommit, SuccessIsTrue'
    PROVE  Ledger!Next
  <1>1. idem \in [Keys -> IdemRows] /\ draft \in Drafts
    BY DEF Types, TypeOK
  <1>2. UNCHANGED <<cards, moved, told>>
    BY DEF RescheduleCommit
  <1>3. CASE UNCHANGED <<asked, idem>>
    BY <1>2, <1>3, QuietRefines DEF Ledger!Next
  <1>4. CASE /\ AllResolved(draft) /\ draft.key # None
             /\ asked' = [asked EXCEPT ![draft.key] = Request(draft)]
             /\ \/ UNCHANGED idem
                \/ /\ idem[draft.key].status = "none"
                   /\ idem' = [idem EXCEPT ![draft.key].status = "in_progress"]
    <2>1. draft.key \in Keys /\ cards[draft.key] = Request(draft) /\ Request(draft) \in Requests
      BY <1>1, <1>4, RequestType DEF Drafts, FlowInv, Bound
    <2>2. \/ UNCHANGED Rows
          \/ Rows[draft.key] = "none" /\ Rows' = [Rows EXCEPT ![draft.key] = "in_progress"]
      <3>1. CASE UNCHANGED idem
        BY <3>1 DEF Rows
      <3>2. CASE /\ idem[draft.key].status = "none"
                 /\ idem' = [idem EXCEPT ![draft.key].status = "in_progress"]
        BY <1>1, <2>1, <3>2 DEF Rows, IdemRows
      <3> QED  BY <1>4, <3>1, <3>2
    <2>3. ASSUME NEW k \in Keys, k = draft.key PROVE Ledger!Next
      <3>1. Ledger!Ask(k)
        BY <1>2, <1>4, <2>1, <2>2, <2>3, NoRequestIsNone DEF Ledger!Ask, Rows
      <3> QED  BY <3>1, AskIsNext
    <2> QED  BY <2>1, <2>3
  <1> QED  BY <1>3, <1>4 DEF RescheduleCommit

LEMMA ExecuteRefines ==
    ASSUME Types, NEW k \in Keys, GuacucoExecute(k)
    PROVE  Ledger!Next
  <1>1. idem \in [Keys -> IdemRows]
    BY DEF Types
  <1>2. UNCHANGED <<cards, asked, told>>
    BY DEF GuacucoExecute
  <1>3. Rows[k] = "in_progress" /\ Rows' = [Rows EXCEPT ![k] = "done"]
    <2>1. PICK res : idem' = [idem EXCEPT ![k] = [status |-> "done", result |-> res]]
      BY DEF GuacucoExecute
    <2> QED  BY <1>1, <2>1 DEF GuacucoExecute, Rows
  <1>4. moved' \in {moved, moved \cup {asked[k]}}
    BY DEF GuacucoExecute
  <1>5. Ledger!Execute(k)
    BY <1>2, <1>3, <1>4 DEF Ledger!Execute, Rows
  <1> QED  BY <1>5 DEF Ledger!Next

LEMMA ArriveRefines ==
    ASSUME Types, Arrive, SuccessIsTrue'
    PROVE  Ledger!Next
  <1>1. UNCHANGED <<cards, asked, idem>> /\ told'.action # "success"
    BY EndsAreNoSuccess DEF Arrive, guacuco
  <1>2. CASE moved' = {}
    <2>1. /\ cards' = [k \in Keys |-> IF k \in {} THEN NoRequest ELSE cards[k]]
          /\ asked' = [k \in Keys |-> IF k \in {} THEN NoRequest ELSE asked[k]]
      BY <1>1 DEF Types, TypeOK
    <2>2. Rows' = [k \in Keys |-> IF k \in {} THEN "none" ELSE Rows[k]]
      BY <1>1 DEF Rows
    <2>3. Ledger!Begin
      BY <1>1, <1>2, <2>1, <2>2 DEF Ledger!Begin, Rows
    <2> QED  BY <2>3 DEF Ledger!Next
  <1>3. CASE moved' = moved
    BY <1>1, <1>3, QuietRefines DEF Ledger!Next
  <1> QED  BY <1>2, <1>3 DEF Arrive

LEMMA StepRefines ==
    ASSUME Types, FlowInv, DoneInv', [Next]_vars
    PROVE  [Ledger!Next]_Ledger!vars
  <1>1. SuccessIsTrue'
    BY DEF DoneInv
  <1>2. CASE Arrive
    BY <1>1, <1>2, ArriveRefines
  <1>3. CASE RescheduleBuildConfirm
    BY <1>1, <1>3, ShowRefines
  <1>4. CASE RescheduleCommit
    BY <1>1, <1>4, AskRefines
  <1>5. CASE \E k \in Keys : GuacucoExecute(k)
    BY <1>5, ExecuteRefines
  <1>6. CASE UNCHANGED vars
    BY <1>6 DEF vars, Ledger!vars, guacuco, history
  <1>7. CASE \/ Supervisor \/ RescheduleBootstrap \/ RescheduleAskSlot \/ RescheduleAskSlotResumed
             \/ RescheduleValidate \/ ReschedulePresent \/ ReschedulePresentResumed
             \/ RescheduleGate \/ RescheduleGateResumed \/ RescheduleCommitAnswered
             \/ RescheduleSuccess \/ Finalize \/ TakenElsewhere \/ CancelledElsewhere
    <2>1. UNCHANGED <<cards, asked, idem, moved>>
      BY <1>7 DEF Supervisor, RescheduleBootstrap, RescheduleAskSlot, RescheduleAskSlotResumed,
                  RescheduleValidate, ReschedulePresent, ReschedulePresentResumed, RescheduleGate,
                  RescheduleGateResumed, RescheduleCommitAnswered, RescheduleSuccess, Finalize,
                  TakenElsewhere, CancelledElsewhere, guacuco, history
    <2> QED  BY <1>1, <2>1, QuietRefines DEF Ledger!Next
  <1> QED  BY <1>2, <1>3, <1>4, <1>5, <1>6, <1>7 DEF Next, TurnStep

\* The subgraph keeps GatedCommit's ledger: every step of it is a step of the ledger or none.
THEOREM Refinement == Spec => RefinesGatedCommit
  <1>1. Init => Ledger!Init
    BY InitRefines
  <1>2. Types /\ FlowInv /\ DoneInv' /\ [Next]_vars => [Ledger!Next]_Ledger!vars
    BY StepRefines
  <1> QED  BY <1>1, <1>2, DoneHolds, PTL DEF Spec, RefinesGatedCommit, Ledger!Spec

\* What GatedCommit promises, of the subgraph: Guacuco is asked what the card of the intentUuid
\* names and is at nothing else, moves only what a card shows at that moment, each once, and a
\* success told is of a move made since the flow began.
THEOREM LedgerHolds ==
    Spec => [](Ledger!AskedWasShown /\ Ledger!ToldWasDone) /\ Ledger!OnlyShownIsDone
  <1>1. Ledger!Spec => [](Ledger!AskedWasShown /\ Ledger!ToldWasDone) /\ Ledger!OnlyShownIsDone
    BY NoRequestIsNone, Ledger!LedgerKept
  <1> QED  BY <1>1, Refinement, PTL DEF RefinesGatedCommit

-----------------------------------------------------------------------------
(* The slot lost after its validation.                                     *)

Unrefused == ~draft.retried => refused = 0
OnceSoFar == node # "subgraph_finalize" => refused <= 1
RetryInv  == Unrefused /\ OnceSoFar

\* What does not concern the refusals: the count stands, the draft keeps its mark or is new.
LEMMA QuietRetry ==
    ASSUME Types, RetryInv, UNCHANGED refused,
           \/ draft'.retried = draft.retried
           \/ draft = NoDraft,
           node # "subgraph_finalize" \/ UNCHANGED node
    PROVE  RetryInv'
  BY FreshDrafts DEF Fresh, RetryInv, Unrefused, OnceSoFar, Types

\* The answer of Guacuco: refused once the draft is marked, refused again the flow ends.
LEMMA AnsweredRetry ==
    ASSUME Types, RetryInv, RescheduleCommitAnswered
    PROVE  RetryInv'
  <1>1. draft \in Drafts /\ refused \in Nat /\ node # "subgraph_finalize"
    BY DEF Types, TypeOK, RescheduleCommitAnswered
  <1>2. PICK answer \in Answers(draft.key) :
          /\ Goto(Committed(draft, answer), RouteAfterCommit(Committed(draft, answer)))
          /\ refused' = IF answer = "STAFF_NOT_AVAILABLE" THEN refused + 1 ELSE refused
    BY DEF RescheduleCommitAnswered
  <1>3. draft' = Committed(draft, answer) /\ node' = RouteAfterCommit(draft')
    BY <1>2 DEF Goto
  <1>4. CASE answer # "STAFF_NOT_AVAILABLE"
    <2>1. draft'.retried = draft.retried
      BY <1>1, <1>3, <1>4 DEF Committed, Failed, Drafts
    <2> QED  BY <1>1, <1>2, <1>4, <2>1, QuietRetry
  <1>5. CASE answer = "STAFF_NOT_AVAILABLE" /\ ~draft.retried
    <2>1. draft'.retried = TRUE
      BY <1>1, <1>3, <1>5 DEF Committed, Drafts
    <2>2. refused' = 1
      BY <1>2, <1>5 DEF RetryInv, Unrefused
    <2> QED  BY <2>1, <2>2 DEF RetryInv, Unrefused, OnceSoFar
  <1>6. CASE answer = "STAFF_NOT_AVAILABLE" /\ draft.retried
    <2>1. draft' = Failed(draft, "handed_off")
      BY <1>3, <1>6 DEF Committed
    <2>2. draft'.retried = draft.retried /\ draft'.phase = "failed"
      BY <1>1, <2>1 DEF Failed, Drafts
    <2>3. node' = "subgraph_finalize"
      BY <1>3, <2>2 DEF RouteAfterCommit, IsActiveDraft
    <2> QED  BY <1>6, <2>2, <2>3 DEF RetryInv, Unrefused, OnceSoFar
  <1> QED  BY <1>4, <1>5, <1>6

LEMMA RetryStep == Types /\ FlowInv /\ RetryInv /\ [Next]_vars => RetryInv'
  <1> SUFFICES ASSUME Types, FlowInv, RetryInv, [Next]_vars PROVE RetryInv'
    OBVIOUS
  <1>1. draft \in Drafts
    BY DEF Types, TypeOK
  <1>2. CASE \/ Supervisor \/ RescheduleBootstrap \/ RescheduleAskSlot \/ RescheduleAskSlotResumed
             \/ RescheduleValidate \/ ReschedulePresent \/ ReschedulePresentResumed
    <2>1. Collects
      BY <1>2, CollectStep
    <2>2. draft'.retried = draft.retried \/ draft = NoDraft
      BY <2>1 DEF Collects, Goto, Keeps
    <2>3. UNCHANGED refused /\ node # "subgraph_finalize"
      BY <1>2, <2>1 DEF Collects, Supervisor, RescheduleBootstrap, RescheduleAskSlot,
         RescheduleAskSlotResumed, RescheduleValidate, ReschedulePresent, ReschedulePresentResumed
    <2> QED  BY <2>2, <2>3, QuietRetry
  <1>3. CASE \/ RescheduleBuildConfirm \/ RescheduleGate \/ RescheduleGateResumed
             \/ RescheduleCommit \/ RescheduleSuccess
    <2>1. UNCHANGED refused /\ node # "subgraph_finalize"
      BY <1>3 DEF RescheduleBuildConfirm, RescheduleGate, RescheduleGateResumed, RescheduleCommit,
                  RescheduleSuccess, history
    <2>2. /\ \A k, ph : [draft EXCEPT !.key = k, !.phase = ph].retried = draft.retried
          /\ \A ph : [draft EXCEPT !.phase = ph].retried = draft.retried
          /\ \A o : [draft EXCEPT !.terminalOutcome = o].retried = draft.retried
          /\ \A o : Failed(draft, o).retried = draft.retried
      BY <1>1 DEF Failed, Drafts
    <2>3. draft'.retried = draft.retried
      <3>1. CASE RescheduleBuildConfirm
        <4>1. CASE draft' = draft
          BY <4>1
        <4>2. CASE \E k : draft' = [draft EXCEPT !.key = k, !.phase = "awaiting_confirmation"]
          BY <1>1, <4>2 DEF Drafts
        <4> QED  BY <3>1, <4>1, <4>2 DEF RescheduleBuildConfirm, Goto
      <3>2. CASE RescheduleGate
        BY <2>2, <3>2 DEF RescheduleGate, Goto, Interrupt
      <3>3. CASE RescheduleGateResumed
        <4>1. CASE draft' = [draft EXCEPT !.phase = "committing"]
          BY <1>1, <4>1 DEF Drafts
        <4>2. CASE draft' = [draft EXCEPT !.key = None, !.phase = "collecting"]
          BY <1>1, <4>2 DEF Drafts
        <4> QED  BY <3>3, <4>1, <4>2 DEF RescheduleGateResumed, Goto
      <3>4. CASE RescheduleCommit
        BY <2>2, <3>4 DEF RescheduleCommit, Goto, thread
      <3>5. CASE RescheduleSuccess
        BY <2>2, <3>5 DEF RescheduleSuccess, Goto
      <3> QED  BY <1>3, <3>1, <3>2, <3>3, <3>4, <3>5
    <2> QED  BY <2>1, <2>3, QuietRetry
  <1>4. CASE RescheduleCommitAnswered
    BY <1>4, AnsweredRetry
  <1>5. CASE Finalize
    BY <1>5 DEF Finalize, RetryInv, Unrefused, OnceSoFar
  <1>6. CASE Arrive
    BY <1>6, QuietRetry DEF Arrive
  <1>7. CASE (\E k \in Keys : GuacucoExecute(k)) \/ TakenElsewhere \/ CancelledElsewhere \/ UNCHANGED vars
    BY <1>7, QuietRetry DEF GuacucoExecute, TakenElsewhere, CancelledElsewhere, vars, turn, thread, history
  <1> QED  BY <1>2, <1>3, <1>4, <1>5, <1>6, <1>7 DEF Next, TurnStep

\* A slot lost at the commit is tried again once per flow, whatever the replies, the slots
\* and the intentUuids in between.
THEOREM RetriesOnce == Spec => []RetriedOnce
  <1>1. Init => RetryInv
    BY DEF Init, RetryInv, Unrefused, OnceSoFar
  <1>2. Types /\ RetryInv => RetriedOnce
    BY DEF Types, RetryInv, OnceSoFar, RetriedOnce
  <1> QED  BY <1>1, <1>2, FlowHolds, RetryStep, PTL DEF Spec

-----------------------------------------------------------------------------
(* What the gate offers.                                                   *)

PlaceOf(d) == <<d.newDate.value, d.newTime.value>>

OptionsVouched == \A i \in DOMAIN draft.proposed : draft.proposed[i] \in vouched
CardVouched    == node = "reschedule_build_confirm" \/ draft.key # None => PlaceOf(draft) \in vouched
EndNotGated    == draft.terminalOutcome.action # "gated"
VouchedInv     == OptionsVouched /\ CardVouched /\ EndNotGated /\ GatedWasVouched

LEMMA EndsAreNotGated ==
    /\ NoOutcome.action # "gated"
    /\ \A o \in Ends \cup {"other", "asked", "proposed", "success", "ignored"} :
         \A q : Outcome(o, q).action # "gated"
  BY DEF NoOutcome, Outcome, Ends

\* Nothing new is proposed, offered or forgotten.
LEMMA QuietVouched ==
    ASSUME VouchedInv, vouched \subseteq vouched',
           draft'.proposed = draft.proposed \/ draft'.proposed = <<>>,
           \/ draft'.key = None /\ node' # "reschedule_build_confirm"
           \/ PlaceOf(draft') = PlaceOf(draft) /\ (draft'.key = None \/ draft'.key = draft.key)
                /\ (node' = "reschedule_build_confirm" => node = "reschedule_build_confirm"),
           draft'.terminalOutcome = draft.terminalOutcome \/ draft'.terminalOutcome.action # "gated",
           told' = told \/ told'.action # "gated"
    PROVE  VouchedInv'
  <1>1. PlaceOf(draft)' = PlaceOf(draft')
    BY DEF PlaceOf
  <1>2. OptionsVouched'
    BY DEF VouchedInv, OptionsVouched
  <1> QED  BY <1>1, <1>2 DEF VouchedInv, CardVouched, EndNotGated, GatedWasVouched

LEMMA CollectVouched ==
    ASSUME Types, FlowInv, VouchedInv,
           \/ Supervisor \/ RescheduleBootstrap \/ RescheduleAskSlot \/ RescheduleAskSlotResumed
    PROVE  VouchedInv'
  <1>1. Collects
    BY CollectStep
  <1>2. draft \in Drafts /\ upcomings \in SUBSET Appts /\ msg \in Messages
    BY DEF Types, TypeOK
  <1>3. draft'.key = None
    BY <1>1 DEF Collects, Goto, Keeps, Fresh
  <1>4. draft'.terminalOutcome = draft.terminalOutcome \/ draft'.terminalOutcome.action # "gated"
    BY <1>1, EndsAreNotGated DEF Collects, Goto, Keeps, Fresh
  <1>5. told' = told \/ told'.action # "gated"
    BY <1>1, EndsAreNotGated DEF Collects
  <1>6. vouched' = vouched /\ node' # "reschedule_build_confirm"
    BY DEF Supervisor, RescheduleBootstrap, RescheduleAskSlot, RescheduleAskSlotResumed,
           DecideAfterCollecting, Goto, Interrupt, history
  <1>7. draft'.proposed = draft.proposed \/ draft'.proposed = <<>>
    <2>1. CASE Supervisor
      <3>1. \A a : [initialRescheduleDraftState EXCEPT !.appt = a].proposed = <<>>
        BY FreshDrafts DEF Fresh
      <3> QED  BY <2>1, <3>1, FreshDrafts DEF Supervisor, Goto, thread, Fresh
    <2>2. CASE RescheduleBootstrap
      BY <1>2, <2>2, BootstrappedType DEF RescheduleBootstrap, Goto
    <2>3. CASE RescheduleAskSlot
      BY <1>2, <2>3, FailedType, PhaseType DEF RescheduleAskSlot, Goto, Interrupt, Actions, Phases
    <2>4. CASE RescheduleAskSlotResumed
      BY <1>2, <2>4, InterpretedProposed DEF RescheduleAskSlotResumed, Goto
    <2> QED  BY <2>1, <2>2, <2>3, <2>4
  <1> QED  BY <1>3, <1>4, <1>5, <1>6, <1>7, QuietVouched

\* Guacuco's word: the slot is free, or these are.
LEMMA ValidateVouched ==
    ASSUME Types, FlowInv, VouchedInv, RescheduleValidate
    PROVE  VouchedInv'
  <1>1. draft \in Drafts /\ free \subseteq Places
    BY DEF Types, TypeOK
  <1>2. draft.key = None /\ node # "reschedule_build_confirm"
    BY DEF FlowInv, KeyAtGate, Holding, RescheduleValidate
  <1>3. told' = told
    BY DEF RescheduleValidate
  <1>4. ASSUME NEW p, NEW ph
        PROVE  LET e == [draft EXCEPT !.proposed = p, !.phase = ph] IN
                 /\ e.proposed = p /\ e.key = None /\ PlaceOf(e) = PlaceOf(draft)
                 /\ e.terminalOutcome = draft.terminalOutcome
    BY <1>1, <1>2 DEF Drafts, PlaceOf
  <1>5. CASE /\ draft' = [draft EXCEPT !.proposed = <<>>, !.phase = "awaiting_confirmation"]
             /\ vouched' = vouched \cup {PlaceOf(draft)}
    <2>1. /\ draft'.proposed = <<>> /\ draft'.key = None /\ PlaceOf(draft') = PlaceOf(draft)
          /\ draft'.terminalOutcome = draft.terminalOutcome
      BY <1>4, <1>5
    <2>2. PlaceOf(draft)' \in vouched'
      BY <1>5, <2>1 DEF PlaceOf
    <2>3. OptionsVouched'
      BY <2>1 DEF OptionsVouched
    <2> QED  BY <1>3, <1>5, <2>1, <2>2, <2>3
             DEF VouchedInv, CardVouched, EndNotGated, GatedWasVouched
  <1>6. CASE /\ node' = "reschedule_present"
             /\ \E p \in Proposals :
                  /\ draft' = [draft EXCEPT !.proposed = p, !.phase = "awaiting_pick"]
                  /\ vouched' = vouched \cup {p[i] : i \in DOMAIN p}
    <2>1. PICK p \in Proposals :
                  /\ draft' = [draft EXCEPT !.proposed = p, !.phase = "awaiting_pick"]
                  /\ vouched' = vouched \cup {p[i] : i \in DOMAIN p}
      BY <1>6
    <2>2. /\ draft'.proposed = p /\ draft'.key = None
          /\ draft'.terminalOutcome = draft.terminalOutcome
      BY <1>4, <2>1
    <2>3. OptionsVouched'
      BY <2>1, <2>2 DEF OptionsVouched
    <2> QED  BY <1>3, <1>6, <2>1, <2>2, <2>3
             DEF VouchedInv, CardVouched, EndNotGated, GatedWasVouched
  <1>7. CASE /\ node' = "subgraph_finalize" /\ vouched' = vouched
             /\ \/ draft' = [draft EXCEPT !.phase = "collecting"]
                \/ draft' = Failed(draft, "error")
    <2>1. /\ draft'.key = None /\ draft'.proposed = draft.proposed
          /\ draft'.terminalOutcome = draft.terminalOutcome \/ draft'.terminalOutcome.action # "gated"
      <3>1. Keeps(draft', draft)
        BY <1>1, <1>7, PhaseKeeps, FailedKeeps DEF Ends
      <3>2. draft'.proposed = draft.proposed
        BY <1>1, <1>7, PhaseType, FailedType DEF Phases, Actions
      <3> QED  BY <1>2, <3>1, <3>2, EndsAreNotGated DEF Keeps
    <2> QED  BY <1>3, <1>7, <2>1, QuietVouched
  <1> QED  BY <1>5, <1>6, <1>7 DEF RescheduleValidate, Goto, PlaceOf

\* The option taken was proposed; anything else goes back to Guacuco before it is offered.
LEMMA PresentVouched ==
    ASSUME Types, FlowInv, VouchedInv, ReschedulePresent \/ ReschedulePresentResumed
    PROVE  VouchedInv'
  <1>1. Collects
    BY CollectStep
  <1>2. draft \in Drafts /\ msg \in Messages
    BY DEF Types, TypeOK
  <1>3. draft'.key = None
    BY <1>1 DEF Collects, Goto, Keeps, Fresh
  <1>4. draft'.terminalOutcome = draft.terminalOutcome \/ draft'.terminalOutcome.action # "gated"
    BY <1>1, EndsAreNotGated DEF Collects, Goto, Keeps, Fresh
  <1>5. told' = told \/ told'.action # "gated"
    BY <1>1, EndsAreNotGated DEF Collects
  <1>6. vouched' = vouched
    BY DEF ReschedulePresent, ReschedulePresentResumed, history
  <1>7. CASE ReschedulePresent
    <2>1. draft'.proposed = draft.proposed /\ node' # "reschedule_build_confirm"
      BY <1>2, <1>7, FailedType DEF ReschedulePresent, Goto, Interrupt, Actions
    <2> QED  BY <1>3, <1>4, <1>5, <1>6, <2>1, QuietVouched
  <1>8. CASE ReschedulePresentResumed
    <2>1. draft' = Picked(draft, msg) /\ node' = RouteAfterPresent(draft')
      BY <1>8 DEF ReschedulePresentResumed, Goto
    <2>2. draft'.proposed = draft.proposed \/ draft'.proposed = <<>>
      BY <1>2, <2>1, PickedType
    <2>3. CASE msg.kind = "slot_pick" /\ msg.idx \in DOMAIN draft.proposed
      <3>1. draft'.newDate.value = draft.proposed[msg.idx][1]
            /\ draft'.newTime.value = draft.proposed[msg.idx][2]
        BY <1>2, <2>1, <2>3 DEF Picked, Resolved, Drafts
      <3>2. draft.proposed[msg.idx] \in Dates \X Times
        BY <1>2, <2>3 DEF Drafts, Places
      <3>3. PlaceOf(draft') = draft.proposed[msg.idx]
        BY <3>1, <3>2 DEF PlaceOf
      <3>4. PlaceOf(draft)' \in vouched'
        BY <1>6, <2>3, <3>3 DEF PlaceOf, VouchedInv, OptionsVouched
      <3>5. OptionsVouched'
        BY <1>6, <2>2 DEF VouchedInv, OptionsVouched
      <3> QED  BY <1>4, <1>5, <1>6, <3>4, <3>5
               DEF VouchedInv, CardVouched, EndNotGated, GatedWasVouched
    <2>4. CASE ~(msg.kind = "slot_pick" /\ msg.idx \in DOMAIN draft.proposed)
      <3>1. draft'.phase # "awaiting_confirmation"
        BY <1>2, <2>1, <2>4 DEF Picked, Drafts
      <3>2. node' # "reschedule_build_confirm"
        BY <2>1, <3>1 DEF RouteAfterPresent
      <3> QED  BY <1>3, <1>4, <1>5, <1>6, <2>2, <3>2, QuietVouched
    <2> QED  BY <2>3, <2>4
  <1> QED  BY <1>7, <1>8

\* The gate: the card names the slot of the draft.
LEMMA GateVouched ==
    ASSUME Types, FlowInv, VouchedInv,
           RescheduleBuildConfirm \/ RescheduleGate \/ RescheduleGateResumed
    PROVE  VouchedInv'
  <1>1. draft \in Drafts
    BY DEF Types, TypeOK
  <1>2. vouched' = vouched
    BY DEF RescheduleBuildConfirm, RescheduleGate, RescheduleGateResumed, history
  <1>3. /\ \A k, ph : LET e == [draft EXCEPT !.key = k, !.phase = ph] IN
                        e.key = k /\ e.proposed = draft.proposed /\ PlaceOf(e) = PlaceOf(draft)
                          /\ e.terminalOutcome = draft.terminalOutcome
        /\ \A ph : LET e == [draft EXCEPT !.phase = ph] IN
                        e.key = draft.key /\ e.proposed = draft.proposed /\ PlaceOf(e) = PlaceOf(draft)
                          /\ e.terminalOutcome = draft.terminalOutcome
    BY <1>1 DEF Drafts, PlaceOf
  <1>4. CASE RescheduleBuildConfirm
    <2>1. /\ draft'.proposed = draft.proposed /\ PlaceOf(draft') = PlaceOf(draft)
          /\ draft'.terminalOutcome = draft.terminalOutcome
      <3>1. CASE draft' = draft
        BY <3>1
      <3>2. CASE \E k : draft' = [draft EXCEPT !.key = k, !.phase = "awaiting_confirmation"]
        BY <1>1, <3>2 DEF PlaceOf, Drafts
      <3> QED  BY <1>4, <3>1, <3>2 DEF RescheduleBuildConfirm, Goto
    <2>2. UNCHANGED told /\ PlaceOf(draft) \in vouched
      BY <1>4 DEF RescheduleBuildConfirm, VouchedInv, CardVouched
    <2>3. PlaceOf(draft)' = PlaceOf(draft')
      BY DEF PlaceOf
    <2> QED  BY <1>2, <2>1, <2>2, <2>3
             DEF VouchedInv, OptionsVouched, CardVouched, EndNotGated, GatedWasVouched
  <1>5. CASE RescheduleGate
    <2>1. CASE draft.key = None
      <3>1. draft' = Failed(draft, "error") /\ node' = "subgraph_finalize" /\ UNCHANGED told
        BY <1>5, <2>1 DEF RescheduleGate, Goto
      <3>2. Keeps(draft', draft) /\ draft'.proposed = draft.proposed
        BY <1>1, <3>1, FailedKeeps, FailedType DEF Ends, Actions
      <3>3. draft'.terminalOutcome = draft.terminalOutcome \/ draft'.terminalOutcome.action # "gated"
        BY <3>2, EndsAreNotGated DEF Keeps
      <3> QED  BY <1>2, <2>1, <3>1, <3>2, <3>3, QuietVouched DEF Keeps
    <2>2. CASE draft.key # None
      <3>1. UNCHANGED draft /\ node' = "idle" /\ told' = Outcome("gated", cards[draft.key])
        BY <1>5, <2>2 DEF RescheduleGate, Interrupt
      <3>2. told'.names = Request(draft)
        BY <2>2, <3>1 DEF FlowInv, Bound, Outcome
      <3>3. <<told'.names.date, told'.names.time>> \in vouched
        BY <2>2, <3>2 DEF Request, VouchedInv, CardVouched, PlaceOf
      <3> QED  BY <1>2, <2>2, <3>1, <3>3
               DEF VouchedInv, OptionsVouched, CardVouched, EndNotGated, GatedWasVouched, PlaceOf
    <2> QED  BY <2>1, <2>2
  <1>6. CASE RescheduleGateResumed
    <2>1. /\ draft'.proposed = draft.proposed /\ PlaceOf(draft') = PlaceOf(draft)
          /\ draft'.key = None \/ draft'.key = draft.key
          /\ draft'.terminalOutcome = draft.terminalOutcome
      <3>1. CASE draft' = [draft EXCEPT !.phase = "committing"]
        BY <1>3, <3>1
      <3>2. CASE draft' = [draft EXCEPT !.key = None, !.phase = "collecting"]
        BY <1>3, <3>2
      <3> QED  BY <1>6, <3>1, <3>2 DEF RescheduleGateResumed, Goto
    <2>2. UNCHANGED told /\ node' # "reschedule_build_confirm"
      BY <1>6 DEF RescheduleGateResumed, Goto
    <2> QED  BY <1>2, <2>1, <2>2, QuietVouched
  <1> QED  BY <1>4, <1>5, <1>6

LEMMA CommitVouched ==
    ASSUME Types, FlowInv, VouchedInv,
           RescheduleCommit \/ RescheduleCommitAnswered \/ RescheduleSuccess
    PROVE  VouchedInv'
  <1>1. draft \in Drafts
    BY DEF Types, TypeOK
  <1>2. UNCHANGED <<vouched, told>> /\ node' # "reschedule_build_confirm"
    BY DEF RescheduleCommit, RescheduleCommitAnswered, RescheduleSuccess, history, Goto,
           RouteAfterCommit
  <1>3. ASSUME NEW o \in Ends
        PROVE  LET e == Failed(draft, o) IN
                 /\ e.key = draft.key /\ e.proposed = draft.proposed /\ PlaceOf(e) = PlaceOf(draft)
                 /\ e.terminalOutcome.action # "gated"
    BY <1>1, EndsAreNotGated DEF Failed, Drafts, PlaceOf
  <1>4. /\ \A ph : LET e == [draft EXCEPT !.phase = ph] IN
                     e.key = draft.key /\ e.proposed = draft.proposed /\ PlaceOf(e) = PlaceOf(draft)
                       /\ e.terminalOutcome = draft.terminalOutcome
        /\ \A o : LET e == [draft EXCEPT !.terminalOutcome = o] IN
                     e.key = draft.key /\ e.proposed = draft.proposed /\ PlaceOf(e) = PlaceOf(draft)
                       /\ e.terminalOutcome = o
    BY <1>1 DEF Drafts, PlaceOf
  <1>5. LET e == [draft EXCEPT !.proposed = <<>>, !.key = None, !.retried = TRUE,
                               !.phase = "validating_availability"] IN
          /\ e.key = None /\ e.proposed = <<>> /\ PlaceOf(e) = PlaceOf(draft)
          /\ e.terminalOutcome = draft.terminalOutcome
    BY <1>1 DEF Drafts, PlaceOf
  <1>6. /\ draft'.key = None \/ draft'.key = draft.key
        /\ draft'.proposed = draft.proposed \/ draft'.proposed = <<>>
        /\ PlaceOf(draft') = PlaceOf(draft)
        /\ draft'.terminalOutcome = draft.terminalOutcome \/ draft'.terminalOutcome.action # "gated"
    <2>1. CASE RescheduleCommit
      BY <1>3, <2>1 DEF RescheduleCommit, Goto, thread, Ends
    <2>2. CASE RescheduleCommitAnswered
      <3>1. PICK answer \in Answers(draft.key) : draft' = Committed(draft, answer)
        BY <2>2 DEF RescheduleCommitAnswered, Goto
      <3> QED  BY <1>3, <1>4, <1>5, <3>1 DEF Committed, Ends
    <2>3. CASE RescheduleSuccess
      BY <1>4, <2>3, EndsAreNotGated DEF RescheduleSuccess, Goto
    <2> QED  BY <2>1, <2>2, <2>3
  <1> QED  BY <1>2, <1>6, QuietVouched

LEMMA FinalizeVouched == VouchedInv /\ Finalize => VouchedInv'
  <1> SUFFICES ASSUME VouchedInv, Finalize PROVE VouchedInv'
    OBVIOUS
  <1>1. draft' = NoDraft /\ node' = "idle"
    BY DEF Finalize
  <1>2. told'.action # "gated"
    BY EndsAreNotGated DEF Finalize, VouchedInv, EndNotGated
  <1> QED  BY <1>1, <1>2, FreshDrafts, EndsAreNotGated
           DEF Fresh, VouchedInv, OptionsVouched, CardVouched, EndNotGated, GatedWasVouched

LEMMA OutsideVouched ==
    ASSUME Types, VouchedInv,
           \/ Arrive \/ \E k \in Keys : GuacucoExecute(k)
           \/ TakenElsewhere \/ CancelledElsewhere \/ UNCHANGED vars
    PROVE  VouchedInv'
  <1>1. UNCHANGED <<draft, vouched>>
    BY DEF Arrive, GuacucoExecute, TakenElsewhere, CancelledElsewhere, vars, turn, thread, history
  <1>2. told' = told \/ told'.action # "gated"
    BY EndsAreNotGated
       DEF Arrive, GuacucoExecute, TakenElsewhere, CancelledElsewhere, vars, turn, thread, history
  <1>3. node' = "reschedule_build_confirm" => node = "reschedule_build_confirm"
    BY DEF Arrive, GuacucoExecute, TakenElsewhere, CancelledElsewhere, vars, turn, Types, TypeOK
  <1> QED  BY <1>1, <1>2, <1>3, QuietVouched

LEMMA VouchedStep == Types /\ FlowInv /\ VouchedInv /\ [Next]_vars => VouchedInv'
  BY CollectVouched, ValidateVouched, PresentVouched, GateVouched, CommitVouched, FinalizeVouched,
     OutsideVouched DEF Next, TurnStep

\* Whatever the user rewrote, refused or lost in between, the gate only offers a slot that
\* Guacuco called free in this flow.
THEOREM OfferedWasVouched == Spec => []GatedWasVouched
  <1>1. Init => VouchedInv
    BY FreshDrafts, EndsAreNotGated
       DEF Init, Fresh, VouchedInv, OptionsVouched, CardVouched, EndNotGated, GatedWasVouched
  <1>2. VouchedInv => GatedWasVouched
    BY DEF VouchedInv
  <1> QED  BY <1>1, <1>2, FlowHolds, VouchedStep, PTL DEF Spec

-----------------------------------------------------------------------------
(* The one way to silence.                                                 *)

Alive   == /\ draft.phase = "failed" => draft.terminalOutcome # NoOutcome
           /\ node \notin {"idle", "supervisor"} \/ paused # "none" => draft.phase # "none"
           /\ draft.terminalOutcome.action # "ignored"
Full    == node = "reschedule_present" \/ paused = "reschedule_present" => AllResolved(draft)
Checked == node = "reschedule_validate" => AllResolved(draft) \/ Unread
Silent  == node = "subgraph_finalize" /\ draft.terminalOutcome = NoOutcome => Unread

\* Together they are inductive on top of FlowInv.
SilentInv == Alive /\ Full /\ Checked /\ Silent

\* Unread, of the draft that a node returns.
UnreadIn(d) == msg.kind # "media" /\ msg.date = None /\ Has(d.appt) /\ Has(d.newTime) /\ ~Has(d.newDate)

\* A draft that a node may lead on with.
Sound(d, n) ==
    /\ d.phase # "none" /\ (d.phase = "failed" => d.terminalOutcome # NoOutcome)
    /\ d.terminalOutcome.action # "ignored"
    /\ n = "reschedule_present" => AllResolved(d)
    /\ n = "reschedule_validate" => AllResolved(d) \/ UnreadIn(d)
    /\ n = "subgraph_finalize" /\ d.terminalOutcome = NoOutcome => UnreadIn(d)

LEMMA GotoSilent ==
    ASSUME NEW d, NEW n, Goto(d, n), Sound(d, n)
    PROVE  SilentInv'
  <1>1. draft' = d /\ node' = n /\ paused' = "none" /\ msg' = msg
    BY DEF Goto
  <1>2. Unread' <=> UnreadIn(d)
    BY <1>1 DEF Unread, UnreadIn
  <1>3. AllResolved(draft)' <=> AllResolved(d)
    BY <1>1 DEF AllResolved
  <1> QED  BY <1>1, <1>2, <1>3 DEF SilentInv, Alive, Full, Checked, Silent, Sound

LEMMA NamedOutcomes ==
    /\ NoOutcome.action = "none"
    /\ \A o, q : Outcome(o, q).action = o
    /\ \A o, q : o # "none" => Outcome(o, q) # NoOutcome
  <1>1. NoOutcome.action = "none" /\ \A o, q : Outcome(o, q).action = o
    BY DEF NoOutcome, Outcome
  <1> QED  BY <1>1

\* A draft that fails tells why.
LEMMA FailedSound ==
    ASSUME NEW d \in Drafts, NEW o \in Ends
    PROVE  Sound(Failed(d, o), "subgraph_finalize")
  <1>1. Failed(d, o).phase = "failed" /\ Failed(d, o).terminalOutcome = Outcome(o, NoRequest)
    BY DEF Failed, Drafts
  <1> QED  BY <1>1, NamedOutcomes DEF Sound, Ends

\* What the collecting nodes lead on with.
LEMMA CollectingSound ==
    ASSUME NEW d \in Drafts, d.phase # "none",
           d.phase = "failed" => d.terminalOutcome # NoOutcome,
           d.terminalOutcome.action # "ignored"
    PROVE  Sound(d, DecideAfterCollecting(d))
  BY DEF Sound, DecideAfterCollecting, IsActiveDraft

LEMMA CollectSilent ==
    ASSUME Types, FlowInv, SilentInv,
           \/ Supervisor \/ RescheduleBootstrap \/ RescheduleAskSlot \/ RescheduleAskSlotResumed
    PROVE  SilentInv'
  <1>1. draft \in Drafts /\ upcomings \in SUBSET Appts /\ msg \in Messages
    BY DEF Types, TypeOK
  <1>2. ASSUME NEW e \in Drafts, Keeps(e, draft)
        PROVE  e.terminalOutcome.action # "ignored"
    BY <1>2, NamedOutcomes DEF Keeps, Ends, SilentInv, Alive
  <1>3. CASE Supervisor
    <2>1. draft = NoDraft /\ paused = "none"
      BY <1>3 DEF Supervisor, FlowInv, Waiting
    <2>2. ASSUME NEW d, Goto(d, "reschedule_bootstrap"),
                 d = initialRescheduleDraftState
                   \/ d = [initialRescheduleDraftState EXCEPT !.appt = Resolved(msg.appt)]
          PROVE  SilentInv'
      <3>1. d.phase = "collecting" /\ d.terminalOutcome = NoOutcome
        BY <2>2, NoDraftType DEF initialRescheduleDraftState, NoDraft
      <3>2. Sound(d, "reschedule_bootstrap")
        BY <3>1, NamedOutcomes DEF Sound
      <3> QED  BY <2>2, <3>2, GotoSilent
    <2>3. CASE node' = "idle" /\ UNCHANGED thread
      BY <2>1, <2>3 DEF SilentInv, Alive, Full, Checked, Silent, thread
    <2> QED  BY <1>3, <2>1, <2>2, <2>3 DEF Supervisor
  <1>4. CASE RescheduleBootstrap
    <2>1. PICK d \in Bootstrapped(draft, upcomings) : Goto(d, DecideAfterCollecting(d))
      BY <1>4 DEF RescheduleBootstrap
    <2>2. d \in Drafts /\ Keeps(d, draft)
      BY <1>1, BootstrappedType, BootstrappedKeeps
    <2>3. d.phase = "collecting"
            \/ (d.phase = "failed" /\ d.terminalOutcome = Outcome("no_upcomings", NoRequest))
      <3>1. CASE \E a : d = Chosen(draft, a)
        <4>1. PICK a : d = Chosen(draft, a)
          BY <3>1
        <4>2. d.phase = "collecting"
          BY <1>1, <4>1 DEF Chosen, Drafts
        <4> QED  BY <4>2
      <3>2. CASE d = Failed(draft, "no_upcomings")
        BY <1>1, <3>2 DEF Failed, Drafts
      <3>3. CASE d = [draft EXCEPT !.phase = "collecting"]
        <4>1. d.phase = "collecting"
          BY <1>1, <3>3 DEF Drafts
        <4> QED  BY <4>1
      <3> QED  BY <3>1, <3>2, <3>3 DEF Bootstrapped, Chosen
    <2>4. Sound(d, DecideAfterCollecting(d))
      BY <1>2, <2>2, <2>3, NamedOutcomes, CollectingSound
    <2> QED  BY <2>1, <2>4, GotoSilent
  <1>5. CASE RescheduleAskSlot
    <2>1. CASE Interrupt("reschedule_ask_slot")
      <3>1. UNCHANGED draft /\ node' = "idle" /\ paused' = "reschedule_ask_slot"
        BY <2>1 DEF Interrupt
      <3>2. draft.phase # "none"
        BY <1>5 DEF RescheduleAskSlot, SilentInv, Alive
      <3> QED  BY <3>1, <3>2 DEF SilentInv, Alive, Full, Checked, Silent
    <2>2. CASE Goto(Failed(draft, "handed_off"), DecideAfterCollecting(Failed(draft, "handed_off")))
      <3>1. Failed(draft, "handed_off").phase = "failed"
        BY <1>1 DEF Failed, Drafts
      <3>2. DecideAfterCollecting(Failed(draft, "handed_off")) = "subgraph_finalize"
        BY <3>1 DEF DecideAfterCollecting, IsActiveDraft
      <3> QED  BY <1>1, <2>2, <3>2, FailedSound, GotoSilent DEF Ends
    <2>3. ASSUME NEW d, d = [draft EXCEPT !.phase = "validating_availability"],
                 Goto(d, DecideAfterCollecting(d))
          PROVE  SilentInv'
      <3>1. d \in Drafts /\ d.phase = "validating_availability" /\ Keeps(d, draft)
        BY <1>1, <2>3, PhaseKeeps DEF Drafts, Phases
      <3>2. Sound(d, DecideAfterCollecting(d))
        BY <1>2, <3>1, CollectingSound
      <3> QED  BY <2>3, <3>2, GotoSilent
    <2> QED  BY <1>5, <2>1, <2>2, <2>3 DEF RescheduleAskSlot
  <1>6. CASE RescheduleAskSlotResumed
    <2> DEFINE d == Interpreted(draft, msg, upcomings)
    <2>1. d \in Drafts /\ Keeps(d, draft)
      BY <1>1, InterpretedType, InterpretedKeeps
    <2>2. d.phase \in {draft.phase, "collecting"} /\ d.terminalOutcome = draft.terminalOutcome
      BY <1>1 DEF Interpreted, Drafts
    <2>3. Goto(d, DecideAfterCollecting(d))
      BY <1>6 DEF RescheduleAskSlotResumed
    <2>4. draft.phase # "none"
      BY <1>6 DEF RescheduleAskSlotResumed, SilentInv, Alive
    <2> HIDE DEF d
    <2>5. Sound(d, DecideAfterCollecting(d))
      BY <1>2, <2>1, <2>2, <2>4, CollectingSound DEF SilentInv, Alive
    <2> QED  BY <2>3, <2>5, GotoSilent
  <1> QED  BY <1>3, <1>4, <1>5, <1>6

\* Only an answer to the proposals reaches validate with a slot unresolved, and it is the day.
LEMMA AvailabilitySilent ==
    ASSUME Types, FlowInv, SilentInv,
           RescheduleValidate \/ ReschedulePresent \/ ReschedulePresentResumed
    PROVE  SilentInv'
  <1>1. draft \in Drafts /\ msg \in Messages
    BY DEF Types, TypeOK
  <1>2. CASE RescheduleValidate
    <2>1. CASE ~AllResolved(draft) /\ Goto([draft EXCEPT !.phase = "collecting"], "subgraph_finalize")
      <3> DEFINE d == [draft EXCEPT !.phase = "collecting"]
      <3>1. /\ d.phase = "collecting" /\ d.terminalOutcome = draft.terminalOutcome
            /\ d.appt = draft.appt /\ d.newDate = draft.newDate /\ d.newTime = draft.newTime
        BY <1>1 DEF Drafts
      <3>2. Unread
        BY <1>2, <2>1 DEF RescheduleValidate, SilentInv, Checked
      <3> HIDE DEF d
      <3>3. UnreadIn(d)
        BY <3>1, <3>2 DEF Unread, UnreadIn
      <3>4. Sound(d, "subgraph_finalize")
        BY <3>1, <3>3 DEF Sound, SilentInv, Alive
      <3> QED  BY <2>1, <3>4, GotoSilent DEF d
    <2>2. CASE Goto(Failed(draft, "error"), "subgraph_finalize")
      BY <1>1, <2>2, FailedSound, GotoSilent DEF Ends
    <2>3. ASSUME AllResolved(draft), NEW p, NEW ph \in {"awaiting_confirmation", "awaiting_pick"},
                 NEW n \in {"reschedule_build_confirm", "reschedule_present"},
                 Goto([draft EXCEPT !.proposed = p, !.phase = ph], n)
          PROVE  SilentInv'
      <3> DEFINE d == [draft EXCEPT !.proposed = p, !.phase = ph]
      <3>1. /\ d.phase = ph /\ d.terminalOutcome = draft.terminalOutcome
            /\ d.appt = draft.appt /\ d.newDate = draft.newDate /\ d.newTime = draft.newTime
        BY <1>1 DEF Drafts
      <3>2. Sound(d, n)
        BY <2>3, <3>1 DEF Sound, AllResolved, SilentInv, Alive
      <3> HIDE DEF d
      <3> QED  BY <2>3, <3>2, GotoSilent DEF d
    <2> QED  BY <1>2, <2>1, <2>2, <2>3 DEF RescheduleValidate
  <1>3. CASE ReschedulePresent
    <2>1. AllResolved(draft) /\ draft.phase # "none"
      BY <1>3 DEF ReschedulePresent, SilentInv, Alive, Full
    <2>2. CASE Interrupt("reschedule_present")
      <3>1. UNCHANGED draft /\ node' = "idle" /\ paused' = "reschedule_present"
        BY <2>2 DEF Interrupt
      <3> QED  BY <2>1, <3>1 DEF SilentInv, Alive, Full, Checked, Silent, AllResolved
    <2>3. CASE Goto(Failed(draft, "handed_off"), "subgraph_finalize")
      BY <1>1, <2>3, FailedSound, GotoSilent DEF Ends
    <2> QED  BY <1>3, <2>2, <2>3 DEF ReschedulePresent
  <1>4. CASE ReschedulePresentResumed
    <2> DEFINE d == Picked(draft, msg)
    <2>1. AllResolved(draft)
      BY <1>4 DEF ReschedulePresentResumed, SilentInv, Full
    <2>2. /\ d.phase \in {"awaiting_confirmation", "collecting", "awaiting_pick"}
          /\ d.terminalOutcome = draft.terminalOutcome /\ d.appt = draft.appt
      BY <1>1 DEF Picked, Drafts
    <2>3. d.phase = "awaiting_pick" => AllResolved(d)
      BY <1>1, <2>1 DEF Picked, Drafts, AllResolved
    <2>4. d.phase = "collecting" =>
            /\ msg.kind # "media" /\ d.newDate = Parsed(msg.date)
            /\ d.newTime = IF msg.time = None THEN draft.newTime ELSE Resolved(msg.time)
      BY <1>1 DEF Picked, Drafts
    <2>5. Goto(d, RouteAfterPresent(d))
      BY <1>4 DEF ReschedulePresentResumed
    <2> HIDE DEF d
    <2>6. d.phase = "collecting" => AllResolved(d) \/ UnreadIn(d)
      <3> SUFFICES ASSUME d.phase = "collecting" PROVE AllResolved(d) \/ UnreadIn(d)
        OBVIOUS
      <3>1. Has(d.appt) /\ Has(d.newTime)
        BY <2>1, <2>2, <2>4 DEF AllResolved, Has, Resolved
      <3>2. msg.date # None => Has(d.newDate)
        BY <2>4 DEF Has, Parsed
      <3> QED  BY <2>4, <3>1, <3>2 DEF AllResolved, UnreadIn
    <2>7. Sound(d, RouteAfterPresent(d))
      BY <2>2, <2>3, <2>6 DEF Sound, RouteAfterPresent, IsActiveDraft, SilentInv, Alive
    <2> QED  BY <2>5, <2>7, GotoSilent
  <1> QED  BY <1>2, <1>3, <1>4

LEMMA GateSilent ==
    ASSUME Types, FlowInv, SilentInv,
           \/ RescheduleBuildConfirm \/ RescheduleGate \/ RescheduleGateResumed
           \/ RescheduleCommit \/ RescheduleCommitAnswered \/ RescheduleSuccess
    PROVE  SilentInv'
  <1>1. /\ draft \in Drafts /\ draft.terminalOutcome.action # "ignored"
        /\ draft.phase # "none" /\ (draft.phase = "failed" => draft.terminalOutcome # NoOutcome)
    BY DEF Types, TypeOK, SilentInv, Alive, RescheduleBuildConfirm, RescheduleGate,
           RescheduleGateResumed, RescheduleCommit, RescheduleCommitAnswered, RescheduleSuccess
  <1>2. ASSUME NEW d, NEW n, n \notin {"reschedule_present", "reschedule_validate", "subgraph_finalize"},
               Goto(d, n), d.terminalOutcome = draft.terminalOutcome,
               d.phase \in {draft.phase, "awaiting_confirmation", "committing", "collecting", "done"}
        PROVE  SilentInv'
    BY <1>1, <1>2, GotoSilent DEF Sound
  <1>3. CASE Goto(Failed(draft, "error"), "subgraph_finalize")
    BY <1>1, <1>3, FailedSound, GotoSilent DEF Ends
  <1>4. CASE RescheduleBuildConfirm
    <2>1. CASE Goto(draft, "subgraph_gate")
      BY <1>2, <2>1
    <2>2. ASSUME NEW k, Goto([draft EXCEPT !.key = k, !.phase = "awaiting_confirmation"], "subgraph_gate")
          PROVE  SilentInv'
      <3> DEFINE d == [draft EXCEPT !.key = k, !.phase = "awaiting_confirmation"]
      <3>1. d.phase = "awaiting_confirmation" /\ d.terminalOutcome = draft.terminalOutcome
        BY <1>1 DEF Drafts
      <3> HIDE DEF d
      <3>2. Goto(d, "subgraph_gate")
        BY <2>2 DEF d
      <3> QED  BY <1>2, <3>1, <3>2
    <2> QED  BY <1>4, <2>1, <2>2 DEF RescheduleBuildConfirm
  <1>5. CASE RescheduleGate
    <2>1. CASE Interrupt("subgraph_gate")
      BY <1>1, <2>1 DEF Interrupt, SilentInv, Alive, Full, Checked, Silent
    <2> QED  BY <1>3, <1>5, <2>1 DEF RescheduleGate
  <1>6. CASE RescheduleGateResumed
    <2>1. CASE Goto([draft EXCEPT !.phase = "committing"], "reschedule_commit")
      <3> DEFINE d == [draft EXCEPT !.phase = "committing"]
      <3>1. d.phase = "committing" /\ d.terminalOutcome = draft.terminalOutcome
        BY <1>1 DEF Drafts
      <3> HIDE DEF d
      <3> QED  BY <1>2, <2>1, <3>1 DEF d
    <2>2. CASE Goto([draft EXCEPT !.key = None, !.phase = "collecting"], "reschedule_ask_slot")
      <3> DEFINE d == [draft EXCEPT !.key = None, !.phase = "collecting"]
      <3>1. d.phase = "collecting" /\ d.terminalOutcome = draft.terminalOutcome
        BY <1>1 DEF Drafts
      <3> HIDE DEF d
      <3>2. Goto(d, "reschedule_ask_slot")
        BY <2>2 DEF d
      <3> QED  BY <1>2, <3>1, <3>2
    <2> QED  BY <1>6, <2>1, <2>2 DEF RescheduleGateResumed
  <1>7. CASE RescheduleCommit
    <2>1. CASE node' = "guacuco" /\ UNCHANGED thread
      <3>1. paused = "none"
        BY <1>7 DEF RescheduleCommit, FlowInv, Waiting, Types, TypeOK
      <3> QED  BY <1>1, <2>1, <3>1 DEF thread, SilentInv, Alive, Full, Checked, Silent
    <2> QED  BY <1>3, <1>7, <2>1 DEF RescheduleCommit
  <1>8. CASE RescheduleCommitAnswered
    <2>1. PICK answer \in Answers(draft.key) :
            Goto(Committed(draft, answer), RouteAfterCommit(Committed(draft, answer)))
      BY <1>8 DEF RescheduleCommitAnswered
    <2> DEFINE d == Committed(draft, answer)
    <2>2. AllResolved(draft)
      BY <1>8 DEF RescheduleCommitAnswered, Types, Sending
    <2>3. /\ d.appt = draft.appt /\ d.newDate = draft.newDate /\ d.newTime = draft.newTime
          /\ \/ /\ d.phase \in {"done", "validating_availability"}
                /\ d.terminalOutcome = draft.terminalOutcome
             \/ /\ d.phase = "failed"
                /\ \E o \in Ends : d.terminalOutcome = Outcome(o, NoRequest)
      BY <1>1 DEF Committed, Failed, Drafts, Ends
    <2> HIDE DEF d
    <2>4. AllResolved(d)
      BY <2>2, <2>3 DEF AllResolved
    <2>5. d.terminalOutcome.action # "ignored" /\ (d.phase = "failed" => d.terminalOutcome # NoOutcome)
      BY <1>1, <2>3, NamedOutcomes DEF Ends
    <2>6. Sound(d, RouteAfterCommit(d))
      BY <2>3, <2>4, <2>5 DEF Sound, RouteAfterCommit, IsActiveDraft
    <2> QED  BY <2>1, <2>6, GotoSilent DEF d
  <1>9. CASE RescheduleSuccess
    <2> DEFINE d == [draft EXCEPT !.terminalOutcome = Outcome("success", Request(draft))]
    <2>1. d.phase = draft.phase /\ d.terminalOutcome = Outcome("success", Request(draft))
      BY <1>1 DEF Drafts
    <2> HIDE DEF d
    <2>2. Sound(d, "subgraph_finalize")
      BY <1>1, <2>1, NamedOutcomes DEF Sound
    <2> QED  BY <1>9, <2>2, GotoSilent DEF RescheduleSuccess, d
  <1> QED  BY <1>4, <1>5, <1>6, <1>7, <1>8, <1>9

LEMMA OutsideSilent ==
    ASSUME Types, FlowInv, SilentInv,
           \/ Arrive \/ Finalize \/ \E k \in Keys : GuacucoExecute(k)
           \/ TakenElsewhere \/ CancelledElsewhere \/ UNCHANGED vars
    PROVE  SilentInv'
  <1>1. CASE Arrive
    <2>1. UNCHANGED <<draft, paused>> /\ node = "idle" /\ paused \in Pauses
          /\ node' = IF paused # "none" THEN paused ELSE "supervisor"
      BY <1>1 DEF Arrive, Types, TypeOK, Pauses
    <2>2. node' = "reschedule_present" <=> paused = "reschedule_present"
      BY <2>1
    <2>3. node' \notin {"idle", "supervisor"} <=> paused # "none"
      BY <2>1 DEF Pauses
    <2>4. node' # "reschedule_validate" /\ node' # "subgraph_finalize"
      BY <2>1 DEF Pauses
    <2> QED  BY <2>1, <2>2, <2>3, <2>4
             DEF SilentInv, Alive, Full, Checked, Silent, AllResolved
  <1>2. CASE Finalize
    BY <1>2, NamedOutcomes DEF Finalize, NoDraft, SilentInv, Alive, Full, Checked, Silent
  <1>3. CASE (\E k \in Keys : GuacucoExecute(k)) \/ TakenElsewhere \/ CancelledElsewhere \/ UNCHANGED vars
    <2>1. UNCHANGED <<node, msg, draft, paused>>
      BY <1>3 DEF GuacucoExecute, TakenElsewhere, CancelledElsewhere, vars, turn, thread
    <2> QED  BY <2>1 DEF SilentInv, Alive, Full, Checked, Silent, AllResolved, Unread
  <1> QED  BY <1>1, <1>2, <1>3

LEMMA SilentStep == Types /\ FlowInv /\ SilentInv /\ [Next]_vars => SilentInv'
  BY CollectSilent, AvailabilitySilent, GateSilent, OutsideSilent DEF Next, TurnStep

\* Silence has one cause, in every flow: a text without a day in answer to the slots proposed.
THEOREM SilenceExplained == Spec => SilentOnlyUnread
  <1>1. Init => SilentInv
    BY NamedOutcomes DEF Init, NoDraft, SilentInv, Alive, Full, Checked, Silent
  <1>2. Types /\ FlowInv /\ SilentInv /\ [Next]_vars =>
            [told'.action = "ignored" /\ told' # told => Unread]_vars
    <2> SUFFICES ASSUME Types, FlowInv, SilentInv, Next, told'.action = "ignored", told' # told
                 PROVE  Unread
      OBVIOUS
    <2>1. CASE Finalize
      <3>1. draft.terminalOutcome = NoOutcome
        BY <2>1 DEF Finalize, SilentInv, Alive
      <3> QED  BY <2>1, <3>1 DEF Finalize, SilentInv, Silent
    <2>2. CASE ~Finalize
      <3>1. told' = told \/ \E o \in Actions \ {"ignored"} : \E q : told' = Outcome(o, q)
        BY <2>2 DEF Next, TurnStep, Arrive, Supervisor, RescheduleBootstrap, RescheduleAskSlot,
           RescheduleAskSlotResumed, RescheduleValidate, ReschedulePresent,
           ReschedulePresentResumed, RescheduleBuildConfirm, RescheduleGate,
           RescheduleGateResumed, RescheduleCommit, RescheduleCommitAnswered, RescheduleSuccess,
           GuacucoExecute, TakenElsewhere, CancelledElsewhere, NoOutcome, Actions
      <3> QED  BY <3>1, NamedOutcomes
    <2> QED  BY <2>1, <2>2
  <1> QED  BY <1>1, <1>2, FlowHolds, SilentStep, PTL DEF Spec, SilentOnlyUnread

-----------------------------------------------------------------------------
(* The turn ends.                                                          *)

\* Where each node leads.
LEMMA Edges ==
    ASSUME Types, TurnStep
    PROVE  \/ node' = "idle" /\ node # "idle"
           \/ /\ node' = "subgraph_finalize" /\ ~resumed'
              /\ node \notin {"idle", "subgraph_finalize"}
           \/ node = "supervisor" /\ node' = "reschedule_bootstrap"
           \/ /\ node \in {"reschedule_bootstrap", "reschedule_ask_slot"}
              /\ node' = "reschedule_validate"
           \/ /\ node = "reschedule_bootstrap" \/ (node = "reschedule_ask_slot" /\ resumed)
              /\ node' = "reschedule_ask_slot" /\ ~resumed'
           \/ /\ node = "reschedule_validate" /\ ~resumed'
              /\ node' \in {"reschedule_build_confirm", "reschedule_present"}
           \/ /\ node = "reschedule_present" /\ resumed /\ ~resumed'
              /\ node' \in {"reschedule_build_confirm", "reschedule_validate", "reschedule_present"}
           \/ node = "reschedule_build_confirm" /\ node' = "subgraph_gate" /\ ~resumed'
           \/ /\ node = "subgraph_gate" /\ resumed /\ ~resumed'
              /\ node' \in {"reschedule_commit", "reschedule_ask_slot"}
           \/ node = "reschedule_commit" /\ node' = "guacuco"
           \/ node = "guacuco" /\ node' \in {"reschedule_validate", "reschedule_success"}
  <1>1. CASE Supervisor \/ RescheduleBootstrap
    BY <1>1 DEF Supervisor, RescheduleBootstrap, Goto, DecideAfterCollecting
  <1>2. CASE RescheduleAskSlot
    <2>1. CASE AllResolved(draft) /\ draft.attempts < MAX_ATTEMPTS
      <3>1. AllResolved([draft EXCEPT !.phase = "validating_availability"])
        BY <2>1 DEF AllResolved, Types, TypeOK, Drafts
      <3>2. ~(draft.attempts >= MAX_ATTEMPTS)
        BY <2>1, ConstantsOK DEF ConstantsOK, Types, TypeOK, Drafts
      <3> QED  BY <1>2, <2>1, <3>1, <3>2 DEF RescheduleAskSlot, Goto, DecideAfterCollecting
    <2>2. CASE draft.attempts >= MAX_ATTEMPTS
      <3>1. ~IsActiveDraft(Failed(draft, "handed_off"))
        BY DEF IsActiveDraft, Failed, Types, TypeOK, Drafts
      <3> QED  BY <1>2, <2>2, <3>1 DEF RescheduleAskSlot, Goto, DecideAfterCollecting
    <2> QED  BY <1>2, <2>1, <2>2, ConstantsOK
             DEF RescheduleAskSlot, Interrupt, Types, TypeOK, Drafts, ConstantsOK
  <1>3. CASE RescheduleAskSlotResumed
    BY <1>3 DEF RescheduleAskSlotResumed, Goto, DecideAfterCollecting
  <1>4. CASE RescheduleValidate \/ ReschedulePresent \/ ReschedulePresentResumed
    BY <1>4 DEF RescheduleValidate, ReschedulePresent, ReschedulePresentResumed, Goto, Interrupt,
                RouteAfterPresent
  <1>5. CASE RescheduleBuildConfirm \/ RescheduleGate \/ RescheduleGateResumed
    BY <1>5 DEF RescheduleBuildConfirm, RescheduleGate, RescheduleGateResumed, Goto, Interrupt
  <1>6. CASE RescheduleCommit \/ RescheduleCommitAnswered \/ RescheduleSuccess \/ Finalize
    BY <1>6 DEF RescheduleCommit, RescheduleCommitAnswered, RescheduleSuccess, Finalize, Goto,
                RouteAfterCommit
  <1> QED  BY <1>1, <1>2, <1>3, <1>4, <1>5, <1>6 DEF TurnStep

LEMMA StepShrinks ==
    ASSUME Types, TurnStep
    PROVE  Rank' < Rank
  <1>1. /\ node' = "idle" /\ node # "idle" => Rank' < Rank
        /\ node' = "subgraph_finalize" /\ ~resumed' /\ node \notin {"idle", "subgraph_finalize"}
             => Rank' < Rank
    BY DEF Rank, Types, TypeOK
  <1>2. /\ node = "supervisor" /\ node' = "reschedule_bootstrap" => Rank' < Rank
        /\ node \in {"reschedule_bootstrap", "reschedule_ask_slot"}
             /\ node' = "reschedule_validate" => Rank' < Rank
        /\ (node = "reschedule_bootstrap" \/ (node = "reschedule_ask_slot" /\ resumed))
             /\ node' = "reschedule_ask_slot" /\ ~resumed' => Rank' < Rank
    BY DEF Rank
  <1>3. /\ node = "reschedule_validate" /\ ~resumed'
             /\ node' \in {"reschedule_build_confirm", "reschedule_present"} => Rank' < Rank
        /\ node = "reschedule_present" /\ resumed /\ ~resumed'
             /\ node' \in {"reschedule_build_confirm", "reschedule_validate", "reschedule_present"}
             => Rank' < Rank
    BY DEF Rank
  <1>4. /\ node = "reschedule_build_confirm" /\ node' = "subgraph_gate" /\ ~resumed' => Rank' < Rank
        /\ node = "subgraph_gate" /\ resumed /\ ~resumed'
             /\ node' \in {"reschedule_commit", "reschedule_ask_slot"} => Rank' < Rank
        /\ node = "reschedule_commit" /\ node' = "guacuco" => Rank' < Rank
        /\ node = "guacuco" /\ node' \in {"reschedule_validate", "reschedule_success"} => Rank' < Rank
    BY DEF Rank
  <1> QED  BY <1>1, <1>2, <1>3, <1>4, Edges, Zenon

\* Every node a turn runs brings it nearer its end, whatever the draft, the calendar and the
\* answers; and no turn is further from it than seven nodes.
THEOREM TurnsShrink == Spec => TurnShrinks /\ [](Rank \in 0..7)
  <1>1. Types /\ [Next]_vars => [node # "idle" => Rank' < Rank \/ UNCHANGED <<turn, thread>>]_vars
    <2> SUFFICES ASSUME Types, Next, node # "idle"
                 PROVE  Rank' < Rank \/ UNCHANGED <<turn, thread>>
      OBVIOUS
    <2>1. CASE (\E k \in Keys : GuacucoExecute(k)) \/ TakenElsewhere \/ CancelledElsewhere
      BY <2>1 DEF GuacucoExecute, TakenElsewhere, CancelledElsewhere
    <2> QED  BY <2>1, StepShrinks DEF Next, Arrive
  <1>2. Types => Rank \in 0..7
    BY DEF Rank, Types, TypeOK
  <1> QED  BY <1>1, <1>2, TypesHold, PTL DEF Spec, TurnShrinks

=============================================================================
