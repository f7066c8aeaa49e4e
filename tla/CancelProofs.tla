---------------------------- MODULE CancelProofs ----------------------------
(***************************************************************************)
(* Theorems about Cancel, for every set of appointments and turns and every *)
(* bound: types, the tap behind every commit, the button that stays bound  *)
(* to what its message named, no turn without an answer; and, one turn at a *)
(* time, the card behind every request and the booking behind every success. *)
(***************************************************************************)
EXTENDS Cancel, TLAPS

-----------------------------------------------------------------------------
(* Types.                                                                  *)

USE DEF NoKey

\* The record sets, in the form the steps below need them.
LEMMA DraftShapes ==
    ASSUME ConstantsOK
    PROVE  /\ NoDraft \in Drafts
           /\ initialCancelDraftState \in Drafts
           /\ Unconfirmed \in Confirms
           /\ \A a \in Appts \cup {NoAppt} : Resolved(a) \in Slots
           /\ NoThread \in Checkpoints
           /\ Idle \in RunStates
           /\ NoRow \in IdemRows
           /\ NoOutcome \in Outcomes
  BY DEF NoDraft, initialCancelDraftState, Drafts, Phases, Slots, Confirms, Outcomes,
     Unconfirmed, EmptySlot, Resolved, NoOutcome, Outcome, NoThread, Checkpoints, Idle, RunStates,
     Nodes, Messages, Say, NoRow, IdemRows

\* The messages of the inbox are messages.
LEMMA InboxType ==
    ASSUME ConstantsOK, TypeOK
    PROVE  /\ Inbox \subseteq Messages
           /\ \A m \in Inbox : m.key # NoKey => m.key \in Keys /\ cards[m.key] # NoAppt
  BY DEF Inbox, Messages, Say, Pick, Template, Tap, TypeOK, Keys

\* A step of a node keeps the types of the thread and of the turn.
LEMMA GotoType ==
    ASSUME ConstantsOK, TypeOK, NEW r \in Runs, NEW d \in Drafts, NEW n \in Nodes, Goto(r, d, n)
    PROVE  ckpt' \in Checkpoints /\ runs' \in [Runs -> RunStates]
  <1>1. ckpt' \in Checkpoints
    BY DraftShapes DEF Goto, NoThread, Checkpoints
  <1>2. Say("text") \in Messages
    BY DEF Say, Messages
  <1>3. runs' \in [Runs -> RunStates]
    BY <1>2 DEF Goto, TypeOK, RunStates
  <1> QED  BY <1>1, <1>3

\* An interrupt keeps them too.
LEMMA InterruptType ==
    ASSUME ConstantsOK, TypeOK, NEW r \in Runs,
           NEW n \in {"cancel_ask_slot", "subgraph_gate"}, Interrupt(r, n)
    PROVE  ckpt' \in Checkpoints /\ runs' \in [Runs -> RunStates]
  <1>1. Idle \in RunStates
    BY DraftShapes
  <1>2. runs' \in [Runs -> RunStates]
    BY <1>1 DEF Interrupt, TypeOK
  <1>3. runs[r].upcomings \in SUBSET Appts
    BY DEF TypeOK, RunStates
  <1>4. ckpt' \in Checkpoints
    BY <1>3 DEF Interrupt, TypeOK, Checkpoints
  <1> QED  BY <1>2, <1>4

\* What the nodes make of a draft is a draft.
LEMMA DraftType ==
    ASSUME ConstantsOK, NEW d \in Drafts
    PROVE  /\ \A o \in {"no_upcomings", "handed_off", "error"} : Failed(d, o) \in Drafts
           /\ \A ph \in Phases : [d EXCEPT !.phase = ph] \in Drafts
           /\ \A U \in SUBSET Appts : Bootstrapped(d, U) \subseteq Drafts
           /\ \A m \in Messages, U \in SUBSET Appts : Interpreted(d, m, U) \in Drafts
           /\ \A answer : Committed(d, answer) \in Drafts
           /\ \A a \in Appts \cup {NoAppt} :
                [d EXCEPT !.terminalOutcome = Outcome("success", a)] \in Drafts
           /\ \A k \in Keys : [d EXCEPT !.confirmation = [key |-> k, names |-> d.slot.value],
                                        !.phase = "awaiting_confirmation"] \in Drafts
           /\ [d EXCEPT !.confirmation = Unconfirmed, !.phase = "collecting"] \in Drafts
  <1>1. \A o \in {"no_upcomings", "handed_off", "error"} : Failed(d, o) \in Drafts
    BY DEF Failed, Drafts, Phases, Outcomes, Outcome
  <1>2. \A ph \in Phases : [d EXCEPT !.phase = ph] \in Drafts
    BY DEF Drafts
  <1>3. \A U \in SUBSET Appts : Bootstrapped(d, U) \subseteq Drafts
    <2> SUFFICES ASSUME NEW U \in SUBSET Appts, NEW e \in Bootstrapped(d, U)
                 PROVE  e \in Drafts
      OBVIOUS
    <2>1. \A a \in U : [d EXCEPT !.slot = Resolved(a), !.phase = "awaiting_confirmation"] \in Drafts
      BY DEF Drafts, Phases, Resolved, Slots
    <2>2. /\ [d EXCEPT !.phase = "awaiting_confirmation"] \in Drafts
          /\ [d EXCEPT !.phase = "collecting"] \in Drafts
      BY <1>2 DEF Phases
    <2> QED  BY <1>1, <2>1, <2>2 DEF Bootstrapped
  <1>4. \A m \in Messages, U \in SUBSET Appts : Interpreted(d, m, U) \in Drafts
    <2> SUFFICES ASSUME NEW m \in Messages, NEW U \in SUBSET Appts
                 PROVE  Interpreted(d, m, U) \in Drafts
      OBVIOUS
    <2>1. [d EXCEPT !.attempts = @ + 1] \in Drafts
      BY DEF Drafts
    <2>2. m.value \in U => Resolved(m.value) \in Slots
      BY DEF Resolved, Slots
    <2>3. [status |-> "guessed", value |-> NoAppt] \in Slots
      BY DEF Slots
    <2>4. ASSUME NEW e \in Drafts, NEW t \in Slots
          PROVE  /\ [e EXCEPT !.slot = t] \in Drafts
                 /\ [e EXCEPT !.slot = t, !.phase = "awaiting_confirmation"] \in Drafts
      BY DEF Drafts, Phases
    <2> QED  BY <2>1, <2>2, <2>3, <2>4 DEF Interpreted
  <1>5. \A answer : Committed(d, answer) \in Drafts
    BY <1>1, <1>2 DEF Committed, Phases
  <1>6. \A a \in Appts \cup {NoAppt} :
           [d EXCEPT !.terminalOutcome = Outcome("success", a)] \in Drafts
    BY DEF Drafts, Outcomes, Outcome
  <1>7. \A k \in Keys : [d EXCEPT !.confirmation = [key |-> k, names |-> d.slot.value],
                                  !.phase = "awaiting_confirmation"] \in Drafts
    BY DEF Drafts, Confirms, Phases, Slots
  <1>8. [d EXCEPT !.confirmation = Unconfirmed, !.phase = "collecting"] \in Drafts
    BY DEF Drafts, Confirms, Phases, Unconfirmed
  <1> QED  BY <1>1, <1>2, <1>3, <1>4, <1>5, <1>6, <1>7, <1>8

-----------------------------------------------------------------------------
\* An empty thread, idle turns and no message have their types.
LEMMA TypeInit == ConstantsOK /\ Init => TypeOK
  <1> SUFFICES ASSUME ConstantsOK, Init PROVE TypeOK
    OBVIOUS
  <1>1. nextKey \in 1..(MaxKeys + 1) /\ faults \in 0..MaxFaults /\ events \in 0..MaxEvents
    BY DEF Init, ConstantsOK
  <1>2. told \in Tolds
    BY DraftShapes DEF Init, Tolds
  <1> QED  BY <1>1, <1>2, DraftShapes DEF Init, TypeOK

\* Every step keeps the types.
LEMMA TypeStep == ConstantsOK /\ TypeOK /\ [Next]_vars => TypeOK'
  <1> SUFFICES ASSUME ConstantsOK, TypeOK, [Next]_vars PROVE TypeOK'
    OBVIOUS
  <1> USE DEF TypeOK
  <1>a. ASSUME NEW r \in Runs PROVE /\ runs[r] \in RunStates
                                    /\ runs[r].draft \in Drafts
                                    /\ runs[r].msg \in Messages
                                    /\ runs[r].upcomings \in SUBSET Appts
    BY DEF RunStates
  <1>b. /\ \A o \in {"ignored", "unsupported", "placeholder", "other_intent", "asked", "gated"},
             a \in Appts \cup {NoAppt} : Outcome(o, a) \in Tolds
        /\ NoAppt \in Appts \cup {NoAppt}
    BY DEF Tolds, Outcome
  <1>1. ASSUME NEW r \in Runs, Arrive(r) PROVE TypeOK'
    <2> PICK m \in Inbox :
          runs' = [runs EXCEPT ![r] = [Idle EXCEPT !.node = "resolve_thread",
                                                   !.upcomings = booked, !.msg = m]]
      BY <1>1 DEF Arrive
    <2>1. m \in Messages
      BY InboxType
    <2>2. [Idle EXCEPT !.node = "resolve_thread", !.upcomings = booked, !.msg = m] \in RunStates
      BY <2>1, DraftShapes DEF Idle, RunStates, Nodes
    <2> QED  BY <1>1, <2>2, DraftShapes DEF Arrive, Tolds
  <1>2. ASSUME NEW r \in Runs, Resume(r) PROVE TypeOK'
    <2>1. [runs[r] EXCEPT !.node = ckpt.paused, !.draft = ckpt.draft,
                          !.upcomings = ckpt.upcomings, !.reply = TRUE] \in RunStates
      <3>1. /\ ckpt.paused \in Nodes /\ ckpt.draft \in Drafts /\ ckpt.upcomings \in SUBSET Appts
        BY <1>2 DEF Resume, Checkpoints, Nodes
      <3> QED  BY <3>1, <1>a DEF RunStates
    <2>2. runs' \in [Runs -> RunStates]
      BY <1>2, <2>1 DEF Resume
    <2> QED  BY <1>2, <2>2 DEF Resume
  <1>3. ASSUME NEW r \in Runs, EnterFresh(r) PROVE TypeOK'
    <2>1. ckpt.draft \in Drafts /\ "supervisor" \in Nodes
      BY DEF Checkpoints, Nodes
    <2> QED  BY <1>3, <2>1, GotoType DEF EnterFresh
  <1>4. ASSUME NEW r \in Runs, EnterBlind(r) PROVE TypeOK'
    <2>1. ckpt.draft \in Drafts /\ "supervisor" \in Nodes
      BY DEF Checkpoints, Nodes
    <2>2. faults' \in 0..MaxFaults
      BY <1>4 DEF EnterBlind, ConstantsOK
    <2> QED  BY <1>4, <2>1, <2>2, GotoType DEF EnterBlind
  <1>5. ASSUME NEW r \in Runs, Supervisor(r) PROVE TypeOK'
    <2>1. ASSUME NEW o \in {"unsupported", "placeholder", "other_intent"}, EndTurn(r, o)
          PROVE  ckpt' \in Checkpoints /\ runs' \in [Runs -> RunStates] /\ told' \in Tolds
      <3>1. ckpt' \in Checkpoints
        BY <2>1, <1>a DEF EndTurn, NoThread, Checkpoints
      <3>2. told' \in Tolds
        BY <2>1, <1>b DEF EndTurn, Tell
      <3> QED  BY <2>1, <3>1, <3>2, DraftShapes DEF EndTurn
    <2>2. ASSUME NEW d \in Drafts, Goto(r, d, "cancel_bootstrap")
          PROVE  ckpt' \in Checkpoints /\ runs' \in [Runs -> RunStates]
      BY <2>2, GotoType DEF Nodes
    <2>3. \A m \in Messages :
             [initialCancelDraftState EXCEPT !.slot = Resolved(m.value)] \in Drafts
      BY DraftShapes DEF Drafts, Messages
    <2>4. /\ ckpt' \in Checkpoints /\ runs' \in [Runs -> RunStates] /\ told' \in Tolds
      BY <1>5, <2>1, <2>2, <2>3, <1>a, DraftShapes DEF Supervisor
    <2> QED  BY <1>5, <2>4 DEF Supervisor
  <1>6. ASSUME NEW r \in Runs, CancelBootstrap(r) PROVE TypeOK'
    <2> PICK d \in Bootstrapped(runs[r].draft, runs[r].upcomings) :
          Goto(r, d, RouteAfterBootstrap(d))
      BY <1>6 DEF CancelBootstrap
    <2>1. d \in Drafts
      BY <1>a, DraftType
    <2>2. RouteAfterBootstrap(d) \in Nodes
      BY DEF RouteAfterBootstrap, Nodes
    <2> QED  BY <1>6, <2>1, <2>2, GotoType DEF CancelBootstrap
  <1>7. ASSUME NEW r \in Runs, CancelAskSlot(r) PROVE TypeOK'
    <2>1. CASE Goto(r, Failed(runs[r].draft, "handed_off"), "subgraph_finalize") /\ UNCHANGED told
      BY <1>7, <2>1, <1>a, DraftType, GotoType DEF CancelAskSlot, Nodes
    <2>2. CASE Interrupt(r, "cancel_ask_slot") /\ Tell("asked", NoAppt)
      BY <1>7, <2>2, <1>b, InterruptType DEF CancelAskSlot, Tell
    <2> QED  BY <1>7, <2>1, <2>2 DEF CancelAskSlot
  <1>8. ASSUME NEW r \in Runs, CancelAskSlotResumed(r) PROVE TypeOK'
    <2>1. Interpreted(runs[r].draft, runs[r].msg, runs[r].upcomings) \in Drafts
      BY <1>a, DraftType
    <2>2. {"cancel_build_confirm", "cancel_ask_slot"} \subseteq Nodes
      BY DEF Nodes
    <2> QED  BY <1>8, <2>1, <2>2, GotoType DEF CancelAskSlotResumed
  <1>9. ASSUME NEW r \in Runs, CancelBuildConfirm(r) PROVE TypeOK'
    <2> DEFINE d == runs[r].draft
               build == d.confirmation.key = NoKey /\ d.slot.status = "resolved"
    <2>1. CASE build
      <3>1. nextKey \in Keys /\ nextKey' \in 1..(MaxKeys + 1)
        BY <1>9, <2>1 DEF CancelBuildConfirm, Keys, ConstantsOK
      <3>2. [d EXCEPT !.confirmation = [key |-> nextKey, names |-> d.slot.value],
                      !.phase = "awaiting_confirmation"] \in Drafts
        BY <3>1, <1>a, DraftType
      <3>3. Goto(r, [d EXCEPT !.confirmation = [key |-> nextKey, names |-> d.slot.value],
                              !.phase = "awaiting_confirmation"], "subgraph_gate")
        BY <1>9, <2>1 DEF CancelBuildConfirm
      <3>4. "subgraph_gate" \in Nodes
        BY DEF Nodes
      <3> HIDE DEF d, build
      <3>5. ckpt' \in Checkpoints /\ runs' \in [Runs -> RunStates]
        BY <3>2, <3>3, <3>4, GotoType
      <3> QED  BY <1>9, <3>1, <3>5 DEF CancelBuildConfirm
    <2>2. CASE ~build
      <3>1. Goto(r, d, "subgraph_gate") /\ nextKey' = nextKey
        BY <1>9, <2>2 DEF CancelBuildConfirm
      <3> QED  BY <1>9, <3>1, <1>a, GotoType DEF CancelBuildConfirm, Nodes
    <2> QED  BY <2>1, <2>2
  <1>10. ASSUME NEW r \in Runs, CancelGate(r) PROVE TypeOK'
    <2> DEFINE c == runs[r].draft.confirmation
    <2>1. CASE c.key = NoKey
      <3>1. Goto(r, Failed(runs[r].draft, "error"), "subgraph_finalize") /\ UNCHANGED <<cards, told>>
        BY <1>10, <2>1 DEF CancelGate
      <3> QED  BY <1>10, <3>1, <1>a, DraftType, GotoType DEF CancelGate, Nodes
    <2>2. CASE c.key # NoKey
      <3>1. c \in Confirms
        BY <1>a DEF Drafts
      <3>2. c.key \in Keys /\ c.names \in Appts \cup {NoAppt}
        BY <2>2, <3>1 DEF Confirms
      <3>3. /\ Interrupt(r, "subgraph_gate")
            /\ cards' = [cards EXCEPT ![c.key] = c.names]
            /\ Tell("gated", c.names)
        BY <1>10, <2>2 DEF CancelGate
      <3>4. ckpt' \in Checkpoints /\ runs' \in [Runs -> RunStates]
        BY <3>3, InterruptType
      <3>5. told' \in Tolds
        BY <3>2, <3>3, <1>b DEF Tell
      <3> QED  BY <1>10, <3>2, <3>3, <3>4, <3>5 DEF CancelGate
    <2> QED  BY <2>1, <2>2
  <1>11. ASSUME NEW r \in Runs, CancelGateResumed(r) PROVE TypeOK'
    <2>1. \A n \in {"cancel_commit", "cancel_ask_slot"} : n \in Nodes
      BY DEF Nodes
    <2>2. "committing" \in Phases
      BY DEF Phases
    <2>3. ckpt' \in Checkpoints /\ runs' \in [Runs -> RunStates]
      BY <1>11, <2>1, <2>2, <1>a, DraftType, GotoType DEF CancelGateResumed
    <2> QED  BY <1>11, <2>3 DEF CancelGateResumed
  <1>12. ASSUME NEW r \in Runs, CancelCommit(r) PROVE TypeOK'
    <2> DEFINE d == runs[r].draft
               k == d.confirmation.key
    <2>1. CASE d.slot.status # "resolved" \/ k = NoKey
      <3>1. Goto(r, Failed(d, "error"), "subgraph_finalize") /\ UNCHANGED <<asked, idem>>
        BY <1>12, <2>1 DEF CancelCommit
      <3> QED  BY <1>12, <3>1, <1>a, DraftType, GotoType DEF CancelCommit, Nodes
    <2>2. CASE ~(d.slot.status # "resolved" \/ k = NoKey)
      <3>1. k \in Keys /\ d.slot.value \in Appts \cup {NoAppt}
        BY <2>2, <1>a DEF Drafts, Confirms, Slots
      <3>2. asked' = asked \cup {[key |-> k, value |-> d.slot.value]}
        BY <1>12, <2>2 DEF CancelCommit
      <3>3. /\ runs' = [runs EXCEPT ![r].node = "guacuco"]
            /\ UNCHANGED ckpt
        BY <1>12, <2>2 DEF CancelCommit
      <3>4. idem' = idem \/ idem' = [idem EXCEPT ![k] = [NoRow EXCEPT !.status = "in_progress",
                                                                     !.value = d.slot.value]]
        BY <1>12, <2>2 DEF CancelCommit
      <3>5. runs' \in [Runs -> RunStates]
        BY <3>3, <1>a DEF RunStates, Nodes
      <3>6. [NoRow EXCEPT !.status = "in_progress", !.value = d.slot.value] \in IdemRows
        BY <3>1 DEF NoRow, IdemRows
      <3>7. idem' \in [Keys -> IdemRows]
        BY <3>4, <3>6
      <3> QED  BY <1>12, <3>1, <3>2, <3>3, <3>5, <3>7 DEF CancelCommit
    <2> QED  BY <2>1, <2>2
  <1>13. ASSUME NEW r \in Runs, CancelCommitAnswered(r) PROVE TypeOK'
    <2>1. {"cancel_success", "subgraph_finalize"} \subseteq Nodes
      BY DEF Nodes
    <2>2. ckpt' \in Checkpoints /\ runs' \in [Runs -> RunStates]
      BY <1>13, <2>1, <1>a, DraftType, GotoType DEF CancelCommitAnswered
    <2> QED  BY <1>13, <2>2 DEF CancelCommitAnswered
  <1>14. ASSUME NEW r \in Runs, CancelSuccess(r) PROVE TypeOK'
    <2>1. runs[r].draft.slot.value \in Appts \cup {NoAppt}
      BY <1>a DEF Drafts, Slots
    <2> QED  BY <1>14, <2>1, <1>a, DraftType, GotoType DEF CancelSuccess, Nodes
  <1>15. ASSUME NEW r \in Runs, Finalize(r) PROVE TypeOK'
    <2>1. told' \in Tolds
      BY <1>15, <1>a, <1>b DEF Finalize, Tolds, Drafts
    <2>2. ckpt' \in Checkpoints
      BY <1>15, DraftShapes DEF Finalize, Checkpoints, NoThread
    <2> QED  BY <1>15, <2>1, <2>2, DraftShapes DEF Finalize
  <1>16. ASSUME NEW k \in Keys, GuacucoExecute(k) PROVE TypeOK'
    <2> PICK res \in {"ok", "BUSINESS_MISMATCH", "OTHER", "APPOINTMENT_ALREADY_CANCELLED",
                      "APPOINTMENT_NOT_FOUND"} :
          /\ idem' = [idem EXCEPT ![k].status = "done", ![k].result = res]
          /\ booked' = IF res = "ok" THEN booked \ {idem[k].value} ELSE booked
      BY <1>16 DEF GuacucoExecute
    <2>1. [idem[k] EXCEPT !.status = "done", !.result = res] \in IdemRows
      BY DEF IdemRows
    <2>2. idem' \in [Keys -> IdemRows] /\ booked' \subseteq Appts
      BY <2>1
    <2> QED  BY <1>16, <2>2 DEF GuacucoExecute
  <1>17. ASSUME NEW k \in Keys, GuacucoForget(k) PROVE TypeOK'
    BY <1>17, DraftShapes DEF GuacucoForget, ConstantsOK
  <1>18. ASSUME CancelledElsewhere PROVE TypeOK'
    BY <1>18 DEF CancelledElsewhere, ConstantsOK
  <1>19. ASSUME Expire PROVE TypeOK'
    BY <1>19, DraftShapes DEF Expire, ConstantsOK
  <1>20. ASSUME NEW r \in Runs, Crash(r) PROVE TypeOK'
    BY <1>20, DraftShapes DEF Crash, ConstantsOK
  <1>21. CASE UNCHANGED vars
    BY <1>21 DEF vars
  <1> QED
    BY <1>1, <1>2, <1>3, <1>4, <1>5, <1>6, <1>7, <1>8, <1>9, <1>10, <1>11, <1>12, <1>13, <1>14,
       <1>15, <1>16, <1>17, <1>18, <1>19, <1>20, <1>21 DEF Next, RunStep

\* The thread, the turns and Guacuco keep their types in every behaviour.
THEOREM TypeCorrect == Spec => []TypeOK
  <1>1. Init => TypeOK
    BY TypeInit, ConstantsOK
  <1>2. TypeOK /\ [Next]_vars => TypeOK'
    BY TypeStep, ConstantsOK
  <1> QED  BY <1>1, <1>2, PTL DEF Spec

-----------------------------------------------------------------------------
(* The button.  Inductive: the types, what every copy of a confirmation names, *)
(* and what a tap in hand says of the buttons shown.                           *)

ButtonInv == KeyNamesOneAppt /\ TapsWereShown /\ AskingCollects /\ CommitOnlyOnTap

IInv == TypeOK /\ ButtonInv

\* Copying or dropping a confirmation changes nothing for its button.
LEMMA LiveShrinks ==
    ASSUME ConstantsOK, TypeOK, KeyNamesOneAppt, Live' \subseteq Live \cup {Unconfirmed},
           UNCHANGED <<cards, nextKey>>
    PROVE  KeyNamesOneAppt'
  <1>1. Unconfirmed.key = NoKey /\ NoKey < nextKey
    BY DEF Unconfirmed, TypeOK, ConstantsOK
  <1>2. \A c \in Live' : c \in Live \/ c = Unconfirmed
    OBVIOUS
  <1>3. \A c \in Live' : c.key < nextKey' /\ (c.key # NoKey => c.names \in Appts)
    BY <1>1, <1>2 DEF KeyNamesOneAppt
  <1>4. \A c, e \in Live' : c.key # NoKey /\ c.key = e.key => c.names = e.names
    BY <1>1, <1>2 DEF KeyNamesOneAppt
  <1>5. \A c \in Live' : c.key # NoKey /\ cards'[c.key] # NoAppt => cards'[c.key] = c.names
    BY <1>1, <1>2 DEF KeyNamesOneAppt
  <1>6. \A k \in Keys : cards'[k] # NoAppt => k < nextKey'
    BY DEF KeyNamesOneAppt
  <1> QED  BY <1>3, <1>4, <1>5, <1>6 DEF KeyNamesOneAppt

\* A node that does not commit keeps the invariant, if it leaves the
\* confirmation or clears it.
LEMMA GotoInv ==
    ASSUME ConstantsOK, IInv, NEW r \in Runs, NEW d \in Drafts, NEW n \in Nodes, Goto(r, d, n),
           UNCHANGED <<cards, nextKey>>,
           d.confirmation \in Live \cup {Unconfirmed},
           n \notin {"cancel_commit", "guacuco"},
           n = "cancel_build_confirm" => d.slot.status = "resolved" /\ d.slot.value \in Appts,
           n = "cancel_ask_slot" => d.phase # "awaiting_confirmation"
    PROVE  ButtonInv'
  <1>1. /\ ckpt'.draft = d /\ ckpt'.paused = "none" /\ ckpt'.by = r
        /\ runs'[r].draft = d /\ runs'[r].node = n
    BY DEF Goto, NoThread, IInv, TypeOK
  <1>2. \A q \in Runs : q # r => runs'[q] = runs[q]
    BY DEF Goto, IInv, TypeOK
  <1>3. Live' \subseteq Live \cup {Unconfirmed}
    BY <1>1, <1>2 DEF Live
  <1>4. KeyNamesOneAppt'
    BY <1>3, LiveShrinks DEF IInv, ButtonInv
  <1>5. runs'[r].msg = runs[r].msg \/ runs'[r].msg.key = NoKey
    BY DEF Goto, IInv, TypeOK, Say
  <1>6. TapsWereShown'
    BY <1>1, <1>2, <1>5 DEF IInv, ButtonInv, TapsWereShown
  <1>7. CommitOnlyOnTap'
    BY <1>1, <1>2 DEF IInv, ButtonInv, CommitOnlyOnTap
  <1>8. AskingCollects'
    BY <1>1, <1>2 DEF IInv, ButtonInv, AskingCollects
  <1> QED  BY <1>4, <1>6, <1>7, <1>8 DEF ButtonInv

\* Nor does a turn that ends or vanishes disturb it.
LEMMA IdleInv ==
    ASSUME ConstantsOK, IInv, NEW r \in Runs, runs' = [runs EXCEPT ![r] = Idle],
           UNCHANGED <<cards, nextKey>>, ckpt'.draft.confirmation \in Live \cup {Unconfirmed},
           ckpt'.by = r \/ (ckpt'.by = ckpt.by /\ ckpt'.draft = ckpt.draft),
           ckpt'.paused = "cancel_ask_slot" => ckpt'.draft.phase # "awaiting_confirmation"
    PROVE  ButtonInv'
  <1>1. /\ Idle.draft.confirmation = Unconfirmed /\ Idle.node = "idle"
        /\ Idle.msg.key = NoKey
    BY DEF Idle, NoDraft, Say
  <1>2. \A q \in Runs : runs'[q] = Idle \/ runs'[q] = runs[q]
    BY DEF IInv, ButtonInv, TypeOK
  <1>3. Live' \subseteq Live \cup {Unconfirmed}
    BY <1>1, <1>2 DEF Live
  <1>4. KeyNamesOneAppt'
    BY <1>3, LiveShrinks DEF IInv, ButtonInv
  <1>5. TapsWereShown'
    BY <1>1, <1>2 DEF IInv, ButtonInv, TapsWereShown
  <1>6. CommitOnlyOnTap'
    BY <1>1, <1>2 DEF IInv, ButtonInv, CommitOnlyOnTap
  <1>7. runs'[r] = Idle
    BY DEF IInv, TypeOK
  <1>8. AskingCollects'
    BY <1>1, <1>2, <1>7 DEF IInv, ButtonInv, AskingCollects
  <1> QED  BY <1>4, <1>5, <1>6, <1>8 DEF ButtonInv

\* Steps of Guacuco and of the rest of the world see no button.
LEMMA OutsideInv ==
    ASSUME ConstantsOK, IInv, UNCHANGED <<runs, cards, nextKey>>,
           UNCHANGED ckpt \/ ckpt' = NoThread
    PROVE  ButtonInv'
  <1>1. Live' \subseteq Live \cup {Unconfirmed}
    BY DEF Live, NoThread, NoDraft
  <1>2. KeyNamesOneAppt'
    BY <1>1, LiveShrinks DEF IInv, ButtonInv
  <1>3. AskingCollects'
    BY DEF IInv, ButtonInv, AskingCollects, NoThread, ConstantsOK
  <1> QED  BY <1>2, <1>3 DEF IInv, ButtonInv, TapsWereShown, CommitOnlyOnTap

\* Sending the gate message shows a button for what its live copies name.
LEMMA GateShows ==
    ASSUME ConstantsOK, IInv, NEW r \in Runs, runs[r].draft.confirmation.key # NoKey,
           Interrupt(r, "subgraph_gate"), UNCHANGED nextKey,
           cards' = [cards EXCEPT ![runs[r].draft.confirmation.key] = runs[r].draft.confirmation.names]
    PROVE  /\ ButtonInv'
           /\ \A k \in Keys : cards[k] # NoAppt => cards'[k] = cards[k]
  <1> DEFINE c == runs[r].draft.confirmation
  <1>1. c \in Live /\ c \in Confirms /\ c.key \in Keys
    BY DEF Live, IInv, TypeOK, RunStates, Drafts, Confirms
  <1>2. c.names \in Appts /\ c.names # NoAppt /\ c.key < nextKey
    BY <1>1 DEF IInv, ButtonInv, KeyNamesOneAppt, ConstantsOK
  <1>3. cards' = [cards EXCEPT ![c.key] = c.names]
    OBVIOUS
  <1>4. c.key # NoKey
    OBVIOUS
  <1> HIDE DEF c
  <1>5. \A k \in Keys : cards'[k] = IF k = c.key THEN c.names ELSE cards[k]
    BY <1>1, <1>3 DEF IInv, ButtonInv, TypeOK
  <1>6. \A k \in Keys : cards[k] # NoAppt => cards'[k] = cards[k]
    BY <1>1, <1>4, <1>5 DEF IInv, ButtonInv, KeyNamesOneAppt
  <1>7. /\ \A q \in Runs : runs'[q] = Idle \/ runs'[q] = runs[q]
        /\ ckpt'.draft = ckpt.draft
    BY DEF Interrupt, IInv, TypeOK, Checkpoints
  <1>8. Idle.draft.confirmation = Unconfirmed /\ Idle.node = "idle" /\ Idle.msg.key = NoKey
    BY DEF Idle, NoDraft, Say
  <1>9. \A e \in Live' : e \in Live \/ e = Unconfirmed
    BY <1>7, <1>8 DEF Live
  <1>10. Unconfirmed.key = NoKey /\ NoKey < nextKey
    BY DEF Unconfirmed, IInv, TypeOK, ConstantsOK
  <1>11. \A e \in Live : e.key # NoKey => e.key \in Keys
    BY DEF Live, IInv, TypeOK, RunStates, Checkpoints, Drafts, Confirms
  <1>12. \A e \in Live' : e.key < nextKey' /\ (e.key # NoKey => e.names \in Appts)
    BY <1>9, <1>10 DEF IInv, ButtonInv, KeyNamesOneAppt
  <1>13. \A e, f \in Live' : e.key # NoKey /\ e.key = f.key => e.names = f.names
    BY <1>9, <1>10 DEF IInv, ButtonInv, KeyNamesOneAppt
  <1>14. \A e \in Live' : e.key # NoKey /\ cards'[e.key] # NoAppt => cards'[e.key] = e.names
    BY <1>1, <1>4, <1>5, <1>9, <1>10, <1>11 DEF IInv, ButtonInv, KeyNamesOneAppt
  <1>15. \A k \in Keys : cards'[k] # NoAppt => k < nextKey'
    BY <1>2, <1>5 DEF IInv, ButtonInv, KeyNamesOneAppt
  <1>16. KeyNamesOneAppt'
    BY <1>12, <1>13, <1>14, <1>15 DEF KeyNamesOneAppt
  <1>17. \A q \in Runs : runs[q].msg.key # NoKey => runs[q].msg.key \in Keys
    BY DEF IInv, ButtonInv, TypeOK, RunStates, Messages
  <1>18. TapsWereShown'
    BY <1>6, <1>7, <1>8, <1>17 DEF IInv, ButtonInv, TapsWereShown
  <1>19. CommitOnlyOnTap'
    <2> SUFFICES ASSUME NEW q \in Runs, runs'[q].node \in {"cancel_commit", "guacuco"}
                 PROVE  LET k == runs'[q].draft.confirmation.key
                        IN  k # NoKey /\ runs'[q].msg = Tap("confirm", k) /\ cards'[k] # NoAppt
      BY DEF CommitOnlyOnTap
    <2>1. runs'[q] = runs[q]
      BY <1>7, <1>8
    <2>2. runs[q].draft.confirmation \in Live
      BY DEF Live
    <2> QED  BY <2>1, <2>2, <1>6, <1>11 DEF IInv, ButtonInv, CommitOnlyOnTap
  <1>20. /\ ckpt'.by = ckpt.by /\ (ckpt'.paused = "cancel_ask_slot" => ckpt.paused = "cancel_ask_slot")
         /\ runs'[r] = Idle
    BY DEF Interrupt, IInv, TypeOK, Checkpoints
  <1>21. AskingCollects'
    BY <1>7, <1>8, <1>20 DEF IInv, ButtonInv, AskingCollects
  <1> QED  BY <1>6, <1>16, <1>18, <1>19, <1>21 DEF ButtonInv

\* A new message takes an intentUuid nobody holds.
LEMMA BuildDraws ==
    ASSUME ConstantsOK, IInv, NEW r \in Runs, NEW d \in Drafts, nextKey \in Keys,
           nextKey' = nextKey + 1, UNCHANGED cards, Goto(r, d, "subgraph_gate"),
           d.confirmation.key = nextKey, d.confirmation.names \in Appts
    PROVE  ButtonInv'
  <1> DEFINE c == d.confirmation
  <1>1. /\ ckpt'.draft = d /\ ckpt'.paused = "none" /\ ckpt'.by = r
        /\ runs'[r].draft = d /\ runs'[r].node = "subgraph_gate"
        /\ runs'[r].msg.key = NoKey
    BY DEF Goto, NoThread, IInv, TypeOK, Say
  <1>2. \A q \in Runs : q # r => runs'[q] = runs[q]
    BY DEF Goto, IInv, TypeOK
  <1>3. \A e \in Live' : e \in Live \/ e = c
    BY <1>1, <1>2 DEF Live
  <1>4. \A e \in Live : e.key \in Nat /\ e.key < nextKey
    <2>1. \A e \in Live : e \in Confirms
      BY DEF Live, IInv, TypeOK, RunStates, Checkpoints, Drafts
    <2>2. \A e \in Confirms : e.key \in Nat
      BY DEF Confirms, Keys
    <2> QED  BY <2>1, <2>2 DEF IInv, ButtonInv, KeyNamesOneAppt
  <1>5. c.key = nextKey /\ c.names \in Appts /\ nextKey \in Nat
    BY DEF Keys
  <1>6. cards[nextKey] = NoAppt
    BY <1>5 DEF IInv, ButtonInv, KeyNamesOneAppt
  <1> HIDE DEF c
  <1>7. \A e \in Live' : e.key < nextKey' /\ (e.key # NoKey => e.names \in Appts)
    BY <1>3, <1>4, <1>5 DEF IInv, ButtonInv, KeyNamesOneAppt
  <1>8. \A e, f \in Live' : e.key # NoKey /\ e.key = f.key => e.names = f.names
    BY <1>3, <1>4, <1>5 DEF IInv, ButtonInv, KeyNamesOneAppt
  <1>9. \A e \in Live' : e.key # NoKey /\ cards'[e.key] # NoAppt => cards'[e.key] = e.names
    BY <1>3, <1>5, <1>6 DEF IInv, ButtonInv, KeyNamesOneAppt
  <1>10. \A k \in Keys : cards'[k] # NoAppt => k < nextKey'
    BY <1>5 DEF IInv, ButtonInv, KeyNamesOneAppt, Keys
  <1>11. KeyNamesOneAppt'
    BY <1>7, <1>8, <1>9, <1>10 DEF KeyNamesOneAppt
  <1>12. TapsWereShown'
    BY <1>1, <1>2 DEF IInv, ButtonInv, TapsWereShown
  <1>13. CommitOnlyOnTap'
    BY <1>1, <1>2 DEF IInv, ButtonInv, CommitOnlyOnTap
  <1>14. AskingCollects'
    BY <1>1, <1>2 DEF IInv, ButtonInv, AskingCollects
  <1> QED  BY <1>11, <1>12, <1>13, <1>14 DEF ButtonInv

\* Nothing is confirmed, shown or tapped at the start.
LEMMA ButtonInit == ConstantsOK /\ Init => IInv
  <1> SUFFICES ASSUME ConstantsOK, Init PROVE IInv
    OBVIOUS
  <1>1. Live = {Unconfirmed}
    BY DEF Init, Live, Idle, NoThread, NoDraft
  <1>2. KeyNamesOneAppt
    BY <1>1 DEF Init, KeyNamesOneAppt, Unconfirmed
  <1>3. TapsWereShown /\ CommitOnlyOnTap /\ AskingCollects
    BY DEF Init, TapsWereShown, CommitOnlyOnTap, AskingCollects, Idle, Say, NoThread
  <1> QED  BY TypeInit, <1>2, <1>3 DEF IInv, ButtonInv

\* One step per action; each is one of the shapes above, but for the arrival of
\* a message, the resumption, and the two steps of the commit.
LEMMA ButtonStep ==
    ConstantsOK /\ IInv /\ [Next]_vars =>
      /\ IInv'
      /\ \A k \in Keys : cards[k] # NoAppt => cards'[k] = cards[k]
  <1> SUFFICES ASSUME ConstantsOK, IInv, [Next]_vars
               PROVE  /\ ButtonInv'
                      /\ \A k \in Keys : cards[k] # NoAppt => cards'[k] = cards[k]
    BY TypeStep DEF IInv, ButtonInv
  <1> DEFINE Kept  == ButtonInv'
             Fixed == \A k \in Keys : cards[k] # NoAppt => cards'[k] = cards[k]
  <1>t. TypeOK
    BY DEF IInv, ButtonInv
  <1>a. ASSUME NEW r \in Runs PROVE /\ runs[r].draft \in Drafts
                                    /\ runs[r].msg \in Messages
                                    /\ runs[r].upcomings \in SUBSET Appts
                                    /\ runs[r].draft.confirmation \in Live
    BY <1>t DEF TypeOK, RunStates, Live
  <1>b. ckpt.draft \in Drafts /\ ckpt.draft.confirmation \in Live
    BY <1>t DEF TypeOK, Checkpoints, Live
  <1>c. \A d \in Drafts : \A o : Failed(d, o).confirmation = d.confirmation
    BY DEF Failed, Drafts
  <1>n. Nodes = {"idle", "resolve_thread", "supervisor", "cancel_bootstrap", "cancel_ask_slot",
                 "cancel_build_confirm", "subgraph_gate", "cancel_commit", "guacuco",
                 "cancel_success", "subgraph_finalize"}
    BY DEF Nodes
  <1>1. ASSUME NEW r \in Runs, Arrive(r) PROVE Kept /\ Fixed
    <2> PICK m \in Inbox :
          runs' = [runs EXCEPT ![r] = [Idle EXCEPT !.node = "resolve_thread",
                                                   !.upcomings = booked, !.msg = m]]
      BY <1>1 DEF Arrive
    <2>1. UNCHANGED <<ckpt, cards, nextKey>>
      BY <1>1 DEF Arrive
    <2>2. /\ runs'[r].msg = m /\ runs'[r].node = "resolve_thread"
          /\ runs'[r].draft.confirmation = Unconfirmed
          /\ \A q \in Runs : q # r => runs'[q] = runs[q]
      BY <1>t DEF TypeOK, Idle, NoDraft
    <2>3. Live' \subseteq Live \cup {Unconfirmed}
      BY <2>1, <2>2 DEF Live
    <2>4. KeyNamesOneAppt'
      BY <2>1, <2>3, LiveShrinks DEF IInv, ButtonInv
    <2>5. m.key # NoKey => cards[m.key] # NoAppt
      BY <1>t, InboxType
    <2>6. TapsWereShown' /\ CommitOnlyOnTap' /\ AskingCollects'
      BY <2>1, <2>2, <2>5 DEF IInv, ButtonInv, TapsWereShown, CommitOnlyOnTap, AskingCollects
    <2> QED  BY <2>1, <2>4, <2>6 DEF ButtonInv
  <1>2. ASSUME NEW r \in Runs, Resume(r) PROVE Kept /\ Fixed
    <2>1. UNCHANGED <<ckpt, cards, nextKey>>
      BY <1>2 DEF Resume
    <2>2. /\ runs'[r].msg = runs[r].msg /\ runs'[r].node = ckpt.paused
          /\ runs'[r].draft = ckpt.draft
          /\ \A q \in Runs : q # r => runs'[q] = runs[q]
      BY <1>2, <1>t DEF Resume, TypeOK, RunStates
    <2>3. ckpt.paused \in {"cancel_ask_slot", "subgraph_gate"}
      BY <1>2, <1>t DEF Resume, TypeOK, Checkpoints
    <2>4. Live' \subseteq Live \cup {Unconfirmed}
      BY <2>1, <2>2 DEF Live
    <2>5. KeyNamesOneAppt'
      BY <2>1, <2>4, LiveShrinks DEF IInv, ButtonInv
    <2>6. TapsWereShown' /\ CommitOnlyOnTap' /\ AskingCollects'
      BY <2>1, <2>2, <2>3 DEF IInv, ButtonInv, TapsWereShown, CommitOnlyOnTap, AskingCollects
    <2> QED  BY <2>1, <2>5, <2>6 DEF ButtonInv
  <1>3. ASSUME NEW r \in Runs, EnterFresh(r) PROVE Kept /\ Fixed
    BY <1>3, <1>b, <1>n, GotoInv DEF EnterFresh
  <1>4. ASSUME NEW r \in Runs, EnterBlind(r) PROVE Kept /\ Fixed
    BY <1>4, <1>b, <1>n, GotoInv DEF EnterBlind
  <1>5. ASSUME NEW r \in Runs, Supervisor(r) PROVE Kept /\ Fixed
    <2>1. UNCHANGED <<cards, nextKey>>
      BY <1>5 DEF Supervisor
    <2>2. ASSUME NEW o, EndTurn(r, o) PROVE Kept
      <3>1. /\ ckpt'.draft.confirmation \in Live
            /\ ckpt'.by = r /\ ckpt'.paused = "none"
        BY <2>2, <1>a DEF EndTurn, NoThread
      <3>2. runs' = [runs EXCEPT ![r] = Idle]
        BY <2>2 DEF EndTurn
      <3> QED  BY <2>1, <3>1, <3>2, IdleInv
    <2>3. ASSUME NEW d \in Drafts, Goto(r, d, "cancel_bootstrap"),
                 d.confirmation \in Live \cup {Unconfirmed}
          PROVE  Kept
      BY <2>1, <2>3, <1>n, GotoInv
    <2>4. \A m \in Messages :
             LET d == [initialCancelDraftState EXCEPT !.slot = Resolved(m.value)]
             IN  d \in Drafts /\ d.confirmation = Unconfirmed
      BY DraftShapes DEF Drafts, Messages, initialCancelDraftState, NoDraft
    <2>5. initialCancelDraftState.confirmation = Unconfirmed
      BY DEF initialCancelDraftState, NoDraft
    <2>6. Kept
      BY <1>5, <2>2, <2>3, <2>4, <2>5, <1>a, DraftShapes DEF Supervisor
    <2> QED  BY <2>1, <2>6
  <1>6. ASSUME NEW r \in Runs, CancelBootstrap(r) PROVE Kept /\ Fixed
    <2> PICK d \in Bootstrapped(runs[r].draft, runs[r].upcomings) :
          Goto(r, d, RouteAfterBootstrap(d))
      BY <1>6 DEF CancelBootstrap
    <2>1. d \in Drafts
      BY <1>a, DraftType
    <2>2. d.confirmation = runs[r].draft.confirmation
      BY <1>a DEF Bootstrapped, Failed, Drafts
    <2>3. d.phase = "awaiting_confirmation" => d.slot.status = "resolved" /\ d.slot.value \in Appts
      <3> DEFINE D == runs[r].draft
      <3>1. \/ D.slot.status = "resolved" /\ D.slot.value \in runs[r].upcomings
               /\ d = [D EXCEPT !.phase = "awaiting_confirmation"]
            \/ d = Failed(D, "no_upcomings")
            \/ \E a \in runs[r].upcomings :
                 d = [D EXCEPT !.slot = Resolved(a), !.phase = "awaiting_confirmation"]
            \/ d = [D EXCEPT !.phase = "collecting"]
        BY DEF Bootstrapped
      <3>2. D \in Drafts /\ runs[r].upcomings \subseteq Appts
        BY <1>a
      <3> HIDE DEF D
      <3>3. CASE /\ D.slot.status = "resolved" /\ D.slot.value \in runs[r].upcomings
                 /\ d = [D EXCEPT !.phase = "awaiting_confirmation"]
        <4>1. d.slot = D.slot
          BY <3>2, <3>3 DEF Drafts
        <4> QED  BY <3>2, <3>3, <4>1
      <3>4. CASE d = Failed(D, "no_upcomings")
        <4>1. d.phase = "failed"
          BY <3>2, <3>4 DEF Failed, Drafts
        <4> QED  BY <4>1
      <3>5. ASSUME NEW a \in runs[r].upcomings,
                   d = [D EXCEPT !.slot = Resolved(a), !.phase = "awaiting_confirmation"]
            PROVE  d.slot.status = "resolved" /\ d.slot.value \in Appts
        <4>1. d.slot = Resolved(a)
          BY <3>2, <3>5 DEF Drafts
        <4> QED  BY <3>2, <4>1 DEF Resolved
      <3>6. CASE d = [D EXCEPT !.phase = "collecting"]
        <4>1. d.phase = "collecting"
          BY <3>2, <3>6 DEF Drafts
        <4> QED  BY <4>1
      <3> QED  BY <3>1, <3>3, <3>4, <3>5, <3>6
    <2>4. /\ RouteAfterBootstrap(d) \in Nodes \ {"cancel_commit", "guacuco"}
          /\ RouteAfterBootstrap(d) = "cancel_build_confirm" => d.phase = "awaiting_confirmation"
          /\ RouteAfterBootstrap(d) = "cancel_ask_slot" => d.phase # "awaiting_confirmation"
      BY <1>n DEF RouteAfterBootstrap
    <2> QED  BY <1>6, <2>1, <2>2, <2>3, <2>4, <1>a, GotoInv DEF CancelBootstrap
  <1>7. ASSUME NEW r \in Runs, CancelAskSlot(r) PROVE Kept /\ Fixed
    <2>1. UNCHANGED <<cards, nextKey>>
      BY <1>7 DEF CancelAskSlot
    <2>2. CASE Goto(r, Failed(runs[r].draft, "handed_off"), "subgraph_finalize")
      BY <2>1, <2>2, <1>a, <1>c, <1>n, DraftType, GotoInv
    <2>3. CASE Interrupt(r, "cancel_ask_slot")
      <3>1. ckpt'.draft = ckpt.draft /\ ckpt'.by = ckpt.by
        BY <2>3, <1>t DEF Interrupt, TypeOK, Checkpoints
      <3>2. runs' = [runs EXCEPT ![r] = Idle]
        BY <2>3 DEF Interrupt
      <3>3. ckpt'.paused = "cancel_ask_slot" => ckpt'.draft.phase # "awaiting_confirmation"
        BY <2>3, <3>1, <1>7 DEF Interrupt, CancelAskSlot, IInv, ButtonInv, AskingCollects
      <3> QED  BY <2>1, <3>1, <3>2, <3>3, <1>b, IdleInv
    <2> QED  BY <1>7, <2>2, <2>3 DEF CancelAskSlot
  <1>8. ASSUME NEW r \in Runs, CancelAskSlotResumed(r) PROVE Kept /\ Fixed
    <2> DEFINE d == Interpreted(runs[r].draft, runs[r].msg, runs[r].upcomings)
    <2>1. d \in Drafts
      BY <1>a, DraftType
    <2>2. d.confirmation = runs[r].draft.confirmation
      BY <1>a DEF Interpreted, Drafts
    <2>3. runs[r].draft.phase # "awaiting_confirmation"
      BY <1>8 DEF CancelAskSlotResumed, IInv, ButtonInv, AskingCollects
    <2>4. d.phase = "awaiting_confirmation" => d.slot.status = "resolved" /\ d.slot.value \in Appts
      <3>1. CASE runs[r].msg.kind = "pick" /\ runs[r].msg.value \in runs[r].upcomings
        BY <3>1, <1>a DEF Interpreted, Drafts, Resolved
      <3>2. CASE ~(runs[r].msg.kind = "pick" /\ runs[r].msg.value \in runs[r].upcomings)
        BY <3>2, <2>3, <1>a DEF Interpreted, Drafts
      <3> QED  BY <3>1, <3>2
    <2> QED  BY <1>8, <2>1, <2>2, <2>4, <1>a, <1>n, GotoInv DEF CancelAskSlotResumed
  <1>9. ASSUME NEW r \in Runs, CancelBuildConfirm(r) PROVE Kept /\ Fixed
    <2> DEFINE d == runs[r].draft
               e == [d EXCEPT !.confirmation = [key |-> nextKey, names |-> d.slot.value],
                              !.phase = "awaiting_confirmation"]
    <2>1. UNCHANGED cards
      BY <1>9 DEF CancelBuildConfirm
    <2>2. CASE d.confirmation.key = NoKey /\ d.slot.status = "resolved"
      <3>1. nextKey \in Keys /\ nextKey' = nextKey + 1 /\ Goto(r, e, "subgraph_gate")
        BY <1>9, <1>t, <2>2 DEF CancelBuildConfirm, TypeOK, Keys, ConstantsOK
      <3>2. e \in Drafts
        BY <3>1, <1>a, DraftType
      <3>3. e.confirmation.key = nextKey /\ e.confirmation.names = d.slot.value
        BY <1>a DEF Drafts
      <3>4. d.slot.value \in Appts
        BY <1>9 DEF CancelBuildConfirm, IInv, ButtonInv, TapsWereShown
      <3> HIDE DEF d, e
      <3> QED  BY <2>1, <3>1, <3>2, <3>3, <3>4, BuildDraws
    <2>3. CASE ~(d.confirmation.key = NoKey /\ d.slot.status = "resolved")
      <3>1. Goto(r, d, "subgraph_gate") /\ nextKey' = nextKey
        BY <1>9, <2>3 DEF CancelBuildConfirm
      <3> QED  BY <2>1, <3>1, <1>a, <1>n, GotoInv
    <2> QED  BY <2>2, <2>3
  <1>10. ASSUME NEW r \in Runs, CancelGate(r) PROVE Kept /\ Fixed
    <2>1. UNCHANGED nextKey
      BY <1>10 DEF CancelGate
    <2>2. CASE runs[r].draft.confirmation.key = NoKey
      <3>1. Goto(r, Failed(runs[r].draft, "error"), "subgraph_finalize") /\ UNCHANGED cards
        BY <1>10, <2>2 DEF CancelGate
      <3> QED  BY <2>1, <3>1, <1>a, <1>c, <1>n, DraftType, GotoInv
    <2>3. CASE runs[r].draft.confirmation.key # NoKey
      BY <1>10, <2>1, <2>3, GateShows DEF CancelGate
    <2> QED  BY <2>2, <2>3
  <1>11. ASSUME NEW r \in Runs, CancelGateResumed(r) PROVE Kept /\ Fixed
    <2> DEFINE d == runs[r].draft
               k == d.confirmation.key
    <2>1. UNCHANGED <<cards, nextKey>>
      BY <1>11 DEF CancelGateResumed
    <2>2. CASE runs[r].msg = Tap("confirm", k)
      <3> DEFINE e == [d EXCEPT !.phase = "committing"]
      <3>1. Goto(r, e, "cancel_commit")
        BY <1>11, <2>2 DEF CancelGateResumed
      <3>2. e.confirmation = d.confirmation /\ d.confirmation \in Live
        BY <1>a DEF Drafts
      <3>3. runs[r].msg.key = k /\ runs[r].msg.kind = "confirm"
        BY <2>2 DEF Tap
      <3>4. k # NoKey /\ k \in Keys
        BY <3>3, <1>a DEF Messages, Keys
      <3>5. cards[k] # NoAppt
        BY <3>3, <3>4 DEF IInv, ButtonInv, TapsWereShown
      <3>6. /\ ckpt'.draft = e /\ ckpt'.paused = "none" /\ ckpt'.by = r
            /\ runs'[r].draft = e /\ runs'[r].node = "cancel_commit" /\ runs'[r].msg = runs[r].msg
        BY <3>1, <1>t DEF Goto, NoThread, TypeOK
      <3>7. \A q \in Runs : q # r => runs'[q] = runs[q]
        BY <3>1, <1>t DEF Goto, TypeOK
      <3> HIDE DEF e
      <3>8. Live' \subseteq Live
        BY <3>2, <3>6, <3>7 DEF Live
      <3>9. KeyNamesOneAppt'
        BY <2>1, <3>8, LiveShrinks DEF IInv, ButtonInv
      <3>10. TapsWereShown'
        BY <2>1, <3>6, <3>7 DEF IInv, ButtonInv, TapsWereShown
      <3>11. AskingCollects'
        BY <3>6, <3>7 DEF IInv, ButtonInv, AskingCollects
      <3>12. CommitOnlyOnTap'
        BY <2>1, <2>2, <3>2, <3>4, <3>5, <3>6, <3>7 DEF IInv, ButtonInv, CommitOnlyOnTap
      <3> QED  BY <2>1, <3>9, <3>10, <3>11, <3>12 DEF ButtonInv
    <2>3. CASE runs[r].msg # Tap("confirm", k)
      <3> DEFINE e == [d EXCEPT !.confirmation = Unconfirmed, !.phase = "collecting"]
      <3>1. Goto(r, e, "cancel_ask_slot")
        BY <1>11, <2>3 DEF CancelGateResumed
      <3>2. e \in Drafts /\ e.confirmation = Unconfirmed /\ e.phase = "collecting"
        BY <1>a, DraftType DEF Drafts
      <3> HIDE DEF e
      <3> QED  BY <2>1, <3>1, <3>2, <1>n, GotoInv
    <2> QED  BY <2>2, <2>3
  <1>12. ASSUME NEW r \in Runs, CancelCommit(r) PROVE Kept /\ Fixed
    <2> DEFINE d == runs[r].draft
               stop == d.slot.status # "resolved" \/ d.confirmation.key = NoKey
    <2>1. UNCHANGED <<cards, nextKey>>
      BY <1>12 DEF CancelCommit
    <2>2. CASE stop
      <3>1. Goto(r, Failed(d, "error"), "subgraph_finalize")
        BY <1>12, <2>2 DEF CancelCommit
      <3> QED  BY <2>1, <3>1, <1>a, <1>c, <1>n, DraftType, GotoInv
    <2>3. CASE ~stop
      <3>1. runs' = [runs EXCEPT ![r].node = "guacuco"] /\ UNCHANGED ckpt
        BY <1>12, <2>3 DEF CancelCommit
      <3>2. /\ \A q \in Runs : q # r => runs'[q] = runs[q]
            /\ runs'[r].draft = d /\ runs'[r].msg = runs[r].msg /\ runs'[r].node = "guacuco"
            /\ runs[r].node = "cancel_commit"
        BY <1>12, <3>1, <1>t DEF TypeOK, RunStates, CancelCommit
      <3>3. Live' \subseteq Live
        BY <3>1, <3>2 DEF Live
      <3>4. KeyNamesOneAppt'
        BY <2>1, <3>3, LiveShrinks DEF IInv, ButtonInv
      <3>5. TapsWereShown'
        BY <2>1, <3>2 DEF IInv, ButtonInv, TapsWereShown
      <3>6. AskingCollects'
        BY <3>1, <3>2 DEF IInv, ButtonInv, AskingCollects
      <3>7. CommitOnlyOnTap'
        BY <2>1, <3>2 DEF IInv, ButtonInv, CommitOnlyOnTap
      <3> QED  BY <2>1, <3>4, <3>5, <3>6, <3>7 DEF ButtonInv
    <2> QED  BY <2>2, <2>3
  <1>13. ASSUME NEW r \in Runs, CancelCommitAnswered(r) PROVE Kept /\ Fixed
    <2>1. UNCHANGED <<cards, nextKey>>
      BY <1>13 DEF CancelCommitAnswered
    <2> PICK answer : LET d == Committed(runs[r].draft, answer)
                      IN Goto(r, d, IF d.phase = "done" THEN "cancel_success"
                                    ELSE "subgraph_finalize")
      BY <1>13 DEF CancelCommitAnswered
    <2>2. Committed(runs[r].draft, answer).confirmation = runs[r].draft.confirmation
      BY <1>a, <1>c DEF Committed, Drafts
    <2> QED  BY <2>1, <2>2, <1>a, <1>n, DraftType, GotoInv
  <1>14. ASSUME NEW r \in Runs, CancelSuccess(r) PROVE Kept /\ Fixed
    <2> DEFINE e == [runs[r].draft EXCEPT !.terminalOutcome =
                                     Outcome("success", runs[r].draft.slot.value)]
    <2>1. UNCHANGED <<cards, nextKey>> /\ Goto(r, e, "subgraph_finalize")
      BY <1>14 DEF CancelSuccess
    <2>2. e \in Drafts /\ e.confirmation = runs[r].draft.confirmation
      BY <1>a, DraftType DEF Drafts, Slots
    <2> HIDE DEF e
    <2> QED  BY <2>1, <2>2, <1>a, <1>n, GotoInv
  <1>15. ASSUME NEW r \in Runs, Finalize(r) PROVE Kept /\ Fixed
    <2>1. /\ runs' = [runs EXCEPT ![r] = Idle] /\ UNCHANGED <<cards, nextKey>>
          /\ ckpt'.by = r /\ ckpt'.paused = "none" /\ ckpt'.draft.confirmation = Unconfirmed
      BY <1>15 DEF Finalize, NoThread, NoDraft
    <2> QED  BY <2>1, IdleInv
  <1>16. ASSUME NEW k \in Keys, GuacucoExecute(k) PROVE Kept /\ Fixed
    BY <1>16, OutsideInv DEF GuacucoExecute
  <1>17. ASSUME NEW k \in Keys, GuacucoForget(k) PROVE Kept /\ Fixed
    BY <1>17, OutsideInv DEF GuacucoForget
  <1>18. ASSUME CancelledElsewhere PROVE Kept /\ Fixed
    BY <1>18, OutsideInv DEF CancelledElsewhere
  <1>19. ASSUME Expire PROVE Kept /\ Fixed
    BY <1>19, OutsideInv DEF Expire
  <1>20. ASSUME NEW r \in Runs, Crash(r) PROVE Kept /\ Fixed
    <2>1. /\ runs' = [runs EXCEPT ![r] = Idle] /\ UNCHANGED <<ckpt, cards, nextKey>>
      BY <1>20 DEF Crash
    <2>2. ckpt.paused = "cancel_ask_slot" => ckpt.draft.phase # "awaiting_confirmation"
      BY DEF IInv, ButtonInv, AskingCollects
    <2> QED  BY <2>1, <2>2, <1>b, IdleInv
  <1>21. CASE UNCHANGED vars
    BY <1>21, OutsideInv DEF vars
  <1> QED
    BY <1>1, <1>2, <1>3, <1>4, <1>5, <1>6, <1>7, <1>8, <1>9, <1>10, <1>11, <1>12, <1>13, <1>14,
       <1>15, <1>16, <1>17, <1>18, <1>19, <1>20, <1>21 DEF Next, RunStep

\* The strengthened invariant holds in every behaviour: what the theorems below rest on.
LEMMA ButtonInvariant == Spec => []IInv
  <1>1. Init => IInv
    BY ButtonInit, ConstantsOK
  <1>2. IInv /\ [Next]_vars => IInv'
    BY ButtonStep, ConstantsOK
  <1> QED  BY <1>1, <1>2, PTL DEF Spec

\* Whatever turns interleave, crash or resume, a cancel request is sent only by
\* the turn whose message is a tap on the confirm button of that very intentUuid,
\* and that button had been shown.
THEOREM CommitNeedsTap == Spec => []CommitOnlyOnTap
  <1>1. IInv => CommitOnlyOnTap
    BY DEF IInv, ButtonInv
  <1> QED  BY <1>1, ButtonInvariant, PTL

\* All the copies of a confirmation, in memory, in the checkpoint and on the
\* screen, name one appointment, and no intentUuid is drawn twice.
THEOREM OneApptPerKey == Spec => []KeyNamesOneAppt
  <1>1. IInv => KeyNamesOneAppt
    BY DEF IInv, ButtonInv
  <1> QED  BY <1>1, ButtonInvariant, PTL

\* The button of a gate message never comes to stand for another appointment.
THEOREM ButtonStaysBound == Spec => CardIsFixed
  <1>1. IInv /\ [Next]_vars => [\A k \in Keys : cards[k] # NoAppt => cards'[k] = cards[k]]_cards
    BY ButtonStep, ConstantsOK
  <1> QED  BY <1>1, ButtonInvariant, PTL DEF Spec, CardIsFixed

-----------------------------------------------------------------------------
(* No silence.                                                             *)

\* A turn that is about to finalize has something to tell.
AnswerReady ==
    /\ told.action # "ignored"
    /\ \A r \in Runs : runs[r].node = "subgraph_finalize" => runs[r].draft.terminalOutcome # NoOutcome

\* A turn only gets to finalize failed, refused at the start, or with its success.
LEMMA AnswerStep == ConstantsOK /\ TypeOK /\ AnswerReady /\ [Next]_vars => AnswerReady'
  <1> SUFFICES ASSUME ConstantsOK, TypeOK, AnswerReady, [Next]_vars PROVE AnswerReady'
    OBVIOUS
  <1>a. ASSUME NEW r \in Runs PROVE runs[r] \in RunStates /\ runs[r].draft \in Drafts
    BY DEF TypeOK, RunStates
  <1>d. ASSUME NEW d \in Drafts
        PROVE  /\ \A o \in {"no_upcomings", "handed_off", "error"} :
                     Failed(d, o) \in Drafts /\ Failed(d, o).terminalOutcome # NoOutcome
               /\ \A U \in SUBSET Appts : \A e \in Bootstrapped(d, U) :
                     ~IsActiveDraft(e) => e.terminalOutcome # NoOutcome
    <2>1. \A o \in {"no_upcomings", "handed_off", "error"} :
             Failed(d, o) \in Drafts /\ Failed(d, o).terminalOutcome # NoOutcome
      BY DraftType DEF Failed, Outcome, NoOutcome, Drafts
    <2>2. \A U \in SUBSET Appts : \A e \in Bootstrapped(d, U) :
             \/ e = Failed(d, "no_upcomings")
             \/ e.phase \in {"awaiting_confirmation", "collecting"}
      BY DEF Bootstrapped, Drafts
    <2> QED  BY <2>1, <2>2 DEF IsActiveDraft
  <1>g. ASSUME NEW r \in Runs, NEW d, NEW n, Goto(r, d, n), told' = told,
               n = "subgraph_finalize" => d.terminalOutcome # NoOutcome
        PROVE  AnswerReady'
    BY <1>g DEF AnswerReady, Goto, TypeOK
  <1>i. ASSUME NEW r \in Runs, runs' = [runs EXCEPT ![r] = Idle], told'.action # "ignored"
        PROVE  AnswerReady'
    BY <1>i DEF AnswerReady, Idle, TypeOK
  <1>1. ASSUME NEW r \in Runs, Arrive(r) PROVE AnswerReady'
    BY <1>1 DEF Arrive, AnswerReady, Idle, TypeOK, NoOutcome, Outcome
  <1>2. ASSUME NEW r \in Runs, Resume(r) PROVE AnswerReady'
    BY <1>2, <1>a DEF Resume, AnswerReady, TypeOK, Checkpoints, RunStates
  <1>3. ASSUME NEW r \in Runs, EnterFresh(r) \/ EnterBlind(r) PROVE AnswerReady'
    BY <1>3, <1>g DEF EnterFresh, EnterBlind
  <1>4. ASSUME NEW r \in Runs, Supervisor(r) PROVE AnswerReady'
    <2>1. ASSUME NEW o \in {"unsupported", "placeholder", "other_intent"}, EndTurn(r, o)
          PROVE  AnswerReady'
      BY <2>1, <1>i DEF EndTurn, Tell, Outcome
    <2>2. ASSUME NEW d, Goto(r, d, "cancel_bootstrap"), told' = told PROVE AnswerReady'
      BY <2>2, <1>g
    <2> QED  BY <1>4, <2>1, <2>2 DEF Supervisor
  <1>5. ASSUME NEW r \in Runs, CancelBootstrap(r) PROVE AnswerReady'
    <2> PICK d \in Bootstrapped(runs[r].draft, runs[r].upcomings) : Goto(r, d, RouteAfterBootstrap(d))
      BY <1>5 DEF CancelBootstrap
    <2>1. RouteAfterBootstrap(d) = "subgraph_finalize" => d.terminalOutcome # NoOutcome
      BY <1>a, <1>d DEF RouteAfterBootstrap, RunStates
    <2> QED  BY <1>5, <2>1, <1>g DEF CancelBootstrap
  <1>6. ASSUME NEW r \in Runs, CancelAskSlot(r) PROVE AnswerReady'
    BY <1>6, <1>a, <1>d, <1>g, <1>i DEF CancelAskSlot, Interrupt, Tell, Outcome
  <1>7. ASSUME NEW r \in Runs, CancelAskSlotResumed(r) PROVE AnswerReady'
    BY <1>7, <1>g DEF CancelAskSlotResumed
  <1>8. ASSUME NEW r \in Runs, CancelBuildConfirm(r) PROVE AnswerReady'
    BY <1>8, <1>g DEF CancelBuildConfirm
  <1>9. ASSUME NEW r \in Runs, CancelGate(r) PROVE AnswerReady'
    BY <1>9, <1>a, <1>d, <1>g, <1>i DEF CancelGate, Interrupt, Tell, Outcome
  <1>10. ASSUME NEW r \in Runs, CancelGateResumed(r) PROVE AnswerReady'
    BY <1>10, <1>g DEF CancelGateResumed
  <1>11. ASSUME NEW r \in Runs, CancelCommit(r) PROVE AnswerReady'
    <2>1. CASE runs' = [runs EXCEPT ![r].node = "guacuco"]
      BY <1>11, <1>a, <2>1 DEF CancelCommit, AnswerReady, TypeOK, RunStates
    <2>2. CASE Goto(r, Failed(runs[r].draft, "error"), "subgraph_finalize")
      BY <1>11, <2>2, <1>a, <1>d, <1>g DEF CancelCommit
    <2> QED  BY <1>11, <2>1, <2>2 DEF CancelCommit
  <1>12. ASSUME NEW r \in Runs, CancelCommitAnswered(r) PROVE AnswerReady'
    <2> PICK answer : LET d == Committed(runs[r].draft, answer)
                      IN  Goto(r, d, IF d.phase = "done" THEN "cancel_success"
                                     ELSE "subgraph_finalize")
      BY <1>12 DEF CancelCommitAnswered
    <2>1. LET d == Committed(runs[r].draft, answer)
          IN  d.phase = "done" \/ d.terminalOutcome # NoOutcome
      BY <1>a, <1>d DEF Committed, Drafts
    <2> QED  BY <1>12, <2>1, <1>g DEF CancelCommitAnswered
  <1>13. ASSUME NEW r \in Runs, CancelSuccess(r) PROVE AnswerReady'
    <2>1. [runs[r].draft EXCEPT !.terminalOutcome = Outcome("success", runs[r].draft.slot.value)]
             .terminalOutcome # NoOutcome
      BY <1>a DEF Outcome, NoOutcome, Drafts
    <2> QED  BY <1>13, <2>1, <1>g DEF CancelSuccess
  <1>14. ASSUME NEW r \in Runs, Finalize(r) PROVE AnswerReady'
    <2>1. runs[r].draft.terminalOutcome # NoOutcome /\ runs[r].draft.terminalOutcome \in Outcomes
      BY <1>14, <1>a DEF Finalize, AnswerReady, Drafts
    <2> QED  BY <1>14, <2>1, <1>i DEF Finalize, Outcomes
  <1>15. ASSUME NEW r \in Runs, Crash(r) PROVE AnswerReady'
    BY <1>15, <1>i DEF Crash, AnswerReady
  <1>16. CASE UNCHANGED <<runs, told>>
    BY <1>16 DEF AnswerReady
  <1>17. /\ \A k \in Keys : GuacucoExecute(k) \/ GuacucoForget(k) => UNCHANGED <<runs, told>>
         /\ CancelledElsewhere \/ Expire \/ UNCHANGED vars => UNCHANGED <<runs, told>>
    BY DEF GuacucoExecute, GuacucoForget, CancelledElsewhere, Expire, vars
  <1> QED
    BY <1>1, <1>2, <1>3, <1>4, <1>5, <1>6, <1>7, <1>8, <1>9, <1>10, <1>11, <1>12, <1>13, <1>14,
       <1>15, <1>16, <1>17 DEF Next, RunStep

\* No flow ends without an answer: whoever reaches finalize has an outcome.
THEOREM AlwaysAnswered == Spec => []NeverSilent
  <1>1. Init => AnswerReady
    BY DEF Init, AnswerReady, Idle, NoOutcome, Outcome
  <1>2. TypeOK /\ AnswerReady /\ [Next]_vars => AnswerReady'
    BY AnswerStep, ConstantsOK
  <1>3. AnswerReady => NeverSilent
    BY DEF AnswerReady, NeverSilent
  <1> QED  BY <1>1, <1>2, <1>3, TypeCorrect, PTL DEF Spec

-----------------------------------------------------------------------------
(* One turn at a time, and none that died.  Inductive: a flow that is not      *)
(* waiting has no draft, so that a draft past build_confirm still is what its   *)
(* confirmation names; and what Guacuco holds under a key is what was asked.    *)

OneTurn == \A r, q \in Runs : r = q

\* The confirmation is of the appointment chosen.
Agrees(d) ==
    d.confirmation.key # NoKey /\ d.slot.status = "resolved" /\ d.confirmation.names = d.slot.value

\* What the draft holds at, or paused before, node n.
DraftAt(d, n) ==
    /\ n = "supervisor" => d = NoDraft
    /\ n = "cancel_bootstrap" => d.confirmation.key = NoKey /\ d.terminalOutcome = NoOutcome
    /\ n \in {"cancel_ask_slot", "cancel_build_confirm"} => d.confirmation.key = NoKey
    /\ n \in {"subgraph_gate", "cancel_commit", "guacuco", "cancel_success"} => Agrees(d)

DraftInv ==
    /\ \A r \in Runs : DraftAt(runs[r].draft, runs[r].node)
    /\ DraftAt(ckpt.draft, ckpt.paused)
    /\ ckpt.by = NoRun => ckpt.draft = NoDraft /\ ckpt.paused = "none"
    /\ \A r \in Runs : runs[r].node \in {"idle", "resolve_thread"} /\ ckpt.paused = "none"
         => ckpt.draft = NoDraft

AskedInv ==
    /\ \A q \in asked : q.value \in Appts /\ cards[q.key] = q.value
    /\ \A k \in Keys : idem[k].status # "none" => [key |-> k, value |-> idem[k].value] \in asked
    /\ \A r \in Runs : runs[r].node = "guacuco" =>
         [key |-> runs[r].draft.confirmation.key, value |-> runs[r].draft.slot.value] \in asked

TruthInv ==
    /\ \A k \in Keys : idem[k].result \in {"ok", "APPOINTMENT_ALREADY_CANCELLED"} =>
         idem[k].value \notin booked
    /\ \A r \in Runs : runs[r].node = "cancel_success" => runs[r].draft.slot.value \notin booked
    /\ \A r \in Runs :
         /\ runs[r].node = "subgraph_finalize" /\ runs[r].draft.terminalOutcome.action = "success"
         => runs[r].draft.terminalOutcome.names \notin booked
    /\ told.action = "success" => told.names \notin booked

\* A step of a node, for the drafts.
LEMMA GotoDraft ==
    ASSUME ConstantsOK, OneTurn, IInv, DraftInv, NEW r \in Runs, NEW d, NEW n \in Nodes,
           Goto(r, d, n), n \notin {"idle", "resolve_thread"}, DraftAt(d, n)
    PROVE  DraftInv'
  <1>1. /\ ckpt'.draft = d /\ ckpt'.paused = "none" /\ ckpt'.by = r
        /\ runs'[r].draft = d /\ runs'[r].node = n
    BY DEF Goto, NoThread, IInv, TypeOK
  <1>2. \A q \in Runs : q = r
    BY DEF OneTurn
  <1>3. DraftAt(ckpt'.draft, "none")
    BY DEF DraftAt
  <1> QED  BY <1>1, <1>2, <1>3 DEF DraftInv, ConstantsOK

\* A pause, for the drafts.
LEMMA PauseDraft ==
    ASSUME ConstantsOK, OneTurn, IInv, DraftInv, NEW r \in Runs,
           runs[r].node \in {"cancel_ask_slot", "subgraph_gate"}, Interrupt(r, runs[r].node)
    PROVE  DraftInv'
  <1>1. runs'[r] = Idle /\ DraftAt(Idle.draft, Idle.node) /\ Idle.node = "idle"
    BY DEF Interrupt, IInv, TypeOK, DraftAt, Idle
  <1>2. \A q \in Runs : q = r
    BY DEF OneTurn
  <1>3. CASE ckpt.by = r
    <2>1. ckpt.draft = runs[r].draft
      BY <1>3 DEF IInv, ButtonInv, AskingCollects
    <2>2. ckpt'.draft = ckpt.draft /\ ckpt'.paused = runs[r].node /\ ckpt'.by = r
      BY <1>3 DEF Interrupt, IInv, TypeOK, Checkpoints
    <2>3. ckpt'.paused # "none" /\ ckpt'.by # NoRun
      BY <2>2 DEF ConstantsOK
    <2> QED  BY <1>1, <1>2, <2>1, <2>2, <2>3 DEF DraftInv
  <1>4. CASE ckpt.by # r
    <2>1. ckpt' = ckpt /\ ckpt.by = NoRun
      BY <1>2, <1>4 DEF Interrupt, IInv, TypeOK, Checkpoints
    <2> QED  BY <1>1, <1>2, <2>1 DEF DraftInv
  <1> QED  BY <1>3, <1>4

\* While no turn dies, a draft is dropped with its flow, and past build_confirm
\* it is what its confirmation names.
LEMMA DraftStep ==
    ASSUME ConstantsOK, OneTurn, IInv, DraftInv, Next, faults' = faults
    PROVE  DraftInv'
  <1>t. TypeOK
    BY DEF IInv
  <1>a. ASSUME NEW r \in Runs PROVE /\ runs[r] \in RunStates
                                    /\ runs[r].draft \in Drafts
                                    /\ runs[r].msg \in Messages
                                    /\ runs[r].upcomings \in SUBSET Appts
                                    /\ DraftAt(runs[r].draft, runs[r].node)
    BY <1>t DEF TypeOK, RunStates, DraftInv
  <1>o. \A r, q \in Runs : r = q
    BY DEF OneTurn
  <1>n. Nodes = {"idle", "resolve_thread", "supervisor", "cancel_bootstrap", "cancel_ask_slot",
                 "cancel_build_confirm", "subgraph_gate", "cancel_commit", "guacuco",
                 "cancel_success", "subgraph_finalize"}
    BY DEF Nodes
  <1>f. \A d : DraftAt(d, "subgraph_finalize")
    BY DEF DraftAt
  <1>z. /\ NoDraft.confirmation.key = NoKey /\ NoDraft.terminalOutcome = NoOutcome
        /\ Unconfirmed.key = NoKey
    BY DEF NoDraft, Unconfirmed
  <1>1. ASSUME NEW r \in Runs, Arrive(r) PROVE DraftInv'
    <2>1. ckpt' = ckpt /\ runs[r].node = "idle" /\ runs'[r].node = "resolve_thread"
      BY <1>1, <1>t DEF Arrive, TypeOK, Idle
    <2>2. DraftAt(runs'[r].draft, "resolve_thread")
      BY DEF DraftAt
    <2> QED  BY <2>1, <2>2, <1>o DEF DraftInv
  <1>2. ASSUME NEW r \in Runs, Resume(r) PROVE DraftInv'
    <2>1. /\ ckpt' = ckpt /\ runs'[r].node = ckpt.paused /\ runs'[r].draft = ckpt.draft
          /\ ckpt.paused # "none"
      BY <1>2, <1>t DEF Resume, TypeOK, RunStates
    <2> QED  BY <2>1, <1>o DEF DraftInv
  <1>3. ASSUME NEW r \in Runs, EnterFresh(r) PROVE DraftInv'
    <2>1. ckpt.draft = NoDraft /\ Goto(r, ckpt.draft, "supervisor")
      BY <1>3 DEF EnterFresh, DraftInv
    <2> QED  BY <2>1, <1>n, GotoDraft DEF DraftAt
  <1>4. ASSUME NEW r \in Runs, Supervisor(r) PROVE DraftInv'
    <2>1. runs[r].draft = NoDraft
      BY <1>4, <1>a DEF Supervisor, DraftAt
    <2>2. ASSUME NEW o, EndTurn(r, o) PROVE DraftInv'
      <3>1. /\ ckpt'.draft = NoDraft /\ ckpt'.paused = "none" /\ ckpt'.by = r /\ runs'[r] = Idle
        BY <2>1, <2>2, <1>t DEF EndTurn, NoThread, TypeOK
      <3>2. DraftAt(Idle.draft, Idle.node) /\ DraftAt(NoDraft, "none") /\ r # NoRun
        BY DEF DraftAt, Idle, ConstantsOK
      <3> QED  BY <3>1, <3>2, <1>o DEF DraftInv
    <2>3. ASSUME NEW d, Goto(r, d, "cancel_bootstrap"),
                 d.confirmation.key = NoKey, d.terminalOutcome = NoOutcome
          PROVE  DraftInv'
      BY <2>3, <1>n, GotoDraft DEF DraftAt
    <2>4. /\ initialCancelDraftState.confirmation.key = NoKey
          /\ initialCancelDraftState.terminalOutcome = NoOutcome
          /\ \A s : LET d == [initialCancelDraftState EXCEPT !.slot = s]
                   IN  d.confirmation.key = NoKey /\ d.terminalOutcome = NoOutcome
      BY <1>z DEF initialCancelDraftState, NoDraft
    <2> QED  BY <1>4, <2>1, <2>2, <2>3, <2>4 DEF Supervisor
  <1>5. ASSUME NEW r \in Runs, CancelBootstrap(r) PROVE DraftInv'
    <2> PICK d \in Bootstrapped(runs[r].draft, runs[r].upcomings) : Goto(r, d, RouteAfterBootstrap(d))
      BY <1>5 DEF CancelBootstrap
    <2>1. runs[r].draft.confirmation.key = NoKey
      BY <1>5, <1>a DEF CancelBootstrap, DraftAt
    <2>2. d.confirmation.key = NoKey
      BY <2>1, <1>a DEF Bootstrapped, Failed, Drafts
    <2>3. RouteAfterBootstrap(d) \in {"subgraph_finalize", "cancel_build_confirm", "cancel_ask_slot"}
      BY DEF RouteAfterBootstrap
    <2>4. DraftAt(d, RouteAfterBootstrap(d))
      BY <2>2, <2>3 DEF DraftAt
    <2> QED  BY <2>3, <2>4, <1>n, GotoDraft
  <1>6. ASSUME NEW r \in Runs, CancelAskSlot(r) PROVE DraftInv'
    BY <1>6, <1>f, <1>n, GotoDraft, PauseDraft DEF CancelAskSlot
  <1>7. ASSUME NEW r \in Runs, CancelAskSlotResumed(r) PROVE DraftInv'
    <2> DEFINE d == Interpreted(runs[r].draft, runs[r].msg, runs[r].upcomings)
    <2>1. runs[r].draft.confirmation.key = NoKey
      BY <1>7, <1>a DEF CancelAskSlotResumed, DraftAt
    <2>2. d.confirmation.key = NoKey
      BY <2>1, <1>a DEF Interpreted, Drafts
    <2>3. \A n \in {"cancel_build_confirm", "cancel_ask_slot"} : DraftAt(d, n)
      BY <2>2 DEF DraftAt
    <2>4. \E n \in {"cancel_build_confirm", "cancel_ask_slot"} : Goto(r, d, n)
      BY <1>7 DEF CancelAskSlotResumed
    <2> QED  BY <2>3, <2>4, <1>n, GotoDraft
  <1>8. ASSUME NEW r \in Runs, CancelBuildConfirm(r) PROVE DraftInv'
    <2>1. runs[r].draft.confirmation.key = NoKey /\ runs[r].draft.slot.status = "resolved"
      BY <1>8, <1>a DEF CancelBuildConfirm, DraftAt, IInv, ButtonInv, TapsWereShown
    <2> DEFINE d == [runs[r].draft EXCEPT
                       !.confirmation = [key |-> nextKey, names |-> runs[r].draft.slot.value],
                       !.phase = "awaiting_confirmation"]
    <2>2. Goto(r, d, "subgraph_gate")
      BY <1>8, <2>1 DEF CancelBuildConfirm
    <2>3. nextKey # NoKey
      BY <1>t DEF TypeOK, ConstantsOK
    <2>4. DraftAt(d, "subgraph_gate")
      BY <2>1, <2>3, <1>a DEF DraftAt, Agrees, Drafts
    <2> QED  BY <2>2, <2>4, <1>n, GotoDraft
  <1>9. ASSUME NEW r \in Runs, CancelGate(r) PROVE DraftInv'
    BY <1>9, <1>f, <1>n, GotoDraft, PauseDraft DEF CancelGate
  <1>10. ASSUME NEW r \in Runs, CancelGateResumed(r) PROVE DraftInv'
    <2>1. Agrees(runs[r].draft)
      BY <1>10, <1>a DEF CancelGateResumed, DraftAt
    <2>2. DraftAt([runs[r].draft EXCEPT !.phase = "committing"], "cancel_commit")
      BY <2>1, <1>a DEF DraftAt, Agrees, Drafts
    <2>3. DraftAt([runs[r].draft EXCEPT !.confirmation = Unconfirmed, !.phase = "collecting"],
                  "cancel_ask_slot")
      BY <1>z, <1>a DEF DraftAt, Drafts
    <2> QED  BY <1>10, <2>2, <2>3, <1>n, GotoDraft DEF CancelGateResumed
  <1>11. ASSUME NEW r \in Runs, CancelCommit(r) PROVE DraftInv'
    <2>1. Agrees(runs[r].draft)
      BY <1>11, <1>a DEF CancelCommit, DraftAt
    <2>2. ckpt' = ckpt /\ runs' = [runs EXCEPT ![r].node = "guacuco"]
      BY <1>11, <2>1 DEF CancelCommit, Agrees
    <2>3. runs'[r].node = "guacuco" /\ runs'[r].draft = runs[r].draft
      BY <2>2, <1>t DEF TypeOK, RunStates
    <2>4. DraftAt(runs[r].draft, "guacuco")
      BY <2>1 DEF DraftAt
    <2> QED  BY <2>2, <2>3, <2>4, <1>o DEF DraftInv
  <1>12. ASSUME NEW r \in Runs, CancelCommitAnswered(r) PROVE DraftInv'
    <2> PICK answer : LET d == Committed(runs[r].draft, answer)
                      IN  Goto(r, d, IF d.phase = "done" THEN "cancel_success"
                                     ELSE "subgraph_finalize")
      BY <1>12 DEF CancelCommitAnswered
    <2>1. Agrees(runs[r].draft)
      BY <1>12, <1>a DEF CancelCommitAnswered, DraftAt
    <2>2. Agrees(Committed(runs[r].draft, answer))
      BY <2>1, <1>a DEF Agrees, Committed, Failed, Drafts
    <2>3. DraftAt(Committed(runs[r].draft, answer), "cancel_success")
      BY <2>2 DEF DraftAt
    <2> QED  BY <2>3, <1>f, <1>n, GotoDraft
  <1>13. ASSUME NEW r \in Runs, CancelSuccess(r) PROVE DraftInv'
    BY <1>13, <1>f, <1>n, GotoDraft DEF CancelSuccess
  <1>14. ASSUME NEW r \in Runs, Finalize(r) PROVE DraftInv'
    <2>1. /\ ckpt'.draft = NoDraft /\ ckpt'.paused = "none" /\ ckpt'.by = r /\ runs'[r] = Idle
      BY <1>14, <1>t DEF Finalize, NoThread, TypeOK
    <2>2. DraftAt(Idle.draft, Idle.node) /\ DraftAt(NoDraft, "none") /\ r # NoRun
      BY DEF DraftAt, Idle, ConstantsOK
    <2> QED  BY <2>1, <2>2, <1>o DEF DraftInv
  <1>15. ASSUME NEW r \in Runs, EnterBlind(r) \/ Crash(r) PROVE FALSE
    BY <1>15, <1>t DEF EnterBlind, Crash, TypeOK
  <1>16. CASE Expire
    <2>1. NoThread.draft = NoDraft /\ NoThread.paused = "none" /\ DraftAt(NoDraft, "none")
      BY DEF NoThread, DraftAt
    <2> QED  BY <1>16, <2>1 DEF Expire, DraftInv
  <1>17. /\ \A k \in Keys : GuacucoExecute(k) \/ GuacucoForget(k) => UNCHANGED <<runs, ckpt>>
         /\ CancelledElsewhere => UNCHANGED <<runs, ckpt>>
    BY DEF GuacucoExecute, GuacucoForget, CancelledElsewhere
  <1>18. UNCHANGED <<runs, ckpt>> => DraftInv'
    BY DEF DraftInv
  <1> QED
    BY <1>1, <1>2, <1>3, <1>4, <1>5, <1>6, <1>7, <1>8, <1>9, <1>10, <1>11, <1>12, <1>13, <1>14,
       <1>15, <1>16, <1>17, <1>18 DEF Next, RunStep

\* What is asked is what the card of its key names, and Guacuco works on what was asked.
LEMMA AskedStep ==
    ASSUME ConstantsOK, IInv, DraftInv, AskedInv, Next
    PROVE  AskedInv'
  <1>t. TypeOK
    BY DEF IInv
  <1>a. ASSUME NEW r \in Runs PROVE runs[r] \in RunStates /\ runs[r].draft \in Drafts
    BY <1>t DEF TypeOK, RunStates
  <1>k. asked \subseteq [key : Keys, value : Appts \cup {NoAppt}] /\ NoAppt \notin Appts
    BY <1>t DEF TypeOK, ConstantsOK
  <1>c. \A q \in asked : cards'[q.key] = cards[q.key]
    BY <1>k, ButtonStep DEF AskedInv
  <1>q. ASSUME UNCHANGED <<asked, idem>>,
               \A r \in Runs : runs'[r].node = "guacuco" => runs'[r] = runs[r]
        PROVE  AskedInv'
    BY <1>q, <1>c DEF AskedInv
  <1>g. ASSUME NEW r \in Runs, NEW d, NEW n, Goto(r, d, n), n # "guacuco", UNCHANGED <<asked, idem>>
        PROVE  AskedInv'
    BY <1>g, <1>q, <1>t DEF Goto, TypeOK
  <1>i. ASSUME NEW r \in Runs, runs' = [runs EXCEPT ![r] = Idle], UNCHANGED <<asked, idem>>
        PROVE  AskedInv'
    BY <1>i, <1>q, <1>t DEF Idle, TypeOK
  <1>1. ASSUME NEW r \in Runs, Arrive(r) PROVE AskedInv'
    BY <1>1, <1>q, <1>t DEF Arrive, Idle, TypeOK
  <1>2. ASSUME NEW r \in Runs, Resume(r) PROVE AskedInv'
    BY <1>2, <1>q, <1>t DEF Resume, TypeOK, Checkpoints, RunStates
  <1>3. ASSUME NEW r \in Runs,
               \/ EnterFresh(r) \/ EnterBlind(r) \/ Supervisor(r) \/ CancelBootstrap(r)
               \/ CancelAskSlot(r) \/ CancelAskSlotResumed(r) \/ CancelBuildConfirm(r)
               \/ CancelGate(r) \/ CancelGateResumed(r) \/ CancelCommitAnswered(r)
               \/ CancelSuccess(r) \/ Finalize(r) \/ Crash(r)
        PROVE  AskedInv'
    <2>1. UNCHANGED <<asked, idem>>
      BY <1>3 DEF EnterFresh, EnterBlind, Supervisor, CancelBootstrap, CancelAskSlot,
         CancelAskSlotResumed, CancelBuildConfirm, CancelGate, CancelGateResumed,
         CancelCommitAnswered, CancelSuccess, Finalize, Crash
    <2>2. \/ runs' = [runs EXCEPT ![r] = Idle]
          \/ \E d, n : Goto(r, d, n) /\ n # "guacuco"
      <3>1. CASE EnterFresh(r) \/ EnterBlind(r)
        BY <3>1 DEF EnterFresh, EnterBlind
      <3>2. CASE Supervisor(r)
        BY <3>2 DEF Supervisor, EndTurn
      <3>3. CASE CancelBootstrap(r)
        BY <3>3 DEF CancelBootstrap, RouteAfterBootstrap
      <3>4. CASE CancelAskSlot(r) \/ CancelGate(r)
        BY <3>4 DEF CancelAskSlot, CancelGate, Interrupt
      <3>5. CASE CancelAskSlotResumed(r)
        BY <3>5 DEF CancelAskSlotResumed
      <3>6. CASE CancelBuildConfirm(r)
        BY <3>6 DEF CancelBuildConfirm
      <3>7. CASE CancelGateResumed(r)
        BY <3>7 DEF CancelGateResumed
      <3>8. CASE CancelCommitAnswered(r)
        BY <3>8 DEF CancelCommitAnswered
      <3>9. CASE CancelSuccess(r)
        BY <3>9 DEF CancelSuccess
      <3>10. CASE Finalize(r) \/ Crash(r)
        BY <3>10 DEF Finalize, Crash
      <3> QED  BY <1>3, <3>1, <3>2, <3>3, <3>4, <3>5, <3>6, <3>7, <3>8, <3>9, <3>10
    <2> QED  BY <2>1, <2>2, <1>g, <1>i
  <1>4. ASSUME NEW r \in Runs, CancelCommit(r) PROVE AskedInv'
    <2> DEFINE c == runs[r].draft.confirmation
               q == [key |-> c.key, value |-> runs[r].draft.slot.value]
    <2>1. Agrees(runs[r].draft)
      BY <1>4 DEF CancelCommit, DraftInv, DraftAt
    <2>2. c \in Live /\ c \in Confirms
      BY <1>a DEF Live, Drafts
    <2>3. cards[c.key] # NoAppt
      BY <1>4 DEF CancelCommit, IInv, ButtonInv, CommitOnlyOnTap
    <2>4. cards[c.key] = c.names /\ c.names \in Appts
      BY <2>1, <2>2, <2>3 DEF IInv, ButtonInv, KeyNamesOneAppt, Agrees
    <2>5. q.value \in Appts /\ cards[q.key] = q.value
      BY <2>1, <2>4 DEF Agrees
    <2>6. asked' = asked \cup {q} /\ UNCHANGED cards /\ runs' = [runs EXCEPT ![r].node = "guacuco"]
      BY <1>4, <2>1 DEF CancelCommit, Agrees
    <2>7. \/ UNCHANGED idem
          \/ idem' = [idem EXCEPT ![c.key] = [NoRow EXCEPT !.status = "in_progress",
                                                          !.value = runs[r].draft.slot.value]]
      BY <1>4, <2>1 DEF CancelCommit, Agrees
    <2>8. \A k \in Keys : idem'[k].status # "none" => [key |-> k, value |-> idem'[k].value] \in asked'
      BY <2>6, <2>7, <1>t DEF AskedInv, TypeOK, NoRow
    <2>9. \A p \in Runs : runs'[p].node = "guacuco" =>
             [key |-> runs'[p].draft.confirmation.key, value |-> runs'[p].draft.slot.value] \in asked'
      BY <2>6, <1>t DEF AskedInv, TypeOK, RunStates
    <2> HIDE DEF q
    <2> QED  BY <2>5, <2>6, <2>8, <2>9 DEF AskedInv
  <1>5. ASSUME NEW k \in Keys, GuacucoExecute(k) \/ GuacucoForget(k) PROVE AskedInv'
    BY <1>5, <1>c, <1>t DEF GuacucoExecute, GuacucoForget, AskedInv, TypeOK, NoRow, IdemRows
  <1>6. CASE CancelledElsewhere \/ Expire
    BY <1>6, <1>q DEF CancelledElsewhere, Expire
  <1> QED  BY <1>1, <1>2, <1>3, <1>4, <1>5, <1>6 DEF Next, RunStep

\* What Guacuco answers is true of the appointment it was asked about, and that is the
\* one the flow will name.
LEMMA TruthStep ==
    ASSUME ConstantsOK, OneTurn, IInv, DraftInv, AskedInv, TruthInv, Next, faults' = faults
    PROVE  TruthInv'
  <1>t. TypeOK
    BY DEF IInv
  <1>a. ASSUME NEW r \in Runs PROVE /\ runs[r] \in RunStates /\ runs[r].draft \in Drafts
                                    /\ runs[r].upcomings \in SUBSET Appts
    BY <1>t DEF TypeOK, RunStates
  <1>o. \A r, q \in Runs : r = q
    BY DEF OneTurn
  <1>g. ASSUME NEW r \in Runs, NEW d, NEW n, Goto(r, d, n), UNCHANGED <<booked, idem, told>>,
               n = "cancel_success" => d.slot.value \notin booked,
               n = "subgraph_finalize" /\ d.terminalOutcome.action = "success"
                 => d.terminalOutcome.names \notin booked
        PROVE  TruthInv'
    BY <1>g, <1>o, <1>t DEF Goto, TruthInv, TypeOK
  <1>i. ASSUME NEW r \in Runs, runs' = [runs EXCEPT ![r] = Idle], UNCHANGED <<booked, idem>>,
               told'.action = "success" => told'.names \notin booked
        PROVE  TruthInv'
    BY <1>i, <1>o, <1>t DEF Idle, TruthInv, TypeOK
  <1>f. \A d \in Drafts : \A o \in {"no_upcomings", "handed_off", "error"} :
           Failed(d, o).terminalOutcome.action # "success"
    BY DEF Failed, Outcome, Drafts
  <1>1. ASSUME NEW r \in Runs, Arrive(r) PROVE TruthInv'
    BY <1>1, <1>o, <1>t DEF Arrive, Idle, TruthInv, TypeOK, NoOutcome, Outcome
  <1>2. ASSUME NEW r \in Runs, Resume(r) PROVE TruthInv'
    <2>1. /\ runs'[r].node \in {"cancel_ask_slot", "subgraph_gate"}
          /\ UNCHANGED <<booked, idem, told>>
      BY <1>2, <1>t DEF Resume, TypeOK, Checkpoints, RunStates
    <2> QED  BY <2>1, <1>o DEF TruthInv
  <1>3. ASSUME NEW r \in Runs, EnterFresh(r) PROVE TruthInv'
    BY <1>3, <1>g DEF EnterFresh
  <1>4. ASSUME NEW r \in Runs, Supervisor(r) PROVE TruthInv'
    <2>1. ASSUME NEW o \in {"unsupported", "placeholder", "other_intent"}, EndTurn(r, o),
                 UNCHANGED <<booked, idem>>
          PROVE  TruthInv'
      BY <2>1, <1>i DEF EndTurn, Tell, Outcome
    <2>2. ASSUME NEW d, Goto(r, d, "cancel_bootstrap"), UNCHANGED <<booked, idem, told>>
          PROVE  TruthInv'
      BY <2>2, <1>g
    <2> QED  BY <1>4, <2>1, <2>2 DEF Supervisor
  <1>5. ASSUME NEW r \in Runs, CancelBootstrap(r) PROVE TruthInv'
    <2> PICK d \in Bootstrapped(runs[r].draft, runs[r].upcomings) : Goto(r, d, RouteAfterBootstrap(d))
      BY <1>5 DEF CancelBootstrap
    <2>1. runs[r].draft.terminalOutcome = NoOutcome
      BY <1>5 DEF CancelBootstrap, DraftInv, DraftAt
    <2>2. d.terminalOutcome.action # "success"
      <3>1. d.terminalOutcome \in {NoOutcome, Failed(runs[r].draft, "no_upcomings").terminalOutcome}
        BY <2>1, <1>a DEF Bootstrapped, Drafts
      <3> QED  BY <3>1, <1>a, <1>f DEF NoOutcome, Outcome
    <2>3. RouteAfterBootstrap(d) # "cancel_success"
      BY DEF RouteAfterBootstrap
    <2> QED  BY <1>5, <2>2, <2>3, <1>g DEF CancelBootstrap
  <1>6. ASSUME NEW r \in Runs, CancelAskSlot(r) PROVE TruthInv'
    BY <1>6, <1>a, <1>f, <1>g, <1>i DEF CancelAskSlot, Interrupt, Tell, Outcome
  <1>7. ASSUME NEW r \in Runs, CancelAskSlotResumed(r) PROVE TruthInv'
    BY <1>7, <1>g DEF CancelAskSlotResumed
  <1>8. ASSUME NEW r \in Runs, CancelBuildConfirm(r) PROVE TruthInv'
    BY <1>8, <1>g DEF CancelBuildConfirm
  <1>9. ASSUME NEW r \in Runs, CancelGate(r) PROVE TruthInv'
    BY <1>9, <1>a, <1>f, <1>g, <1>i DEF CancelGate, Interrupt, Tell, Outcome
  <1>10. ASSUME NEW r \in Runs, CancelGateResumed(r) PROVE TruthInv'
    BY <1>10, <1>g DEF CancelGateResumed
  <1>11. ASSUME NEW r \in Runs, CancelCommit(r) PROVE TruthInv'
    <2>1. Agrees(runs[r].draft)
      BY <1>11 DEF CancelCommit, DraftInv, DraftAt
    <2>2. runs'[r].node = "guacuco" /\ UNCHANGED <<booked, told>>
      BY <1>11, <2>1, <1>t DEF CancelCommit, Agrees, TypeOK, RunStates
    <2>3. \A k \in Keys : idem'[k] = idem[k] \/ idem'[k].result = "none"
      BY <1>11, <2>1, <1>t DEF CancelCommit, Agrees, TypeOK, NoRow
    <2> QED  BY <2>2, <2>3, <1>o DEF TruthInv
  <1>12. ASSUME NEW r \in Runs, CancelCommitAnswered(r) PROVE TruthInv'
    <2> DEFINE k == runs[r].draft.confirmation.key
    <2> PICK answer \in Answers(k) :
           LET d == Committed(runs[r].draft, answer)
           IN  Goto(r, d, IF d.phase = "done" THEN "cancel_success" ELSE "subgraph_finalize")
      BY <1>12 DEF CancelCommitAnswered
    <2>1. runs[r].node = "guacuco" /\ UNCHANGED <<booked, idem, told>>
      BY <1>12 DEF CancelCommitAnswered
    <2>2. k \in Keys
      BY <2>1, <1>a DEF DraftInv, DraftAt, Agrees, Drafts, Confirms
    <2>3. CASE answer \in {"ok", "APPOINTMENT_ALREADY_CANCELLED"}
      <3>1. idem[k].status # "none" /\ idem[k].result = answer
        BY <2>3 DEF Answers
      <3>2. idem[k].value \notin booked
        BY <2>2, <2>3, <3>1 DEF TruthInv
      <3>3. cards[k] = idem[k].value
        BY <2>2, <3>1 DEF AskedInv
      <3>4. cards[k] = runs[r].draft.slot.value
        BY <2>1 DEF AskedInv
      <3>5. Committed(runs[r].draft, answer) = [runs[r].draft EXCEPT !.phase = "done"]
        BY <2>3 DEF Committed
      <3>6. Goto(r, [runs[r].draft EXCEPT !.phase = "done"], "cancel_success")
        BY <3>5, <1>a DEF Drafts
      <3>7. [runs[r].draft EXCEPT !.phase = "done"].slot = runs[r].draft.slot
        BY <1>a DEF Drafts
      <3> QED  BY <2>1, <3>2, <3>3, <3>4, <3>6, <3>7, <1>g
    <2>4. CASE answer \notin {"ok", "APPOINTMENT_ALREADY_CANCELLED"}
      <3>1. PICK o \in {"error", "handed_off"} : Committed(runs[r].draft, answer) = Failed(runs[r].draft, o)
        BY <2>4 DEF Committed
      <3>2. Failed(runs[r].draft, o).phase = "failed"
        BY <1>a DEF Failed, Drafts
      <3>3. Goto(r, Failed(runs[r].draft, o), "subgraph_finalize")
        BY <3>1, <3>2
      <3> QED  BY <2>1, <3>3, <1>a, <1>f, <1>g
    <2> QED  BY <2>3, <2>4
  <1>13. ASSUME NEW r \in Runs, CancelSuccess(r) PROVE TruthInv'
    <2>1. runs[r].draft.slot.value \notin booked
      BY <1>13 DEF CancelSuccess, TruthInv
    <2>2. [runs[r].draft EXCEPT !.terminalOutcome = Outcome("success", runs[r].draft.slot.value)]
             .terminalOutcome.names = runs[r].draft.slot.value
      BY <1>a DEF Outcome, Drafts
    <2> QED  BY <1>13, <2>1, <2>2, <1>g DEF CancelSuccess
  <1>14. ASSUME NEW r \in Runs, Finalize(r) PROVE TruthInv'
    <2>1. told'.action = "success" => told'.names \notin booked
      BY <1>14 DEF Finalize, TruthInv, Outcome
    <2> QED  BY <1>14, <2>1, <1>i DEF Finalize
  <1>15. ASSUME NEW r \in Runs, EnterBlind(r) \/ Crash(r) PROVE FALSE
    BY <1>15, <1>t DEF EnterBlind, Crash, TypeOK
  <1>16. ASSUME NEW k \in Keys, GuacucoExecute(k) PROVE TruthInv'
    <2>1. booked' \subseteq booked /\ UNCHANGED <<runs, told>>
      BY <1>16 DEF GuacucoExecute
    <2>2. \A j \in Keys : idem'[j].result \in {"ok", "APPOINTMENT_ALREADY_CANCELLED"} =>
             idem'[j].value \notin booked'
      BY <1>16, <1>t DEF GuacucoExecute, TruthInv, TypeOK, IdemRows
    <2> QED  BY <2>1, <2>2 DEF TruthInv
  <1>17. ASSUME NEW k \in Keys, GuacucoForget(k) PROVE TruthInv'
    BY <1>17, <1>t DEF GuacucoForget, TruthInv, TypeOK, NoRow
  <1>18. CASE CancelledElsewhere
    <2>1. booked' \subseteq booked /\ UNCHANGED <<runs, idem, told>>
      BY <1>18 DEF CancelledElsewhere
    <2> QED  BY <2>1 DEF TruthInv
  <1>19. CASE Expire
    BY <1>19 DEF Expire, TruthInv
  <1> QED
    BY <1>1, <1>2, <1>3, <1>4, <1>5, <1>6, <1>7, <1>8, <1>9, <1>10, <1>11, <1>12, <1>13, <1>14,
       <1>15, <1>16, <1>17, <1>18, <1>19 DEF Next, RunStep

\* The three together, as long as no turn has died.
SerialInv == OneTurn /\ (faults = 0 => DraftInv /\ AskedInv /\ TruthInv)

LEMMA FaultsGrow == [Next]_vars => faults' = faults \/ faults' = faults + 1
  BY DEF Next, RunStep, Arrive, Resume, EnterFresh, EnterBlind, Supervisor, CancelBootstrap,
     CancelAskSlot, CancelAskSlotResumed, CancelBuildConfirm, CancelGate, CancelGateResumed,
     CancelCommit, CancelCommitAnswered, CancelSuccess, Finalize, Crash, GuacucoExecute,
     GuacucoForget, CancelledElsewhere, Expire, vars

LEMMA SerialInvariant == OneTurn /\ Spec => [](IInv /\ SerialInv)
  <1>1. OneTurn /\ Init => SerialInv
    BY ConstantsOK DEF Init, SerialInv, DraftInv, AskedInv, TruthInv, DraftAt, Idle, NoThread, NoRow,
       NoOutcome, Outcome
  <1>2. IInv /\ [Next]_vars => faults' = faults \/ faults' = faults + 1
    BY FaultsGrow
  <1>3. IInv /\ SerialInv /\ [Next]_vars => SerialInv'
    <2> SUFFICES ASSUME IInv, SerialInv, [Next]_vars, faults' = 0
                 PROVE  DraftInv' /\ AskedInv' /\ TruthInv'
      BY DEF SerialInv, OneTurn
    <2>1. faults = 0 /\ faults' = faults
      BY <1>2 DEF IInv, TypeOK
    <2>2. CASE Next
      BY <2>1, <2>2, ConstantsOK, DraftStep, AskedStep, TruthStep DEF SerialInv
    <2>3. CASE UNCHANGED vars
      BY <2>1, <2>3 DEF SerialInv, DraftInv, AskedInv, TruthInv, vars
    <2> QED  BY <2>2, <2>3
  <1> QED  BY <1>1, <1>3, ButtonInvariant, PTL DEF Spec

\* With one turn at a time, and none that died: Guacuco is asked to cancel what the
\* gate message named.
THEOREM AskedIsShown == OneTurn /\ Spec => []CommitMatchesCard
  <1>1. SerialInv => CommitMatchesCard
    BY DEF SerialInv, AskedInv, CommitMatchesCard
  <1> QED  BY <1>1, SerialInvariant, PTL

\* And an appointment is said to be cancelled only when it no longer stands.
THEOREM SuccessToldIsTrue == OneTurn /\ Spec => []SuccessIsTrue
  <1>1. SerialInv => SuccessIsTrue
    BY DEF SerialInv, TruthInv, SuccessIsTrue
  <1> QED  BY <1>1, SerialInvariant, PTL

-----------------------------------------------------------------------------
(* The turn ends.                                                          *)

\* Where a turn stands after a node that leads on, and after one that pauses or ends.
LEMMA GotoNode ==
    ASSUME TypeOK, NEW r \in Runs, NEW d, NEW n, Goto(r, d, n)
    PROVE  /\ runs'[r].node = n /\ ~runs'[r].reply /\ runs'[r].draft = d
           /\ ckpt'.draft = d /\ ckpt'.paused = "none" /\ ckpt'.by = r
           /\ \A q \in Runs \ {r} : runs'[q] = runs[q]
  BY DEF Goto, TypeOK, NoThread

LEMMA IdleNode ==
    ASSUME TypeOK, NEW r \in Runs, runs' = [runs EXCEPT ![r] = Idle]
    PROVE  /\ runs'[r].node = "idle" /\ runs'[r].draft = NoDraft /\ ~runs'[r].reply
           /\ \A q \in Runs \ {r} : runs'[q] = runs[q]
  BY DEF TypeOK, Idle

\* Where each node leads.
LEMMA Edges ==
    ASSUME TypeOK, NEW r \in Runs, RunStep(r)
    PROVE  LET n  == runs[r].node
               m  == runs'[r].node
           IN
           /\ \A q \in Runs \ {r} : runs'[q] = runs[q]
           /\ \/ n # "idle" /\ m = "idle"
              \/ n = "resolve_thread" /\ m \in {"supervisor", "cancel_ask_slot", "subgraph_gate"}
              \/ n = "supervisor" /\ m = "cancel_bootstrap"
              \/ n = "cancel_bootstrap" /\ m \in {"cancel_build_confirm", "subgraph_finalize"}
              \/ n = "cancel_bootstrap" /\ m = "cancel_ask_slot" /\ ~runs'[r].reply
              \/ n = "cancel_ask_slot" /\ m = "subgraph_finalize"
              \/ n = "cancel_ask_slot" /\ runs[r].reply /\ m = "cancel_build_confirm"
              \/ n = "cancel_ask_slot" /\ runs[r].reply /\ m = "cancel_ask_slot" /\ ~runs'[r].reply
              \/ n = "cancel_build_confirm" /\ m = "subgraph_gate" /\ ~runs'[r].reply
              \/ n = "subgraph_gate" /\ m = "subgraph_finalize"
              \/ n = "subgraph_gate" /\ runs[r].reply /\ m = "cancel_commit"
              \/ n = "subgraph_gate" /\ runs[r].reply /\ m = "cancel_ask_slot" /\ ~runs'[r].reply
              \/ n = "cancel_commit" /\ m \in {"guacuco", "subgraph_finalize"}
              \/ n = "guacuco" /\ m \in {"cancel_success", "subgraph_finalize"}
              \/ n = "cancel_success" /\ m = "subgraph_finalize"
  <1>1. CASE Resume(r)
    <2>1. /\ runs[r].node = "resolve_thread" /\ runs'[r].node = ckpt.paused /\ ckpt.paused # "none"
          /\ \A q \in Runs \ {r} : runs'[q] = runs[q]
      BY <1>1 DEF Resume, TypeOK, RunStates
    <2> QED  BY <2>1 DEF TypeOK, Checkpoints
  <1>2. CASE EnterFresh(r)
    BY <1>2, GotoNode DEF EnterFresh
  <1>3. CASE Supervisor(r)
    <2>1. CASE \E o : EndTurn(r, o)
      BY <1>3, <2>1, IdleNode DEF Supervisor, EndTurn
    <2>2. CASE \E d : Goto(r, d, "cancel_bootstrap")
      BY <1>3, <2>2, GotoNode DEF Supervisor
    <2> QED  BY <1>3, <2>1, <2>2 DEF Supervisor
  <1>4. CASE CancelBootstrap(r)
    BY <1>4, GotoNode DEF CancelBootstrap, RouteAfterBootstrap
  <1>5. CASE CancelAskSlot(r)
    BY <1>5, GotoNode, IdleNode DEF CancelAskSlot, Interrupt
  <1>6. CASE CancelAskSlotResumed(r)
    BY <1>6, GotoNode DEF CancelAskSlotResumed
  <1>7. CASE CancelBuildConfirm(r)
    BY <1>7, GotoNode DEF CancelBuildConfirm
  <1>8. CASE CancelGate(r)
    BY <1>8, GotoNode, IdleNode DEF CancelGate, Interrupt
  <1>9. CASE CancelGateResumed(r)
    BY <1>9, GotoNode DEF CancelGateResumed
  <1>10. CASE CancelCommit(r)
    <2>1. CASE runs' = [runs EXCEPT ![r].node = "guacuco"]
      BY <1>10, <2>1 DEF CancelCommit, TypeOK, RunStates
    <2>2. CASE Goto(r, Failed(runs[r].draft, "error"), "subgraph_finalize")
      BY <1>10, <2>2, GotoNode DEF CancelCommit
    <2> QED  BY <1>10, <2>1, <2>2 DEF CancelCommit
  <1>11. CASE CancelCommitAnswered(r)
    BY <1>11, GotoNode DEF CancelCommitAnswered
  <1>12. CASE CancelSuccess(r)
    BY <1>12, GotoNode DEF CancelSuccess
  <1>13. CASE Finalize(r)
    BY <1>13, IdleNode DEF Finalize
  <1> QED  BY <1>1, <1>2, <1>3, <1>4, <1>5, <1>6, <1>7, <1>8, <1>9, <1>10, <1>11, <1>12, <1>13
           DEF RunStep

LEMMA StepShrinks ==
    ASSUME TypeOK, NEW r \in Runs, RunStep(r)
    PROVE  Rank(runs'[r]) < Rank(runs[r])
  <1> DEFINE n == runs[r].node
             m == runs'[r].node
  <1>1. n \in Nodes
    BY DEF TypeOK, RunStates
  <1>2. n # "idle" /\ m = "idle" => Rank(runs'[r]) < Rank(runs[r])
    BY <1>1 DEF Rank, Nodes
  <1>3. /\ n = "resolve_thread" /\ m \in {"supervisor", "cancel_ask_slot", "subgraph_gate"}
             => Rank(runs'[r]) < Rank(runs[r])
        /\ n = "supervisor" /\ m = "cancel_bootstrap" => Rank(runs'[r]) < Rank(runs[r])
        /\ n = "cancel_bootstrap" /\ m \in {"cancel_build_confirm", "subgraph_finalize"}
             => Rank(runs'[r]) < Rank(runs[r])
        /\ n = "cancel_bootstrap" /\ m = "cancel_ask_slot" /\ ~runs'[r].reply
             => Rank(runs'[r]) < Rank(runs[r])
    BY DEF Rank
  <1>4. /\ n = "cancel_ask_slot" /\ m = "subgraph_finalize" => Rank(runs'[r]) < Rank(runs[r])
        /\ n = "cancel_ask_slot" /\ runs[r].reply /\ m = "cancel_build_confirm"
             => Rank(runs'[r]) < Rank(runs[r])
        /\ n = "cancel_ask_slot" /\ runs[r].reply /\ m = "cancel_ask_slot" /\ ~runs'[r].reply
             => Rank(runs'[r]) < Rank(runs[r])
        /\ n = "cancel_build_confirm" /\ m = "subgraph_gate" /\ ~runs'[r].reply
             => Rank(runs'[r]) < Rank(runs[r])
    BY DEF Rank
  <1>5. /\ n = "subgraph_gate" /\ m = "subgraph_finalize" => Rank(runs'[r]) < Rank(runs[r])
        /\ n = "subgraph_gate" /\ runs[r].reply /\ m = "cancel_commit"
             => Rank(runs'[r]) < Rank(runs[r])
        /\ n = "subgraph_gate" /\ runs[r].reply /\ m = "cancel_ask_slot" /\ ~runs'[r].reply
             => Rank(runs'[r]) < Rank(runs[r])
    BY DEF Rank
  <1>6. /\ n = "cancel_commit" /\ m \in {"guacuco", "subgraph_finalize"}
             => Rank(runs'[r]) < Rank(runs[r])
        /\ n = "guacuco" /\ m \in {"cancel_success", "subgraph_finalize"}
             => Rank(runs'[r]) < Rank(runs[r])
        /\ n = "cancel_success" /\ m = "subgraph_finalize" => Rank(runs'[r]) < Rank(runs[r])
    BY DEF Rank
  <1> QED  BY <1>2, <1>3, <1>4, <1>5, <1>6, Edges, Zenon

\* Every node brings its turn nearer the end, with any number of turns in flight, crashes and
\* blind re-entries included; and no turn is further from it than six nodes.
THEOREM TurnsShrink == Spec => TurnShrinks /\ [](\A r \in Runs : Rank(runs[r]) \in 0..6)
  <1>1. TypeOK /\ [Next]_vars =>
          [\A r \in Runs : runs[r].node # "idle" =>
             runs'[r] = runs[r] \/ Rank(runs'[r]) < Rank(runs[r])]_vars
    <2> SUFFICES ASSUME TypeOK, Next, NEW r \in Runs, runs[r].node # "idle"
                 PROVE  runs'[r] = runs[r] \/ Rank(runs'[r]) < Rank(runs[r])
      OBVIOUS
    <2>1. ASSUME NEW q \in Runs, RunStep(q) PROVE runs'[r] = runs[r] \/ Rank(runs'[r]) < Rank(runs[r])
      BY <2>1, Edges, StepShrinks
    <2>2. ASSUME NEW q \in Runs, Arrive(q) PROVE runs'[r] = runs[r]
      BY <2>2 DEF Arrive, TypeOK
    <2>3. ASSUME NEW q \in Runs, Crash(q) PROVE runs'[r] = runs[r] \/ Rank(runs'[r]) < Rank(runs[r])
      <3>1. runs' = [runs EXCEPT ![q] = Idle] /\ runs[q].node # "idle" /\ runs[q].node \in Nodes
        BY <2>3 DEF Crash, TypeOK, RunStates
      <3>2. runs'[q].node = "idle" /\ (q # r => runs'[r] = runs[r])
        BY <3>1, IdleNode
      <3> QED  BY <3>1, <3>2 DEF Rank, Nodes
    <2>4. ASSUME NEW q \in Runs, EnterBlind(q)
          PROVE  runs'[r] = runs[r] \/ Rank(runs'[r]) < Rank(runs[r])
      <3>1. runs[q].node = "resolve_thread" /\ Goto(q, ckpt.draft, "supervisor")
        BY <2>4 DEF EnterBlind
      <3>2. runs'[q].node = "supervisor" /\ (q # r => runs'[r] = runs[r])
        BY <3>1, GotoNode
      <3> QED  BY <3>1, <3>2 DEF Rank
    <2>5. /\ \A k \in Keys : GuacucoExecute(k) \/ GuacucoForget(k) => UNCHANGED runs
          /\ CancelledElsewhere \/ Expire => UNCHANGED runs
      BY DEF GuacucoExecute, GuacucoForget, CancelledElsewhere, Expire
    <2> QED  BY <2>1, <2>2, <2>3, <2>4, <2>5 DEF Next
  <1>2. TypeOK => \A r \in Runs : Rank(runs[r]) \in 0..6
    BY DEF Rank
  <1> QED  BY <1>1, <1>2, TypeCorrect, PTL DEF Spec, TurnShrinks

-----------------------------------------------------------------------------
(* The flow ends.  The question is only waited for while attempts remain, so   *)
(* that what is left of a flow is a natural number and each question answered  *)
(* takes ten from it.                                                          *)

AttemptsInv ==
    /\ \A r \in Runs :
         /\ runs[r].draft.attempts <= MAX_ATTEMPTS
         /\ runs[r].node = "cancel_ask_slot" /\ runs[r].reply => runs[r].draft.attempts < MAX_ATTEMPTS
    /\ ckpt.draft.attempts <= MAX_ATTEMPTS
    /\ ckpt.paused = "cancel_ask_slot" => ckpt.draft.attempts < MAX_ATTEMPTS

LEMMA GotoAttempts ==
    ASSUME TypeOK, AttemptsInv, NEW r \in Runs, NEW d, NEW n, Goto(r, d, n),
           d.attempts <= MAX_ATTEMPTS
    PROVE  AttemptsInv'
  BY GotoNode DEF AttemptsInv

\* What the nodes make of the count.
LEMMA Counted ==
    ASSUME NEW d \in Drafts
    PROVE  /\ \A o : Failed(d, o).attempts = d.attempts
           /\ \A U : \A e \in Bootstrapped(d, U) : e.attempts = d.attempts
           /\ \A m, U : Interpreted(d, m, U).attempts = d.attempts + 1
           /\ \A answer : Committed(d, answer).attempts = d.attempts
  <1>1. \A o : Failed(d, o).attempts = d.attempts
    BY DEF Failed, Drafts
  <1>2. \A U : \A e \in Bootstrapped(d, U) : e.attempts = d.attempts
    BY <1>1 DEF Bootstrapped, Drafts
  <1>3. \A m, U : Interpreted(d, m, U).attempts = d.attempts + 1
    BY DEF Interpreted, Drafts
  <1>4. \A answer : Committed(d, answer).attempts = d.attempts
    BY <1>1 DEF Committed, Drafts
  <1> QED  BY <1>1, <1>2, <1>3, <1>4

LEMMA AttemptsStep == ConstantsOK /\ IInv /\ AttemptsInv /\ [Next]_vars => AttemptsInv'
  <1> SUFFICES ASSUME ConstantsOK, IInv, AttemptsInv, [Next]_vars PROVE AttemptsInv'
    OBVIOUS
  <1>t. TypeOK
    BY DEF IInv
  <1>a. ASSUME NEW r \in Runs
        PROVE  runs[r].draft \in Drafts /\ runs[r].draft.attempts <= MAX_ATTEMPTS
    BY <1>t DEF TypeOK, RunStates, AttemptsInv
  <1>m. MAX_ATTEMPTS \in Nat /\ NoDraft.attempts = 0 /\ initialCancelDraftState.attempts = 0
    BY DEF ConstantsOK, NoDraft, initialCancelDraftState
  <1>i. ASSUME NEW r \in Runs, runs' = [runs EXCEPT ![r] = Idle],
               ckpt'.draft.attempts <= MAX_ATTEMPTS,
               ckpt'.paused = "cancel_ask_slot" => ckpt'.draft.attempts < MAX_ATTEMPTS
        PROVE  AttemptsInv'
    <2>1. /\ runs'[r].node = "idle" /\ runs'[r].draft = NoDraft
          /\ \A q \in Runs \ {r} : runs'[q] = runs[q]
      BY <1>t, <1>i, IdleNode
    <2>2. runs'[r].draft.attempts <= MAX_ATTEMPTS
      BY <2>1, <1>m
    <2> QED  BY <2>1, <2>2, <1>i DEF AttemptsInv
  <1>1. ASSUME NEW r \in Runs, Arrive(r) PROVE AttemptsInv'
    <2> PICK m : runs' = [runs EXCEPT ![r] = [Idle EXCEPT !.node = "resolve_thread",
                                                          !.upcomings = booked, !.msg = m]]
      BY <1>1 DEF Arrive
    <2>1. runs'[r].node = "resolve_thread" /\ runs'[r].draft = NoDraft
      BY <1>t DEF TypeOK, Idle
    <2> QED  BY <1>1, <1>t, <1>m, <2>1 DEF Arrive, AttemptsInv, TypeOK
  <1>2. ASSUME NEW r \in Runs, Resume(r) PROVE AttemptsInv'
    <2>1. /\ runs'[r].node = ckpt.paused /\ runs'[r].draft = ckpt.draft /\ ckpt' = ckpt
          /\ \A q \in Runs \ {r} : runs'[q] = runs[q]
      BY <1>2, <1>t DEF Resume, TypeOK, RunStates
    <2> QED  BY <2>1 DEF AttemptsInv
  <1>3. ASSUME NEW r \in Runs, EnterFresh(r) \/ EnterBlind(r) PROVE AttemptsInv'
    BY <1>3, <1>t, GotoAttempts DEF EnterFresh, EnterBlind, AttemptsInv
  <1>4. ASSUME NEW r \in Runs, Supervisor(r) PROVE AttemptsInv'
    <2>1. ASSUME NEW o, EndTurn(r, o) PROVE AttemptsInv'
      <3>1. ckpt'.draft = runs[r].draft /\ ckpt'.paused = "none"
        BY <2>1 DEF EndTurn, NoThread
      <3> QED  BY <2>1, <3>1, <1>a, <1>i DEF EndTurn
    <2>2. \A s : [initialCancelDraftState EXCEPT !.slot = s].attempts = 0
      BY <1>m DEF initialCancelDraftState, NoDraft
    <2>3. ASSUME NEW d, Goto(r, d, "cancel_bootstrap"), d = runs[r].draft \/ d.attempts = 0
          PROVE  AttemptsInv'
      BY <2>3, <1>t, <1>a, <1>m, GotoAttempts
    <2> QED  BY <1>4, <2>1, <2>2, <2>3, <1>m DEF Supervisor
  <1>5. ASSUME NEW r \in Runs, CancelBootstrap(r) PROVE AttemptsInv'
    BY <1>5, <1>t, <1>a, Counted, GotoAttempts DEF CancelBootstrap
  <1>6. ASSUME NEW r \in Runs, CancelAskSlot(r) PROVE AttemptsInv'
    <2>1. CASE Goto(r, Failed(runs[r].draft, "handed_off"), "subgraph_finalize")
      BY <2>1, <1>t, <1>a, Counted, GotoAttempts
    <2>2. CASE runs[r].draft.attempts < MAX_ATTEMPTS /\ Interrupt(r, "cancel_ask_slot")
      <3>1. ckpt.by = r => ckpt.draft = runs[r].draft
        BY <1>6 DEF CancelAskSlot, IInv, ButtonInv, AskingCollects
      <3>2. ckpt.by = r => ckpt'.draft = ckpt.draft
        BY <2>2, <1>t DEF Interrupt, TypeOK, Checkpoints
      <3>3. ckpt.by # r => ckpt' = ckpt
        BY <2>2 DEF Interrupt
      <3> QED  BY <2>2, <3>1, <3>2, <3>3, <1>a, <1>i DEF Interrupt, AttemptsInv
    <2> QED  BY <1>6, <2>1, <2>2 DEF CancelAskSlot
  <1>7. ASSUME NEW r \in Runs, CancelAskSlotResumed(r) PROVE AttemptsInv'
    <2> DEFINE d == Interpreted(runs[r].draft, runs[r].msg, runs[r].upcomings)
    <2>1. d.attempts = runs[r].draft.attempts + 1
      BY <1>a, Counted
    <2>2. runs[r].draft.attempts < MAX_ATTEMPTS /\ runs[r].draft.attempts \in Nat
      BY <1>7, <1>a DEF CancelAskSlotResumed, AttemptsInv, Drafts
    <2>3. d.attempts <= MAX_ATTEMPTS
      BY <2>1, <2>2, <1>m
    <2>4. \E n : Goto(r, d, n)
      BY <1>7 DEF CancelAskSlotResumed
    <2> HIDE DEF d
    <2> QED  BY <2>3, <2>4, <1>t, GotoAttempts
  <1>8. ASSUME NEW r \in Runs, CancelBuildConfirm(r) PROVE AttemptsInv'
    <2>1. ASSUME NEW c PROVE [runs[r].draft EXCEPT !.confirmation = c,
                                                   !.phase = "awaiting_confirmation"].attempts
                               = runs[r].draft.attempts
      BY <1>a DEF Drafts
    <2>2. \E d : Goto(r, d, "subgraph_gate") /\ d.attempts = runs[r].draft.attempts
      BY <1>8, <2>1 DEF CancelBuildConfirm
    <2> QED  BY <2>2, <1>t, <1>a, GotoAttempts
  <1>9. ASSUME NEW r \in Runs, CancelGate(r) PROVE AttemptsInv'
    <2>1. CASE Goto(r, Failed(runs[r].draft, "error"), "subgraph_finalize")
      BY <2>1, <1>t, <1>a, Counted, GotoAttempts
    <2>2. CASE Interrupt(r, "subgraph_gate")
      <3>1. ckpt'.draft = ckpt.draft /\ (ckpt' = ckpt \/ ckpt'.paused = "subgraph_gate")
        BY <2>2, <1>t DEF Interrupt, TypeOK, Checkpoints
      <3> QED  BY <2>2, <3>1, <1>i DEF Interrupt, AttemptsInv
    <2> QED  BY <1>9, <2>1, <2>2 DEF CancelGate
  <1>10. ASSUME NEW r \in Runs, CancelGateResumed(r) PROVE AttemptsInv'
    <2>1. /\ [runs[r].draft EXCEPT !.phase = "committing"].attempts = runs[r].draft.attempts
          /\ [runs[r].draft EXCEPT !.confirmation = Unconfirmed, !.phase = "collecting"].attempts
               = runs[r].draft.attempts
      BY <1>a DEF Drafts
    <2>2. \E d, n : Goto(r, d, n) /\ d.attempts = runs[r].draft.attempts
      BY <1>10, <2>1 DEF CancelGateResumed
    <2> QED  BY <2>2, <1>t, <1>a, GotoAttempts
  <1>11. ASSUME NEW r \in Runs, CancelCommit(r) PROVE AttemptsInv'
    <2>1. CASE Goto(r, Failed(runs[r].draft, "error"), "subgraph_finalize")
      BY <2>1, <1>t, <1>a, Counted, GotoAttempts
    <2>2. CASE runs' = [runs EXCEPT ![r].node = "guacuco"] /\ UNCHANGED ckpt
      <3>1. /\ runs'[r].node = "guacuco" /\ runs'[r].draft = runs[r].draft
            /\ \A q \in Runs \ {r} : runs'[q] = runs[q]
        BY <2>2, <1>t DEF TypeOK, RunStates
      <3> QED  BY <2>2, <3>1 DEF AttemptsInv
    <2> QED  BY <1>11, <2>1, <2>2 DEF CancelCommit
  <1>12. ASSUME NEW r \in Runs, CancelCommitAnswered(r) PROVE AttemptsInv'
    BY <1>12, <1>t, <1>a, Counted, GotoAttempts DEF CancelCommitAnswered
  <1>13. ASSUME NEW r \in Runs, CancelSuccess(r) PROVE AttemptsInv'
    <2>1. \A o : [runs[r].draft EXCEPT !.terminalOutcome = o].attempts = runs[r].draft.attempts
      BY <1>a DEF Drafts
    <2> QED  BY <1>13, <2>1, <1>t, <1>a, GotoAttempts DEF CancelSuccess
  <1>14. ASSUME NEW r \in Runs, Finalize(r) PROVE AttemptsInv'
    <2>1. ckpt'.draft = NoDraft /\ ckpt'.paused = "none"
      BY <1>14 DEF Finalize, NoThread
    <2>2. ckpt'.draft.attempts <= MAX_ATTEMPTS /\ ckpt'.paused # "cancel_ask_slot"
      BY <2>1, <1>m
    <2> QED  BY <1>14, <2>2, <1>i DEF Finalize
  <1>15. ASSUME NEW r \in Runs, Crash(r) PROVE AttemptsInv'
    BY <1>15, <1>i DEF Crash, AttemptsInv
  <1>16. CASE Expire
    <2>1. ckpt'.draft = NoDraft /\ ckpt'.paused = "none" /\ runs' = runs
      BY <1>16 DEF Expire, NoThread
    <2> QED  BY <2>1, <1>m DEF AttemptsInv
  <1>17. UNCHANGED <<ckpt, runs>> => AttemptsInv'
    BY DEF AttemptsInv
  <1>18. /\ \A k \in Keys : GuacucoExecute(k) \/ GuacucoForget(k) => UNCHANGED <<ckpt, runs>>
         /\ CancelledElsewhere \/ UNCHANGED vars => UNCHANGED <<ckpt, runs>>
    BY DEF GuacucoExecute, GuacucoForget, CancelledElsewhere, vars
  <1> QED  BY <1>1, <1>2, <1>3, <1>4, <1>5, <1>6, <1>7, <1>8, <1>9, <1>10, <1>11, <1>12, <1>13,
              <1>14, <1>15, <1>16, <1>17, <1>18 DEF Next, RunStep

\* What is left of the flow after a node that leads on, and after a pause.
LEMMA GotoLeft ==
    ASSUME TypeOK, NEW r \in Runs, NEW d, NEW n, Goto(r, d, n), n \notin {"idle", "resolve_thread"}
    PROVE  Left(r)' = 10 * (MAX_ATTEMPTS - d.attempts) + Place(n, FALSE, FALSE)
  <1>1. runs'[r].node = n /\ ~runs'[r].reply /\ runs'[r].draft = d /\ InTurn(r)'
    BY GotoNode DEF InTurn
  <1>2. runs'[r].reply = FALSE
    BY DEF Goto, TypeOK
  <1> QED  BY <1>1, <1>2 DEF Left

LEMMA PauseLeft ==
    ASSUME ConstantsOK, OneTurn, IInv, DraftInv, NEW r \in Runs,
           runs[r].node \in {"cancel_ask_slot", "subgraph_gate"}, Interrupt(r, runs[r].node)
    PROVE  \/ Left(r)' = 0
           \/ Left(r)' = 10 * (MAX_ATTEMPTS - runs[r].draft.attempts) + Place(runs[r].node, TRUE, FALSE)
  <1>1. ~InTurn(r)'
    BY IdleNode DEF Interrupt, IInv, InTurn
  <1>2. CASE ckpt.by = r
    <2>1. ckpt.draft = runs[r].draft
      BY <1>2 DEF IInv, ButtonInv, AskingCollects
    <2>2. ckpt'.draft = ckpt.draft /\ ckpt'.paused = runs[r].node
      BY <1>2 DEF Interrupt, IInv, TypeOK, Checkpoints
    <2> QED  BY <1>1, <2>1, <2>2 DEF Left
  <1>3. CASE ckpt.by # r
    <2>1. ckpt' = ckpt /\ ckpt.by = NoRun
      BY <1>3 DEF Interrupt, IInv, TypeOK, Checkpoints, OneTurn
    <2>2. ckpt'.paused = "none"
      BY <2>1 DEF DraftInv
    <2> QED  BY <1>1, <2>2 DEF Left
  <1> QED  BY <1>2, <1>3

\* A flow that has something left is at a node, or at a pause, and something is left to count.
LEMMA LeftNat ==
    ASSUME ConstantsOK, TypeOK, AttemptsInv, NEW r \in Runs
    PROVE  Left(r) \in 0..(10 * MAX_ATTEMPTS + 13) /\ (InTurn(r) => Left(r) > 0)
  <1>1. \A n, w, p : Place(n, w, p) \in 1..13
    BY DEF Place
  <1>2. ASSUME NEW a \in Nat, a <= MAX_ATTEMPTS, NEW p \in 1..13
        PROVE  10 * (MAX_ATTEMPTS - a) + p \in 1..(10 * MAX_ATTEMPTS + 13)
    BY <1>2 DEF ConstantsOK
  <1>3. /\ runs[r].draft.attempts \in Nat /\ runs[r].draft.attempts <= MAX_ATTEMPTS
        /\ ckpt.draft.attempts \in Nat /\ ckpt.draft.attempts <= MAX_ATTEMPTS
    BY DEF TypeOK, RunStates, Checkpoints, Drafts, AttemptsInv
  <1>4. 1..(10 * MAX_ATTEMPTS + 13) \subseteq 0..(10 * MAX_ATTEMPTS + 13)
          /\ 0 \in 0..(10 * MAX_ATTEMPTS + 13)
          /\ \A x \in 1..(10 * MAX_ATTEMPTS + 13) : x > 0
    BY DEF ConstantsOK
  <1>5. CASE InTurn(r)
    <2>1. Left(r) = 10 * (MAX_ATTEMPTS - runs[r].draft.attempts)
                      + Place(runs[r].node, FALSE, runs[r].reply)
      BY <1>5 DEF Left
    <2> QED  BY <1>1, <1>2, <1>3, <1>4, <2>1
  <1>6. CASE ~InTurn(r) /\ ckpt.paused # "none"
    <2>1. Left(r) = 10 * (MAX_ATTEMPTS - ckpt.draft.attempts) + Place(ckpt.paused, TRUE, FALSE)
      BY <1>6 DEF Left
    <2> QED  BY <1>1, <1>2, <1>3, <1>4, <1>6, <2>1
  <1>7. CASE ~InTurn(r) /\ ckpt.paused = "none"
    BY <1>4, <1>7 DEF Left
  <1> QED  BY <1>5, <1>6, <1>7

\* Each step of the turn takes something from what is left.
LEMMA FlowStep ==
    ASSUME ConstantsOK, OneTurn, IInv, DraftInv, AttemptsInv, NEW r \in Runs, RunStep(r), Left(r) # 0
    PROVE  Left(r)' < Left(r)
  <1> DEFINE a == runs[r].draft.attempts
             L(p) == 10 * (MAX_ATTEMPTS - a) + p
  <1>t. TypeOK
    BY DEF IInv
  <1>a. a \in Nat /\ a <= MAX_ATTEMPTS /\ runs[r].draft \in Drafts /\ MAX_ATTEMPTS \in Nat
    BY <1>t DEF TypeOK, RunStates, Drafts, AttemptsInv, ConstantsOK
  <1>l. ASSUME InTurn(r) PROVE Left(r) = L(Place(runs[r].node, FALSE, runs[r].reply))
    BY <1>l DEF Left
  <1>z. InTurn(r) => Left(r) \in Nat /\ Left(r) > 0
    BY <1>t, LeftNat
  <1>b. ASSUME NEW p \in Nat, NEW q \in Nat, p < q PROVE L(p) < L(q)
    BY <1>a, <1>b
  <1>1. CASE Resume(r)
    <2>1. /\ runs[r].node = "resolve_thread" /\ ckpt.paused # "none"
          /\ runs'[r].node = ckpt.paused /\ runs'[r].draft = ckpt.draft /\ runs'[r].reply = TRUE
      BY <1>1, <1>t DEF Resume, TypeOK, RunStates
    <2>2. ckpt.paused \in {"cancel_ask_slot", "subgraph_gate"}
      BY <2>1, <1>t DEF TypeOK, Checkpoints
    <2>3. ckpt.draft.attempts \in Nat
      BY <1>t DEF TypeOK, Checkpoints, Drafts
    <2>4. Left(r)' = 10 * (MAX_ATTEMPTS - ckpt.draft.attempts) + Place(ckpt.paused, FALSE, TRUE)
      BY <2>1, <2>2 DEF Left, InTurn
    <2>5. Left(r) = 10 * (MAX_ATTEMPTS - ckpt.draft.attempts) + Place(ckpt.paused, TRUE, FALSE)
      BY <2>1 DEF Left, InTurn
    <2>6. \/ Place(ckpt.paused, FALSE, TRUE) = 5 /\ Place(ckpt.paused, TRUE, FALSE) = 6
          \/ Place(ckpt.paused, FALSE, TRUE) = 8 /\ Place(ckpt.paused, TRUE, FALSE) = 9
      BY <2>2 DEF Place
    <2>7. \A b \in Nat : /\ 10 * (MAX_ATTEMPTS - b) + 5 < 10 * (MAX_ATTEMPTS - b) + 6
                        /\ 10 * (MAX_ATTEMPTS - b) + 8 < 10 * (MAX_ATTEMPTS - b) + 9
      BY <1>a
    <2> QED  BY <2>3, <2>4, <2>5, <2>6, <2>7
  <1>2. CASE EnterFresh(r)
    BY <1>2 DEF EnterFresh, Left, InTurn
  <1>3. CASE Supervisor(r)
    <2>1. runs[r].node = "supervisor" /\ InTurn(r) /\ runs[r].draft = NoDraft
      BY <1>3 DEF Supervisor, InTurn, DraftInv, DraftAt
    <2>2. a = 0 /\ Left(r) = L(13)
      BY <2>1, <1>l DEF NoDraft, Place
    <2>3. ASSUME NEW o, EndTurn(r, o) PROVE Left(r)' < Left(r)
      <3>1. ~InTurn(r)' /\ ckpt'.paused = "none"
        BY <2>3, <1>t, IdleNode DEF EndTurn, InTurn, NoThread
      <3>2. Left(r)' = 0
        BY <3>1 DEF Left
      <3> QED  BY <2>1, <3>2, <1>z
    <2>4. ASSUME NEW d, Goto(r, d, "cancel_bootstrap"), d.attempts = 0 PROVE Left(r)' < Left(r)
      <3>1. Left(r)' = 10 * (MAX_ATTEMPTS - 0) + 12
        BY <2>4, <1>t, GotoLeft DEF Place
      <3> QED  BY <2>2, <3>1, <1>a
    <2>5. \A s : [initialCancelDraftState EXCEPT !.slot = s].attempts = 0
      BY DEF initialCancelDraftState, NoDraft
    <2>6. initialCancelDraftState.attempts = 0
      BY DEF initialCancelDraftState, NoDraft
    <2> QED  BY <1>3, <2>1, <2>3, <2>4, <2>5, <2>6 DEF Supervisor
  <1>g. ASSUME NEW d, NEW n, Goto(r, d, n), n \notin {"idle", "resolve_thread"}, d.attempts = a,
               InTurn(r), Place(n, FALSE, FALSE) < Place(runs[r].node, FALSE, runs[r].reply)
        PROVE  Left(r)' < Left(r)
    <2>1. \A m, w, p : Place(m, w, p) \in Nat
      BY DEF Place
    <2>2. Left(r)' = 10 * (MAX_ATTEMPTS - d.attempts) + Place(n, FALSE, FALSE)
      BY <1>g, <1>t, GotoLeft
    <2>3. Left(r)' = L(Place(n, FALSE, FALSE))
      BY <1>g, <2>2
    <2> HIDE DEF L
    <2> QED  BY <1>b, <1>g, <1>l, <2>1, <2>3
  <1>e. ASSUME NEW o, Goto(r, Failed(runs[r].draft, o), "subgraph_finalize"), InTurn(r),
               runs[r].node # "subgraph_finalize"
        PROVE  Left(r)' < Left(r)
    <2>1. Failed(runs[r].draft, o).attempts = a
      BY <1>a, Counted
    <2>2. Place("subgraph_finalize", FALSE, FALSE) < Place(runs[r].node, FALSE, runs[r].reply)
      BY <1>e DEF Place
    <2>3. "subgraph_finalize" \notin {"idle", "resolve_thread"}
      OBVIOUS
    <2> HIDE DEF a
    <2> QED  BY <1>e, <1>g, <2>1, <2>2, <2>3, Zenon
  <1>4. CASE CancelBootstrap(r)
    <2>1. PICK d \in Bootstrapped(runs[r].draft, runs[r].upcomings) : Goto(r, d, RouteAfterBootstrap(d))
      BY <1>4 DEF CancelBootstrap
    <2>2. d.attempts = a /\ InTurn(r) /\ runs[r].node = "cancel_bootstrap"
      BY <1>4, <1>a, Counted DEF CancelBootstrap, InTurn
    <2>3. RouteAfterBootstrap(d) \in {"subgraph_finalize", "cancel_build_confirm", "cancel_ask_slot"}
      BY DEF RouteAfterBootstrap
    <2>4. Place(RouteAfterBootstrap(d), FALSE, FALSE) < Place(runs[r].node, FALSE, runs[r].reply)
      BY <2>2, <2>3 DEF Place
    <2> QED  BY <2>1, <2>2, <2>3, <2>4, <1>g
  <1>p. ASSUME runs[r].node \in {"cancel_ask_slot", "subgraph_gate"}, runs[r].reply = FALSE,
               Interrupt(r, runs[r].node)
        PROVE  Left(r)' < Left(r)
    <2>1. InTurn(r) /\ Place(runs[r].node, TRUE, FALSE) < Place(runs[r].node, FALSE, runs[r].reply)
      BY <1>p DEF InTurn, Place
    <2>2. Place(runs[r].node, TRUE, FALSE) \in Nat /\ Place(runs[r].node, FALSE, runs[r].reply) \in Nat
      BY DEF Place
    <2> HIDE DEF L
    <2>3. Left(r)' = 0 \/ Left(r)' = L(Place(runs[r].node, TRUE, FALSE))
      BY <1>p, PauseLeft DEF L
    <2> QED  BY <1>b, <1>l, <1>z, <2>1, <2>2, <2>3
  <1>5. CASE CancelAskSlot(r)
    <2>1. runs[r].node = "cancel_ask_slot" /\ InTurn(r) /\ runs[r].reply = FALSE
      BY <1>5, <1>t DEF CancelAskSlot, InTurn, TypeOK, RunStates
    <2> QED  BY <1>5, <1>e, <1>p, <2>1 DEF CancelAskSlot
  <1>6. CASE CancelAskSlotResumed(r)
    <2> DEFINE d == Interpreted(runs[r].draft, runs[r].msg, runs[r].upcomings)
    <2>1. d.attempts = a + 1
      BY <1>a, Counted
    <2>2. runs[r].node = "cancel_ask_slot" /\ InTurn(r) /\ runs[r].reply
      BY <1>6 DEF CancelAskSlotResumed, InTurn
    <2>3. PICK n \in {"cancel_build_confirm", "cancel_ask_slot"} : Goto(r, d, n)
      BY <1>6 DEF CancelAskSlotResumed
    <2> HIDE DEF d
    <2>4. Left(r)' = 10 * (MAX_ATTEMPTS - (a + 1)) + Place(n, FALSE, FALSE)
      BY <1>t, <2>1, <2>3, GotoLeft
    <2>5. Place(n, FALSE, FALSE) \in {7, 11} /\ Place(runs[r].node, FALSE, runs[r].reply) = 5
      BY <2>2 DEF Place
    <2>6. Left(r) = 10 * (MAX_ATTEMPTS - a) + 5
      BY <1>l, <2>2, <2>5
    <2>7. \A b \in Nat, p \in {7, 11} :
             10 * (MAX_ATTEMPTS - (b + 1)) + p < 10 * (MAX_ATTEMPTS - b) + 5
      BY <1>a
    <2> HIDE DEF a
    <2> QED  BY <1>a, <2>4, <2>5, <2>6, <2>7
  <1>7. CASE CancelBuildConfirm(r)
    <2>1. ASSUME NEW c PROVE [runs[r].draft EXCEPT !.confirmation = c,
                                                   !.phase = "awaiting_confirmation"].attempts = a
      BY <1>a DEF Drafts
    <2>2. PICK d : Goto(r, d, "subgraph_gate") /\ d.attempts = a
      BY <1>7, <2>1 DEF CancelBuildConfirm
    <2>3. InTurn(r) /\ Place("subgraph_gate", FALSE, FALSE) < Place(runs[r].node, FALSE, runs[r].reply)
      BY <1>7 DEF CancelBuildConfirm, InTurn, Place
    <2> QED  BY <2>2, <2>3, <1>g
  <1>8. CASE CancelGate(r)
    <2>1. runs[r].node = "subgraph_gate" /\ InTurn(r) /\ runs[r].reply = FALSE
      BY <1>8, <1>t DEF CancelGate, InTurn, TypeOK, RunStates
    <2> QED  BY <1>8, <1>e, <1>p, <2>1 DEF CancelGate
  <1>9. CASE CancelGateResumed(r)
    <2>1. runs[r].node = "subgraph_gate" /\ InTurn(r) /\ runs[r].reply
      BY <1>9 DEF CancelGateResumed, InTurn
    <2>2. /\ [runs[r].draft EXCEPT !.phase = "committing"].attempts = a
          /\ [runs[r].draft EXCEPT !.confirmation = Unconfirmed, !.phase = "collecting"].attempts = a
      BY <1>a DEF Drafts
    <2>3. PICK n \in {"cancel_commit", "cancel_ask_slot"} : \E d : Goto(r, d, n) /\ d.attempts = a
      BY <1>9, <2>2 DEF CancelGateResumed
    <2>4. Place(n, FALSE, FALSE) < Place(runs[r].node, FALSE, runs[r].reply)
      BY <2>1, <2>3 DEF Place
    <2> QED  BY <2>1, <2>3, <2>4, <1>g
  <1>10. CASE CancelCommit(r)
    <2>1. runs[r].node = "cancel_commit" /\ InTurn(r)
      BY <1>10 DEF CancelCommit, InTurn
    <2>2. CASE runs' = [runs EXCEPT ![r].node = "guacuco"]
      <3>1. runs'[r].node = "guacuco" /\ runs'[r].draft = runs[r].draft /\ InTurn(r)'
        BY <2>2, <1>t DEF TypeOK, RunStates, InTurn
      <3>2. Left(r)' = L(3)
        BY <3>1 DEF Left, Place
      <3>3. Left(r) = L(4)
        BY <2>1, <1>l DEF Place
      <3> HIDE DEF L
      <3> QED  BY <3>2, <3>3, <1>b
    <2>3. CASE Goto(r, Failed(runs[r].draft, "error"), "subgraph_finalize")
      BY <2>1, <2>3, <1>e
    <2> QED  BY <1>10, <2>2, <2>3 DEF CancelCommit
  <1>11. CASE CancelCommitAnswered(r)
    <2>1. runs[r].node = "guacuco" /\ InTurn(r)
      BY <1>11 DEF CancelCommitAnswered, InTurn
    <2>2. PICK n \in {"cancel_success", "subgraph_finalize"} :
            \E answer : Goto(r, Committed(runs[r].draft, answer), n)
      BY <1>11 DEF CancelCommitAnswered
    <2>3. \A answer : Committed(runs[r].draft, answer).attempts = a
      BY <1>a, Counted
    <2>4. Place(n, FALSE, FALSE) < Place(runs[r].node, FALSE, runs[r].reply)
      BY <2>1, <2>2 DEF Place
    <2> QED  BY <2>1, <2>2, <2>3, <2>4, <1>g
  <1>12. CASE CancelSuccess(r)
    <2>1. runs[r].node = "cancel_success" /\ InTurn(r)
      BY <1>12 DEF CancelSuccess, InTurn
    <2>2. \A o : [runs[r].draft EXCEPT !.terminalOutcome = o].attempts = a
      BY <1>a DEF Drafts
    <2>3. PICK d : Goto(r, d, "subgraph_finalize") /\ d.attempts = a
      BY <1>12, <2>2 DEF CancelSuccess
    <2>4. Place("subgraph_finalize", FALSE, FALSE) < Place(runs[r].node, FALSE, runs[r].reply)
      BY <2>1 DEF Place
    <2> QED  BY <2>1, <2>3, <2>4, <1>g
  <1>13. CASE Finalize(r)
    <2>1. ~InTurn(r)' /\ ckpt'.paused = "none" /\ InTurn(r)
      BY <1>13, <1>t, IdleNode DEF Finalize, InTurn, NoThread
    <2>2. Left(r)' = 0
      BY <2>1 DEF Left
    <2> QED  BY <2>1, <2>2, <1>z
  <1> QED  BY <1>1, <1>2, <1>3, <1>4, <1>5, <1>6, <1>7, <1>8, <1>9, <1>10, <1>11, <1>12, <1>13
           DEF RunStep

\* With one turn at a time, and none that died: nothing but a new flow ever adds to what is left,
\* every step a turn takes takes from it, and a flow has at most ten steps for each attempt and
\* thirteen more: the bot cannot be made to ask for ever, whatever MAX_ATTEMPTS.
THEOREM FlowsShrink ==
    OneTurn /\ Spec => FlowShrinks /\ [](\A r \in Runs : Left(r) \in 0..(10 * MAX_ATTEMPTS + 13))
  <1>1. Init => AttemptsInv
    BY ConstantsOK DEF Init, AttemptsInv, Idle, NoThread, NoDraft, ConstantsOK
  <1>2. OneTurn => OneTurn'
    BY DEF OneTurn
  <1>3. OneTurn /\ IInv /\ SerialInv /\ AttemptsInv /\ [Next]_vars =>
          [faults' = 0 => \A r \in Runs : Left(r) # 0 =>
             IF RunStep(r) THEN Left(r)' < Left(r) ELSE Left(r)' \in {0, Left(r)}]_vars
    <2> SUFFICES ASSUME OneTurn, IInv, SerialInv, AttemptsInv, Next, faults' = 0,
                        NEW r \in Runs, Left(r) # 0
                 PROVE  IF RunStep(r) THEN Left(r)' < Left(r) ELSE Left(r)' \in {0, Left(r)}
      OBVIOUS
    <2>t. TypeOK
      BY DEF IInv
    <2>f. faults = 0 /\ ~(\E q \in Runs : EnterBlind(q) \/ Crash(q))
      BY <2>t, FaultsGrow DEF EnterBlind, Crash, TypeOK
    <2>d. DraftInv
      BY <2>f DEF SerialInv
    <2>1. ASSUME RunStep(r) PROVE Left(r)' < Left(r)
      BY <2>1, <2>d, ConstantsOK, FlowStep
    <2>2. ASSUME Arrive(r) PROVE Left(r)' = Left(r) /\ ~RunStep(r)
      <3>1. ~InTurn(r) /\ ~InTurn(r)' /\ ckpt' = ckpt /\ runs[r].node = "idle"
        BY <2>2, <2>t DEF Arrive, TypeOK, Idle, InTurn
      <3>2. ~RunStep(r)
        BY <3>1 DEF RunStep, Resume, EnterFresh, Supervisor, CancelBootstrap, CancelAskSlot,
           CancelAskSlotResumed, CancelBuildConfirm, CancelGate, CancelGateResumed, CancelCommit,
           CancelCommitAnswered, CancelSuccess, Finalize
      <3> QED  BY <3>1, <3>2 DEF Left
    <2>3. ASSUME Expire PROVE Left(r)' \in {0, Left(r)}
      <3>1. runs' = runs /\ ckpt'.paused = "none"
        BY <2>3 DEF Expire, NoThread
      <3> QED  BY <3>1 DEF Left, InTurn
    <2>4. ASSUME UNCHANGED <<runs, ckpt>> PROVE Left(r)' = Left(r)
      BY <2>4 DEF Left, InTurn
    <2>5. /\ \A k \in Keys : GuacucoExecute(k) \/ GuacucoForget(k) => UNCHANGED <<runs, ckpt>>
          /\ CancelledElsewhere => UNCHANGED <<runs, ckpt>>
      BY DEF GuacucoExecute, GuacucoForget, CancelledElsewhere
    <2>6. \/ RunStep(r) \/ Arrive(r) \/ Expire \/ CancelledElsewhere
          \/ \E k \in Keys : GuacucoExecute(k) \/ GuacucoForget(k)
      BY <2>f DEF Next, OneTurn
    <2> QED  BY <2>1, <2>2, <2>3, <2>4, <2>5, <2>6
  <1>4. IInv /\ AttemptsInv => \A r \in Runs : Left(r) \in 0..(10 * MAX_ATTEMPTS + 13)
    BY ConstantsOK, LeftNat DEF IInv
  <1>5. IInv /\ AttemptsInv /\ [Next]_vars => AttemptsInv'
    BY ConstantsOK, AttemptsStep
  <1> QED  BY <1>1, <1>2, <1>3, <1>4, <1>5, SerialInvariant, PTL DEF Spec, FlowShrinks

=============================================================================
