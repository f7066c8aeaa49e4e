--------------------------- MODULE ScheduleProofs ---------------------------
(***************************************************************************)
(* Theorems about Schedule, for every catalog, agenda, role, set of        *)
(* intentUuids and bound: types, the tap behind every commit, the single   *)
(* retry, no silence; and, for what no dead turn left behind, the card     *)
(* behind every request, the slot behind every card, one booking at most,  *)
(* and the booking behind every success.  The invariants come in layers,   *)
(* each proved on top of the ones before.                                  *)
(***************************************************************************)
EXTENDS Schedule, SequenceTheorems, TLAPS

-----------------------------------------------------------------------------
(* Types.                                                                  *)

Nodes == {"idle", "supervisor", "schedule_entry", "schedule_resolve", "schedule_ask_slot",
          "schedule_validate", "schedule_present", "schedule_build_confirm", "subgraph_gate",
          "schedule_commit", "guacuco", "schedule_success", "subgraph_finalize"}
Pauses == {"none", "schedule_ask_slot", "schedule_present", "subgraph_gate"}
Results  == {"none", "ok", "STAFF_NOT_AVAILABLE", "BUSINESS_MISMATCH", "OTHER"}
Replies  == Results \cup {"net", "IDEMPOTENT_REQUEST_IN_PROGRESS"}
IdemRows == [status : {"none", "in_progress", "done"}, result : Results]

\* A slot guessed or resolved has a value.
Firm(S)    == {slot \in SlotOf(S) : slot.status # "empty" => slot.value \in S}
FirmDrafts == {d \in Drafts : /\ d.staff \in Firm(Staff) /\ d.date \in Firm(Dates)
                              /\ d.time \in Firm(Times) /\ d.client \in Firm(Clients)}

\* What a request needs, as checkCompleteness asks for it.
Complete(d) == SummaryReady(d) /\ (profileType = "staff" => Has(d.client))

\* Where a request was sent.
Sending == {"guacuco", "schedule_success"}
Others  == Nodes \ Sending

\* What TypeOK leaves unsaid; a request is only made of slots with a value.
Types ==
    /\ TypeOK
    /\ draft \in FirmDrafts
    /\ profileType \in {"client", "staff"} /\ catalog \in [Services -> SUBSET Staff]
    /\ idem \in [Keys -> IdemRows] /\ refused \in Nat
    /\ booked \in Seq(Requests \cup {NoRequest})
    /\ node \in Sending => draft.key \in Keys /\ Complete(draft)

\* The part of the draft that only the gate and the commit change.
Kin(d, e) == /\ e \in FirmDrafts /\ e.key = d.key /\ e.retried = d.retried
             /\ e.terminalOutcome = d.terminalOutcome

\* The slots, which only their own nodes change.
Same(d, e) == /\ e.services = d.services /\ e.staff = d.staff /\ e.date = d.date
              /\ e.time = d.time /\ e.client = d.client

LEMMA NoDraftType == NoDraft \in FirmDrafts
  <1>1. NoOutcome \in [action : Actions, names : Requests \cup {NoRequest}]
    BY DEF NoOutcome, Outcome, Actions
  <1>2. <<>> \in Seq(Dates \X Times)
    OBVIOUS
  <1>3. \A S : Empty \in SlotOf(S) /\ Empty \in Firm(S)
    BY DEF Empty, Unfilled, SlotOf, Statuses, Firm
  <1>4. Unfilled({}) \in Lists
    BY DEF Unfilled, Lists, Statuses
  <1> QED  BY <1>1, <1>2, <1>3, <1>4 DEF NoDraft, Drafts, Phases, FirmDrafts

LEMMA InitialType == Kin(NoDraft, initialAppointmentDraftState)
                     /\ initialAppointmentDraftState.phase = "resolving_entities"
  BY NoDraftType DEF initialAppointmentDraftState, FirmDrafts, Drafts, Phases, Kin

LEMMA SlotType ==
    ASSUME NEW S
    PROVE  /\ Empty \in Firm(S)
           /\ \A v \in S : Resolved(v) \in Firm(S)
           /\ \A v \in S \cup {None} : Parsed(v) \in Firm(S) /\ Guessed(v, None) \in Firm(S)
           /\ \A slot \in Firm(S), v \in S \cup {None} : MergeUserPhrase(slot, v, None) \in Firm(S)
           /\ \A slot \in Firm(S), v \in S \cup {None} : Said(slot, v) \in Firm(S)
           /\ \A slot \in Firm(S) : Matched(slot) \in Firm(S)
  BY DEF Resolved, Parsed, Empty, Unfilled, Guessed, MergeUserPhrase, Matched, Said, SlotOf, Statuses,
         Firm

LEMMA ListType ==
    /\ \A v \in SUBSET Services : Resolved(v) \in Lists /\ Guessed(v, {}) \in Lists
    /\ \A slot \in Lists, v \in SUBSET Services : MergeUserPhrase(slot, v, {}) \in Lists
    /\ \A slot \in Lists : Matched(slot) \in Lists
  BY DEF Resolved, Unfilled, Guessed, MergeUserPhrase, Matched, Lists, Statuses

LEMMA CatalogType ==
    ASSUME Types
    PROVE  Offered \subseteq Services /\ AllStaff \subseteq Staff
  BY DEF Types, Offered, AllStaff

LEMMA DraftFields ==
    ASSUME NEW d \in FirmDrafts
    PROVE  /\ d.services \in Lists /\ d.staff \in Firm(Staff) /\ d.date \in Firm(Dates)
           /\ d.time \in Firm(Times) /\ d.client \in Firm(Clients)
           /\ d.proposed \in Seq(Dates \X Times) /\ d.key \in Keys \cup {None}
  BY DEF FirmDrafts, Drafts

LEMMA MissingType ==
    ASSUME NEW d \in FirmDrafts
    PROVE  Missing(d) = None <=> Complete(d)
  BY DEF Missing, Complete, SummaryReady, None

LEMMA RequestType ==
    ASSUME Types, NEW d \in FirmDrafts, SummaryReady(d)
    PROVE  /\ Summary(d) \in Requests
           /\ Complete(d) => Request(d) \in Requests
  <1>1. /\ d.services.value \in SUBSET Services /\ d.staff.value \in Staff
        /\ d.date.value \in Dates /\ d.time.value \in Times
    BY DraftFields DEF Lists, Firm, SummaryReady, Has
  <1>2. Complete(d) /\ profileType # "client" => d.client.value \in Clients
    BY DraftFields DEF Firm, Complete, Has, Types
  <1> DEFINE c == IF profileType = "client" THEN Self ELSE d.client.value
  <1>3. Request(d) = [services |-> d.services.value, staff |-> d.staff.value, date |-> d.date.value,
                      time |-> d.time.value, client |-> c]
    BY DEF Request
  <1>4. Summary(d) = [services |-> d.services.value, staff |-> d.staff.value, date |-> d.date.value,
                      time |-> d.time.value, client |-> None]
    BY <1>3 DEF Summary
  <1>5. Summary(d) \in Requests
    BY <1>1, <1>4 DEF Requests
  <1>6. ASSUME Complete(d) PROVE Request(d) \in Requests
    <2>1. c \in Clients \cup {Self, None}
      BY <1>2, <1>6
    <2> QED  BY <1>1, <1>3, <2>1 DEF Requests
  <1> QED  BY <1>5, <1>6

-----------------------------------------------------------------------------
(* What the nodes make of a draft.                                         *)

LEMMA FailedType ==
    ASSUME NEW d \in FirmDrafts, NEW o \in Actions
    PROVE  /\ Failed(d, o) \in FirmDrafts /\ Same(d, Failed(d, o))
           /\ Failed(d, o).key = d.key /\ Failed(d, o).retried = d.retried
           /\ Failed(d, o).phase = "failed" /\ Failed(d, o).terminalOutcome = Outcome(o, NoRequest)
  <1>1. Outcome(o, NoRequest) \in [action : Actions, names : Requests \cup {NoRequest}]
    BY DEF Outcome
  <1>2. Failed(d, o) \in FirmDrafts
    BY <1>1 DEF Failed, Drafts, Phases, FirmDrafts
  <1>3. /\ Same(d, Failed(d, o)) /\ Failed(d, o).key = d.key /\ Failed(d, o).retried = d.retried
        /\ Failed(d, o).phase = "failed" /\ Failed(d, o).terminalOutcome = Outcome(o, NoRequest)
    BY DEF Failed, Drafts, FirmDrafts, Same
  <1> QED  BY <1>2, <1>3

LEMMA PhaseType ==
    ASSUME NEW d \in FirmDrafts, NEW ph \in Phases
    PROVE  LET e == [d EXCEPT !.phase = ph] IN Kin(d, e) /\ Same(d, e) /\ e.phase = ph
  <1>1. [d EXCEPT !.phase = ph] \in FirmDrafts
    BY DEF Drafts, FirmDrafts
  <1> QED  BY <1>1 DEF Drafts, FirmDrafts, Kin, Same

\* The slot checked, others proposed or none.
Checked(d, p, ph) == [d EXCEPT !.proposed = p, !.phase = ph]

LEMMA ProposedType ==
    ASSUME NEW d \in FirmDrafts, NEW ph \in Phases, NEW p \in Seq(Dates \X Times)
    PROVE  LET e == Checked(d, p, ph) IN
           Kin(d, e) /\ Same(d, e) /\ e.phase = ph /\ e.proposed = p
  <1>1. Checked(d, p, ph) \in FirmDrafts
    BY DEF Checked, Drafts, FirmDrafts
  <1> QED  BY <1>1 DEF Checked, Drafts, FirmDrafts, Kin, Same

LEMMA KeyType ==
    ASSUME NEW d \in FirmDrafts, NEW ph \in Phases, NEW k \in Keys \cup {None}
    PROVE  LET e == [d EXCEPT !.key = k, !.phase = ph] IN
           e \in FirmDrafts /\ Same(d, e) /\ e.key = k /\ e.phase = ph /\ e.retried = d.retried
             /\ e.terminalOutcome = d.terminalOutcome
  <1>1. [d EXCEPT !.key = k, !.phase = ph] \in FirmDrafts
    BY DEF Drafts, FirmDrafts
  <1> QED  BY <1>1 DEF Drafts, FirmDrafts, Same

LEMMA FilledType ==
    ASSUME NEW d \in FirmDrafts, NEW s \in Lists, NEW p \in Firm(Staff), NEW dt \in Firm(Dates),
           NEW t \in Firm(Times), NEW c \in Firm(Clients)
    PROVE  Kin(d, Filled(d, s, p, dt, t, c)) /\ Filled(d, s, p, dt, t, c).phase = d.phase
  <1>1. p \in SlotOf(Staff) /\ dt \in SlotOf(Dates) /\ t \in SlotOf(Times) /\ c \in SlotOf(Clients)
    BY DEF Firm
  <1>2. Filled(d, s, p, dt, t, c) \in FirmDrafts
    BY <1>1 DEF Filled, Drafts, FirmDrafts
  <1> QED  BY <1>2 DEF Filled, Drafts, FirmDrafts, Kin

LEMMA ExtractedType ==
    ASSUME Types, NEW d \in FirmDrafts, NEW e \in Extracted(d)
    PROVE  Kin(d, e) /\ e.phase = d.phase
  <1>1. PICK s \in ServicesNamed(d.services), p \in Named(d.staff, AllStaff),
             dt \in Dated(d.date, Dates), t \in Dated(d.time, Times), c \in ClientNamed(d.client) :
          e = Filled(d, s, p, dt, t, c)
    BY DEF Extracted
  <1>2. s \in Lists
    BY <1>1, DraftFields, CatalogType, ListType DEF ServicesNamed
  <1>3. p \in Firm(Staff)
    BY <1>1, DraftFields, CatalogType, SlotType DEF Named
  <1>4. dt \in Firm(Dates) /\ t \in Firm(Times)
    BY <1>1, DraftFields, SlotType DEF Named, Dated
  <1>5. c \in Firm(Clients)
    BY <1>1, DraftFields, SlotType DEF Named, ClientNamed
  <1> QED  BY <1>1, <1>2, <1>3, <1>4, <1>5, FilledType

LEMMA ResolvedEntitiesType ==
    ASSUME Types, NEW d \in FirmDrafts, NEW e \in ResolvedEntities(d)
    PROVE  Kin(d, e) /\ e.phase = d.phase
  <1>1. PICK p \in ResolveStaff(Matched(d.services), d.staff), c \in ResolveClient(d.client) :
          e = Filled(d, Matched(d.services), p, d.date, d.time, c)
    BY DEF ResolvedEntities
  <1>2. Matched(d.services) \in Lists
    BY DraftFields, ListType
  <1>3. c \in Firm(Clients)
    BY <1>1, DraftFields, SlotType DEF ResolveClient
  <1>4. p \in Firm(Staff)
    <2>1. Inferred(Matched(d.services)) \subseteq Staff
      BY CatalogType DEF Inferred
    <2> QED  BY <1>1, <2>1, DraftFields, SlotType DEF ResolveStaff
  <1> QED  BY <1>1, <1>2, <1>3, <1>4, DraftFields, FilledType

\* One slot replied; the attempt is counted.
LEMMA OneSlot ==
    ASSUME NEW d \in FirmDrafts
    PROVE  /\ \A s \in Lists : Kin(d, [d EXCEPT !.services = s])
           /\ \A s \in Firm(Staff) : Kin(d, [d EXCEPT !.staff = s])
           /\ \A s \in Firm(Clients) : Kin(d, [d EXCEPT !.client = s])
           /\ \A s \in Firm(Dates), t \in Firm(Times) : Kin(d, [d EXCEPT !.date = s, !.time = t])
  <1>1. \A s \in Lists : Kin(d, [d EXCEPT !.services = s])
    BY DEF Kin, Drafts, FirmDrafts
  <1>2. \A s \in Firm(Staff) : Kin(d, [d EXCEPT !.staff = s])
    BY DEF Kin, Drafts, FirmDrafts, Firm
  <1>3. \A s \in Firm(Clients) : Kin(d, [d EXCEPT !.client = s])
    BY DEF Kin, Drafts, FirmDrafts, Firm
  <1>4. \A s \in Firm(Dates), t \in Firm(Times) : Kin(d, [d EXCEPT !.date = s, !.time = t])
    BY DEF Kin, Drafts, FirmDrafts, Firm
  <1> QED  BY <1>1, <1>2, <1>3, <1>4

LEMMA RepliedType ==
    ASSUME Types, NEW d \in FirmDrafts, NEW m, NEW e \in Replied(d, m)
    PROVE  Kin(d, e)
  <1>1. \/ e = d
        \/ e \in RepliedServices(d, m) \/ e \in RepliedStaff(d, m) \/ e \in RepliedDateTime(d, m)
        \/ e \in {[d EXCEPT !.client = Guessed(v, None)] : v \in Clients \cup {None}}
    BY DEF Replied
  <1>2. CASE e = d
    BY <1>2 DEF Kin
  <1>3. CASE e \in RepliedServices(d, m)
    <2>1. PICK s \in Lists : e = [d EXCEPT !.services = s]
      <3>1. CASE m.kind = "service" /\ m.value \in Offered
        <4>1. {m.value} \in SUBSET Services
          BY <3>1, CatalogType
        <4> QED  BY <1>3, <3>1, <4>1, ListType DEF RepliedServices
      <3>2. CASE ~(m.kind = "service" /\ m.value \in Offered)
        BY <1>3, <3>2, CatalogType, ListType DEF RepliedServices
      <3> QED  BY <3>1, <3>2
    <2> QED  BY <2>1, OneSlot
  <1>4. CASE e \in RepliedStaff(d, m)
    <2>1. PICK s \in Firm(Staff) : e = [d EXCEPT !.staff = s]
      <3>1. CASE m.kind = "staff" /\ m.value \in AllStaff
        BY <1>4, <3>1, CatalogType, SlotType DEF RepliedStaff
      <3>2. CASE ~(m.kind = "staff" /\ m.value \in AllStaff)
        BY <1>4, <3>2, CatalogType, SlotType DEF RepliedStaff
      <3> QED  BY <3>1, <3>2
    <2> QED  BY <2>1, OneSlot
  <1>5. CASE e \in RepliedDateTime(d, m)
    <2>1. PICK r \in Readings(m) :
            e = [d EXCEPT !.date = Parsed(r[1]),
                          !.time = IF r[2] = None /\ r[1] # None THEN @ ELSE Parsed(r[2])]
      BY <1>5 DEF RepliedDateTime
    <2>2. r[1] \in Dates \cup {None} /\ r[2] \in Times \cup {None}
      BY DEF Readings
    <2>3. PICK t \in Firm(Times) :
            t = IF r[2] = None /\ r[1] # None THEN d.time ELSE Parsed(r[2])
      BY <2>2, DraftFields, SlotType
    <2>4. e = [d EXCEPT !.date = Parsed(r[1]), !.time = t] /\ Parsed(r[1]) \in Firm(Dates)
      BY <2>1, <2>2, <2>3, SlotType
    <2> QED  BY <2>4, OneSlot
  <1>6. CASE e \in {[d EXCEPT !.client = Guessed(v, None)] : v \in Clients \cup {None}}
    <2>1. PICK s \in Firm(Clients) : e = [d EXCEPT !.client = s]
      BY <1>6, SlotType
    <2> QED  BY <2>1, OneSlot
  <1> QED  BY <1>1, <1>2, <1>3, <1>4, <1>5, <1>6

LEMMA AttemptType ==
    ASSUME NEW d \in FirmDrafts, NEW r, Kin(d, r)
    PROVE  LET e == [r EXCEPT !.phase = "resolving_entities", !.attempts = @ + 1] IN
           Kin(d, e) /\ e.phase = "resolving_entities"
  <1>1. r \in FirmDrafts /\ r.attempts + 1 \in Nat
    BY DEF Kin, Drafts, FirmDrafts
  <1> DEFINE e == [r EXCEPT !.phase = "resolving_entities", !.attempts = @ + 1]
  <1>2. e = [r EXCEPT !.phase = "resolving_entities", !.attempts = r.attempts + 1]
    BY <1>1 DEF Drafts, FirmDrafts
  <1>3. e \in FirmDrafts
    BY <1>1, <1>2 DEF Drafts, FirmDrafts, Phases
  <1>4. e.key = r.key /\ e.retried = r.retried /\ e.terminalOutcome = r.terminalOutcome
        /\ e.phase = "resolving_entities"
    BY <1>1, <1>2 DEF Drafts, FirmDrafts
  <1> QED  BY <1>3, <1>4 DEF Kin

\* Another day and hour, the options forgotten.
Moved(d, x, y, k, ph) ==
    [d EXCEPT !.date = x, !.time = y, !.key = k, !.proposed = <<>>, !.phase = ph]

LEMMA MovedType ==
    ASSUME NEW d \in FirmDrafts, NEW x \in Firm(Dates), NEW y \in Firm(Times),
           NEW k \in Keys \cup {None}, NEW ph \in Phases
    PROVE  LET e == Moved(d, x, y, k, ph) IN
           /\ e \in FirmDrafts /\ e.key = k /\ e.phase = ph /\ e.date = x /\ e.time = y
           /\ e.services = d.services /\ e.staff = d.staff /\ e.retried = d.retried
           /\ e.terminalOutcome = d.terminalOutcome
  <1>1. <<>> \in Seq(Dates \X Times)
    OBVIOUS
  <1>2. x \in SlotOf(Dates) /\ y \in SlotOf(Times)
    BY DEF Firm
  <1>3. Moved(d, x, y, k, ph) \in FirmDrafts
    BY <1>1, <1>2 DEF Moved, Drafts, FirmDrafts
  <1>4. LET e == Moved(d, x, y, k, ph) IN
        /\ e.key = k /\ e.phase = ph /\ e.date = x /\ e.time = y
        /\ e.services = d.services /\ e.staff = d.staff /\ e.retried = d.retried
        /\ e.terminalOutcome = d.terminalOutcome
    BY DEF Moved, Drafts, FirmDrafts
  <1> QED  BY <1>3, <1>4

LEMMA ReadingType ==
    ASSUME NEW m, NEW r \in Readings(m)
    PROVE  r[1] \in Dates \cup {None} /\ r[2] \in Times \cup {None}
  BY DEF Readings

LEMMA PickedType ==
    ASSUME NEW d \in FirmDrafts, NEW m, NEW e \in Picked(d, m)
    PROVE  /\ Kin(d, e)
           /\ \/ /\ e.phase = "awaiting_confirmation"
                 /\ \E i \in DOMAIN d.proposed :
                       /\ e.services = d.services /\ e.staff = d.staff
                       /\ e.date = Resolved(d.proposed[i][1]) /\ e.time = Resolved(d.proposed[i][2])
              \/ e.phase = "collecting"
              \/ e.phase = "awaiting_pick" /\ Same(d, e) /\ e.proposed = d.proposed
  <1>1. CASE m.kind = "slot_pick" /\ m.row \in DOMAIN d.proposed
    <2>1. d.proposed[m.row] \in Dates \X Times
      BY <1>1, DraftFields
    <2>2. /\ Resolved(d.proposed[m.row][1]) \in Firm(Dates)
          /\ Resolved(d.proposed[m.row][2]) \in Firm(Times)
      BY <2>1, SlotType
    <2>3. e = Moved(d, Resolved(d.proposed[m.row][1]), Resolved(d.proposed[m.row][2]), d.key,
                    "awaiting_confirmation")
      BY <1>1 DEF Picked, Moved, Drafts, FirmDrafts
    <2>4. "awaiting_confirmation" \in Phases /\ d.key \in Keys \cup {None}
      BY DraftFields DEF Phases
    <2> QED  BY <1>1, <2>2, <2>3, <2>4, MovedType DEF Kin
  <1>2. CASE m.kind = "media"
    <2>1. e = [d EXCEPT !.phase = "awaiting_pick"] /\ "awaiting_pick" \in Phases
      BY <1>2 DEF Picked, Phases
    <2>2. e.proposed = d.proposed
      BY <2>1 DEF Drafts, FirmDrafts
    <2> QED  BY <2>1, <2>2, PhaseType
  <1>3. CASE ~(m.kind = "slot_pick" /\ m.row \in DOMAIN d.proposed) /\ m.kind # "media"
    <2>1. PICK r \in Readings(m) :
            e = [d EXCEPT !.date = Parsed(r[1]), !.time = IF r[2] = None THEN @ ELSE Resolved(r[2]),
                          !.proposed = <<>>, !.phase = "collecting"]
      BY <1>3 DEF Picked
    <2>2. PICK t \in Firm(Times) : t = IF r[2] = None THEN d.time ELSE Resolved(r[2])
      BY ReadingType, DraftFields, SlotType
    <2>3. e = Moved(d, Parsed(r[1]), t, d.key, "collecting")
      BY <2>1, <2>2 DEF Moved, Drafts, FirmDrafts
    <2>4. "collecting" \in Phases /\ d.key \in Keys \cup {None} /\ Parsed(r[1]) \in Firm(Dates)
      BY ReadingType, DraftFields, SlotType DEF Phases
    <2> QED  BY <2>3, <2>4, MovedType DEF Kin
  <1> QED  BY <1>1, <1>2, <1>3

LEMMA GateRepliedType ==
    ASSUME NEW d \in FirmDrafts, NEW m, NEW e \in GateReplied(d, m)
    PROVE  /\ e \in FirmDrafts /\ e.retried = d.retried /\ e.terminalOutcome = d.terminalOutcome
           /\ \/ m = Msg("confirm", d.key) /\ e.phase = "committing" /\ e.key = d.key /\ Same(d, e)
              \/ e.phase = "collecting" /\ e.key = None
  <1>0. "collecting" \in Phases /\ "committing" \in Phases
    BY DEF Phases
  <1>1. CASE m = Msg("confirm", d.key)
    <2>1. e = [d EXCEPT !.phase = "committing"]
      BY <1>1 DEF GateReplied
    <2> QED  BY <1>0, <1>1, <2>1, PhaseType DEF Kin
  <1>2. CASE m # Msg("confirm", d.key)
    <2> DEFINE dropped == [d EXCEPT !.key = None, !.proposed = <<>>, !.phase = "collecting"]
    <2>1. dropped = Moved(d, d.date, d.time, None, "collecting")
      BY DEF Moved, Drafts, FirmDrafts
    <2>2. /\ dropped.retried = d.retried /\ dropped.terminalOutcome = d.terminalOutcome
          /\ dropped.phase = "collecting" /\ dropped.key = None /\ dropped.proposed = <<>>
          /\ dropped.date = d.date /\ dropped.time = d.time
      BY DEF Drafts, FirmDrafts
    <2>3. Moved(d, d.date, d.time, None, "collecting") \in FirmDrafts
      BY <1>0, DraftFields, MovedType
    <2>4. \/ e = dropped
          \/ \E r \in Readings(m) :
               e = [dropped EXCEPT !.date = Said(@, r[1]), !.time = Said(@, r[2])]
      BY <1>2 DEF GateReplied, Cancelled
    <2> HIDE DEF dropped
    <2>5. CASE e = dropped
      BY <2>1, <2>2, <2>3, <2>5
    <2>6. ASSUME NEW r \in Readings(m),
                 e = [dropped EXCEPT !.date = Said(@, r[1]), !.time = Said(@, r[2])]
          PROVE  /\ e \in FirmDrafts /\ e.retried = d.retried
                 /\ e.terminalOutcome = d.terminalOutcome /\ e.phase = "collecting" /\ e.key = None
      <3>1. Said(d.date, r[1]) \in Firm(Dates) /\ Said(d.time, r[2]) \in Firm(Times)
        BY ReadingType, DraftFields, SlotType
      <3>2. e = [dropped EXCEPT !.date = Said(d.date, r[1]), !.time = Said(d.time, r[2])]
        BY <2>1, <2>2, <2>3, <2>6 DEF Drafts, FirmDrafts
      <3>3. Kin(dropped, e)
        BY <2>1, <2>3, <3>1, <3>2, OneSlot
      <3>4. e.phase = dropped.phase
        BY <2>1, <2>3, <3>2 DEF Drafts, FirmDrafts
      <3> QED  BY <2>2, <3>3, <3>4 DEF Kin
    <2> QED  BY <2>4, <2>5, <2>6
  <1> QED  BY <1>1, <1>2

LEMMA CommittedType ==
    ASSUME NEW d \in FirmDrafts, NEW answer
    PROVE  LET e == Committed(d, answer) IN
           /\ e \in FirmDrafts /\ Same(d, e)
           /\ \/ answer = "ok" /\ Kin(d, e) /\ e.phase = "done"
              \/ /\ answer = "STAFF_NOT_AVAILABLE" /\ ~d.retried
                 /\ e.key = None /\ e.retried = TRUE /\ e.phase = "validating_availability"
                 /\ e.terminalOutcome = d.terminalOutcome
              \/ /\ answer # "ok" /\ (answer = "STAFF_NOT_AVAILABLE" => d.retried)
                 /\ e.key = d.key /\ e.retried = d.retried /\ e.phase = "failed"
                 /\ \E o \in {"error", "handed_off"} : e.terminalOutcome = Outcome(o, NoRequest)
  <1> DEFINE e == Committed(d, answer)
  <1>1. CASE answer = "ok"
    <2>1. e = [d EXCEPT !.phase = "done"] /\ "done" \in Phases
      BY <1>1 DEF Committed, Phases
    <2>2. Kin(d, e) /\ Same(d, e) /\ e.phase = "done"
      BY <2>1, PhaseType
    <2> HIDE DEF e
    <2> QED  BY <1>1, <2>2 DEF Kin, e
  <1>2. CASE answer = "STAFF_NOT_AVAILABLE" /\ ~d.retried
    <2>1. e = [d EXCEPT !.proposed = <<>>, !.key = None, !.retried = TRUE,
                        !.phase = "validating_availability"]
      BY <1>2 DEF Committed
    <2>2. <<>> \in Seq(Dates \X Times)
      OBVIOUS
    <2>3. e \in FirmDrafts
      BY <2>1, <2>2 DEF Drafts, FirmDrafts, Phases
    <2>4. /\ Same(d, e) /\ e.key = None /\ e.retried = TRUE
          /\ e.phase = "validating_availability" /\ e.terminalOutcome = d.terminalOutcome
      BY <2>1 DEF Drafts, FirmDrafts, Same
    <2> HIDE DEF e
    <2> QED  BY <1>2, <2>3, <2>4 DEF e
  <1>3. CASE answer # "ok" /\ (answer = "STAFF_NOT_AVAILABLE" => d.retried)
    <2>1. PICK o \in {"error", "handed_off"} : e = Failed(d, o)
      BY <1>3 DEF Committed
    <2>2. o \in Actions
      BY DEF Actions
    <2> HIDE DEF e
    <2> QED  BY <1>3, <2>1, <2>2, FailedType DEF e
  <1> QED  BY <1>1, <1>2, <1>3

LEMMA ProposalsType ==
    ASSUME NEW d, NEW p \in Proposals(d)
    PROVE  p \in Seq(Dates \X Times)
  <1> DEFINE open == {q \in Dates \X Times : Available(d.services.value, <<d.staff.value, q[1], q[2]>>)}
  <1>1. PICK n \in 0..MaxOptions : p \in [1..n -> open]
    BY DEF Proposals
  <1>2. n \in Nat /\ open \subseteq Dates \X Times
    BY ConstantsOK DEF ConstantsOK
  <1> HIDE DEF open
  <1>3. p \in Seq(open)
    BY <1>1, <1>2
  <1> QED  BY <1>2, <1>3

-----------------------------------------------------------------------------
(* Types is inductive.                                                     *)

\* A node that only returns a draft and leads on.
LEMMA GotoTypes ==
    ASSUME Types, NEW d \in FirmDrafts, NEW n \in Others, Goto(d, n),
           UNCHANGED <<identity, guacuco, cards, asked, mine, booked, dangling>>, refused' \in Nat
    PROVE  Types'
  <1>1. draft' \in FirmDrafts /\ draft' \in Drafts
    BY DEF Goto, FirmDrafts
  <1>2. node' = n /\ n \in Nodes /\ n \notin Sending /\ resumed' = FALSE /\ paused' = "none"
    BY DEF Goto, Others
  <1> QED  BY <1>1, <1>2 DEF Types, TypeOK, Nodes, identity, guacuco

\* A turn that ends without touching the draft.
LEMMA EndTypes ==
    ASSUME Types, NEW o, EndTurn(o), UNCHANGED <<draft, identity, guacuco, cards, asked, refused,
           mine, booked>>, paused' \in Pauses, dangling' \subseteq Keys
    PROVE  Types'
  BY DEF Types, TypeOK, EndTurn, Pauses, Sending, identity, guacuco

LEMMA InitTypes == Init => Types
  <1> SUFFICES ASSUME Init PROVE Types
    OBVIOUS
  <1>1. draft \in FirmDrafts /\ draft \in Drafts
    BY NoDraftType DEF Init, FirmDrafts
  <1>2. idem \in [Keys -> IdemRows] /\ booked \in Seq(Requests \cup {NoRequest})
    BY DEF Init, NoRow, IdemRows, Results
  <1>3. free \subseteq Places
    BY ConstantsOK DEF Init, Places, ConstantsOK
  <1> QED  BY <1>1, <1>2, <1>3 DEF Init, Types, TypeOK, Sending

LEMMA ArriveTypes == Types /\ Arrive => Types'
  <1> SUFFICES ASSUME Types, Arrive PROVE Types'
    OBVIOUS
  <1>1. node' \in Others /\ resumed' \in BOOLEAN
    BY DEF Arrive, Types, TypeOK, Others, Nodes, Sending
  <1>2. UNCHANGED <<draft, paused, profileType, catalog, idem, free, cards, asked, refused, mine,
                    booked, dangling>>
    BY DEF Arrive, thread, identity, guacuco, history, flow
  <1> QED  BY <1>1, <1>2 DEF Types, TypeOK, Others, Nodes

LEMMA SupervisorTypes == Types /\ Supervisor => Types'
  <1> SUFFICES ASSUME Types, Supervisor PROVE Types'
    OBVIOUS
  <1>1. draft \in FirmDrafts /\ initialAppointmentDraftState \in FirmDrafts
    BY InitialType DEF Types, Kin
  <1>2. UNCHANGED <<identity, guacuco, cards, asked, refused, mine, booked, withdrawn, dangling>>
        /\ refused' \in Nat /\ "schedule_entry" \in Others
    BY DEF Supervisor, history, flow, Types, Others, Nodes, Sending
  <1>3. CASE Goto(draft, "schedule_entry")
    BY <1>1, <1>2, <1>3, GotoTypes
  <1>4. CASE Goto(initialAppointmentDraftState, "schedule_entry")
    BY <1>1, <1>2, <1>4, GotoTypes
  <1>5. CASE EndTurn(Outcome("other", NoRequest)) /\ UNCHANGED thread
    <2>1. UNCHANGED draft /\ paused' \in Pauses /\ dangling' \subseteq Keys
      BY <1>2, <1>5 DEF thread, Types, TypeOK, Pauses
    <2> QED  BY <1>2, <1>5, <2>1, EndTypes
  <1> QED  BY <1>3, <1>4, <1>5 DEF Supervisor

LEMMA CollectTypes ==
    Types /\ (ScheduleEntry \/ ScheduleResolve \/ ScheduleAskSlot \/ ScheduleAskSlotResumed) => Types'
  <1> SUFFICES ASSUME Types,
                      ScheduleEntry \/ ScheduleResolve \/ ScheduleAskSlot \/ ScheduleAskSlotResumed
               PROVE  Types'
    OBVIOUS
  <1>1. draft \in FirmDrafts
    BY DEF Types
  <1>2. UNCHANGED <<identity, guacuco, cards, asked, refused, mine, booked, withdrawn, dangling>>
        /\ refused' \in Nat /\ dangling' \subseteq Keys
    BY DEF ScheduleEntry, ScheduleResolve, ScheduleAskSlot, ScheduleAskSlotResumed, history, flow,
           Types, TypeOK
  <1>3. {"schedule_resolve", "schedule_validate", "schedule_ask_slot", "subgraph_finalize"}
          \subseteq Others
    BY DEF Others, Nodes, Sending
  <1>4. \A d : RouteAfterResolve(d) \in Others /\ RouteAfterAskSlot(d) \in Others
    BY <1>3 DEF RouteAfterResolve, RouteAfterAskSlot
  <1>5. CASE ScheduleEntry
    <2>1. PICK d : (d = draft \/ d \in Extracted(draft)) /\ Goto(d, "schedule_resolve")
      BY <1>5 DEF ScheduleEntry
    <2>2. d \in FirmDrafts
      BY <1>1, <2>1, ExtractedType DEF Kin
    <2> QED  BY <1>2, <1>3, <2>1, <2>2, GotoTypes
  <1>6. CASE ScheduleResolve
    <2>1. PICK d : /\ d = Failed(draft, "no_services") \/ d \in ResolvedEntities(draft)
                   /\ Goto(d, RouteAfterResolve(d))
      BY <1>6 DEF ScheduleResolve
    <2>2. d \in FirmDrafts
      BY <1>1, <2>1, FailedType, ResolvedEntitiesType DEF Kin, Actions
    <2> QED  BY <1>2, <1>4, <2>1, <2>2, GotoTypes
  <1>7. CASE ScheduleAskSlot
    <2>1. CASE Goto([draft EXCEPT !.phase = "validating_availability"], "schedule_resolve")
      <3>1. [draft EXCEPT !.phase = "validating_availability"] \in FirmDrafts
        BY <1>1, PhaseType DEF Kin, Phases
      <3> QED  BY <1>2, <1>3, <2>1, <3>1, GotoTypes
    <2>2. CASE Goto(Failed(draft, "handed_off"), "subgraph_finalize")
      BY <1>1, <1>2, <1>3, <2>2, FailedType, GotoTypes DEF Actions
    <2>3. CASE Interrupt("schedule_ask_slot", Outcome("asked", NoRequest))
      BY <1>2, <2>3, EndTypes DEF Interrupt, Pauses
    <2> QED  BY <1>7, <2>1, <2>2, <2>3 DEF ScheduleAskSlot
  <1>8. CASE ScheduleAskSlotResumed
    <2>1. PICK r \in Replied(draft, msg) :
            LET d == [r EXCEPT !.phase = "resolving_entities", !.attempts = @ + 1] IN
            Goto(d, RouteAfterAskSlot(d))
      BY <1>8 DEF ScheduleAskSlotResumed
    <2> DEFINE d == [r EXCEPT !.phase = "resolving_entities", !.attempts = @ + 1]
    <2>2. d \in FirmDrafts
      BY <1>1, RepliedType, AttemptType DEF Kin
    <2>3. Goto(d, RouteAfterAskSlot(d))
      BY <2>1
    <2> HIDE DEF d
    <2> QED  BY <1>2, <1>4, <2>2, <2>3, GotoTypes
  <1> QED  BY <1>5, <1>6, <1>7, <1>8

LEMMA ValidateTypes ==
    Types /\ (ScheduleValidate \/ SchedulePresent \/ SchedulePresentResumed) => Types'
  <1> SUFFICES ASSUME Types, ScheduleValidate \/ SchedulePresent \/ SchedulePresentResumed
               PROVE  Types'
    OBVIOUS
  <1>1. draft \in FirmDrafts
    BY DEF Types
  <1>2. UNCHANGED <<identity, guacuco, cards, asked, refused, mine, booked, withdrawn, dangling>>
        /\ refused' \in Nat /\ dangling' \subseteq Keys
    BY DEF ScheduleValidate, SchedulePresent, SchedulePresentResumed, history, flow, Types, TypeOK
  <1>3. \A d : RouteAfterValidate(d) \in Others /\ RouteAfterPresent(d) \in Others
    BY DEF RouteAfterValidate, RouteAfterPresent, Others, Nodes, Sending
  <1>4. CASE ScheduleValidate
    <2>1. \/ Goto([draft EXCEPT !.phase = "collecting"],
                  RouteAfterValidate([draft EXCEPT !.phase = "collecting"]))
          \/ Goto(Failed(draft, "error"), RouteAfterValidate(Failed(draft, "error")))
          \/ \E p \in Proposals(draft) \cup {<<>>}, ph \in {"awaiting_confirmation", "awaiting_pick"} :
               Goto(Checked(draft, p, ph), RouteAfterValidate(Checked(draft, p, ph)))
      BY <1>4 DEF ScheduleValidate, Checked
    <2>2. [draft EXCEPT !.phase = "collecting"] \in FirmDrafts
      BY <1>1, PhaseType DEF Kin, Phases
    <2>3. Failed(draft, "error") \in FirmDrafts
      BY <1>1, FailedType DEF Actions
    <2>4. ASSUME NEW p \in Proposals(draft) \cup {<<>>},
                 NEW ph \in {"awaiting_confirmation", "awaiting_pick"}
          PROVE  Checked(draft, p, ph) \in FirmDrafts
      <3>0. <<>> \in Seq(Dates \X Times)
        OBVIOUS
      <3>1. p \in Seq(Dates \X Times) /\ ph \in Phases
        BY <3>0, ProposalsType DEF Phases
      <3> QED  BY <1>1, <3>1, ProposedType DEF Kin
    <2> QED  BY <1>2, <1>3, <2>1, <2>2, <2>3, <2>4, GotoTypes
  <1>5. CASE SchedulePresent
    <2>1. CASE Goto(Failed(draft, "handed_off"), "subgraph_finalize")
      BY <1>1, <1>2, <2>1, FailedType, GotoTypes DEF Actions, Others, Nodes, Sending
    <2>2. CASE Interrupt("schedule_present", Outcome("proposed", NoRequest))
      BY <1>2, <2>2, EndTypes DEF Interrupt, Pauses
    <2> QED  BY <1>5, <2>1, <2>2 DEF SchedulePresent
  <1>6. CASE SchedulePresentResumed
    BY <1>1, <1>2, <1>3, <1>6, PickedType, GotoTypes DEF SchedulePresentResumed, Kin
  <1> QED  BY <1>4, <1>5, <1>6

LEMMA GateTypes ==
    Types /\ (ScheduleBuildConfirm \/ ScheduleGate \/ ScheduleGateResumed) => Types'
  <1> SUFFICES ASSUME Types, ScheduleBuildConfirm \/ ScheduleGate \/ ScheduleGateResumed
               PROVE  Types'
    OBVIOUS
  <1>1. draft \in FirmDrafts
    BY DEF Types
  <1>2. {"subgraph_finalize", "subgraph_gate", "schedule_commit", "schedule_resolve"} \subseteq Others
    BY DEF Others, Nodes, Sending
  <1>3. CASE ScheduleBuildConfirm /\ draft.key = None /\ SummaryReady(draft)
    <2>1. PICK k \in Keys :
            /\ Goto([draft EXCEPT !.key = k, !.phase = "awaiting_confirmation"], "subgraph_gate")
            /\ cards' = [cards EXCEPT ![k] = Summary(draft)]
            /\ asked' = [asked EXCEPT ![k] = NoRequest]
            /\ idem' = [idem EXCEPT ![k] = NoRow]
            /\ mine' = mine \ {k}
      BY <1>3 DEF ScheduleBuildConfirm
    <2>2. UNCHANGED <<profileType, catalog, free, refused, booked, dangling>>
      BY <1>3 DEF ScheduleBuildConfirm, identity
    <2>3. draft' \in FirmDrafts /\ draft' \in Drafts
      <3>1. [draft EXCEPT !.key = k, !.phase = "awaiting_confirmation"] \in FirmDrafts
        BY <1>1, KeyType DEF Phases
      <3> QED  BY <2>1, <3>1 DEF Goto, FirmDrafts
    <2>4. NoRow \in IdemRows /\ Summary(draft) \in Requests
      BY <1>1, <1>3, RequestType DEF NoRow, IdemRows, Results
    <2>5. idem' \in [Keys -> IdemRows] /\ cards' \in [Keys -> Requests \cup {NoRequest}]
          /\ asked' \in [Keys -> Requests \cup {NoRequest}]
      BY <2>1, <2>4 DEF Types, TypeOK
    <2>6. node' = "subgraph_gate" /\ resumed' = FALSE /\ paused' = "none" /\ mine' \subseteq Keys
      BY <2>1 DEF Goto, Types, TypeOK
    <2> QED  BY <2>2, <2>3, <2>5, <2>6 DEF Types, TypeOK, Sending
  <1>4. CASE ScheduleBuildConfirm /\ ~(draft.key = None /\ SummaryReady(draft))
    <2>1. Goto(draft, "subgraph_gate")
          /\ UNCHANGED <<identity, guacuco, cards, asked, refused, mine, booked, dangling>>
      BY <1>4 DEF ScheduleBuildConfirm, guacuco
    <2> QED  BY <1>1, <1>2, <2>1, GotoTypes DEF Types
  <1>5. ASSUME ScheduleGate \/ ScheduleGateResumed
        PROVE  UNCHANGED <<identity, guacuco, cards, asked, refused, mine, booked, dangling>>
               /\ refused' \in Nat /\ dangling' \subseteq Keys
    BY <1>5 DEF ScheduleGate, ScheduleGateResumed, history, flow, Types, TypeOK
  <1>6. CASE ScheduleGate
    <2>1. CASE Goto(Failed(draft, "error"), "subgraph_finalize")
      BY <1>1, <1>2, <1>5, <1>6, <2>1, FailedType, GotoTypes DEF Actions
    <2>2. CASE Interrupt("subgraph_gate", Outcome("gated", cards[draft.key]))
      BY <1>5, <1>6, <2>2, EndTypes DEF Interrupt, Pauses
    <2> QED  BY <1>6, <2>1, <2>2 DEF ScheduleGate
  <1>7. CASE ScheduleGateResumed
    <2>1. PICK d \in GateReplied(draft, msg) : Goto(d, RouteAfterGate(d))
      BY <1>7 DEF ScheduleGateResumed
    <2>2. d \in FirmDrafts /\ RouteAfterGate(d) \in Others
      BY <1>1, <1>2, GateRepliedType DEF RouteAfterGate
    <2> QED  BY <1>5, <1>7, <2>1, <2>2, GotoTypes
  <1> QED  BY <1>3, <1>4, <1>6, <1>7

LEMMA CompleteKept ==
    ASSUME NEW d, NEW e, Same(d, e)
    PROVE  /\ Complete(d) <=> Complete(e)
           /\ Request(e) = Request(d) /\ Summary(e) = Summary(d)
           /\ SummaryReady(e) <=> SummaryReady(d)
  BY DEF Same, Complete, SummaryReady, Request, Summary

LEMMA CommitTypes == Types /\ ScheduleCommit => Types'
  <1> SUFFICES ASSUME Types, ScheduleCommit PROVE Types'
    OBVIOUS
  <1>1. draft \in FirmDrafts
    BY DEF Types
  <1>2. CASE \E o \in Actions : Goto(Failed(draft, o), "subgraph_finalize") /\ UNCHANGED <<asked, idem, mine>>
    <2>1. UNCHANGED <<identity, guacuco, cards, asked, refused, mine, booked, withdrawn, dangling>>
      BY <1>2 DEF ScheduleCommit, guacuco
    <2> QED  BY <1>1, <1>2, <2>1, FailedType, GotoTypes DEF Others, Nodes, Sending, Types
  <1>3. CASE /\ Missing(draft) = None /\ draft.key # None
             /\ asked' = [asked EXCEPT ![draft.key] = Request(draft)]
             /\ mine' = mine \cup {draft.key}
             /\ node' = "guacuco" /\ UNCHANGED <<resumed, msg, tap, thread>>
             /\ \/ UNCHANGED idem
                \/ idem' = [idem EXCEPT ![draft.key].status = "in_progress"]
    <2>1. draft.key \in Keys /\ Complete(draft) /\ Request(draft) \in Requests
      BY <1>1, <1>3, DraftFields, MissingType, RequestType DEF Complete
    <2>2. asked' \in [Keys -> Requests \cup {NoRequest}]
      BY <1>3, <2>1 DEF Types, TypeOK
    <2>3. idem' \in [Keys -> IdemRows]
      BY <1>3, <2>1 DEF Types, IdemRows
    <2>4. UNCHANGED <<draft, paused, resumed, profileType, catalog, free, cards, refused, booked, dangling>>
      BY <1>3 DEF ScheduleCommit, thread, identity
    <2>5. Complete(draft)'
      BY <2>1, <2>4 DEF Complete, SummaryReady
    <2>6. mine' \subseteq Keys
      BY <1>3, <2>1 DEF Types, TypeOK
    <2> QED  BY <1>3, <2>1, <2>2, <2>3, <2>4, <2>5, <2>6 DEF Types, TypeOK
  <1> QED  BY <1>2, <1>3 DEF ScheduleCommit, Actions

LEMMA AnsweredTypes == Types /\ (ScheduleCommitAnswered \/ ScheduleSuccess) => Types'
  <1> SUFFICES ASSUME Types, ScheduleCommitAnswered \/ ScheduleSuccess PROVE Types'
    OBVIOUS
  <1>1. draft \in FirmDrafts /\ draft.key \in Keys /\ Complete(draft)
    BY DEF Types, ScheduleCommitAnswered, ScheduleSuccess, Sending
  <1>2. UNCHANGED <<identity, guacuco, cards, asked, mine, booked, dangling>> /\ refused' \in Nat
    BY DEF ScheduleCommitAnswered, ScheduleSuccess, history, flow, Types
  <1>3. CASE ScheduleCommitAnswered
    <2>1. PICK answer \in Answers(draft.key) :
            Goto(Committed(draft, answer), RouteAfterCommit(Committed(draft, answer)))
      BY <1>3 DEF ScheduleCommitAnswered
    <2> DEFINE d == Committed(draft, answer)
    <2>2. /\ d \in FirmDrafts /\ Same(draft, d)
          /\ (d.key = draft.key /\ d.phase = "done") \/ d.phase \in {"validating_availability", "failed"}
      BY <1>1, CommittedType DEF Kin
    <2>3. Goto(d, RouteAfterCommit(d))
      BY <2>1
    <2> HIDE DEF d
    <2>4. CASE d.key = draft.key /\ d.phase = "done"
      <3>1. draft' = d /\ node' \in Nodes \ {"guacuco"} /\ resumed' = FALSE /\ paused' = "none"
        BY <2>3 DEF Goto, RouteAfterCommit, Nodes
      <3>2. draft'.key \in Keys /\ Complete(d) /\ d \in Drafts
        BY <1>1, <2>2, <2>4, <3>1, CompleteKept DEF FirmDrafts
      <3>3. Complete(draft)'
        BY <1>2, <3>1, <3>2 DEF Complete, SummaryReady, identity
      <3> QED  BY <1>2, <2>2, <3>1, <3>2, <3>3 DEF Types, TypeOK, Nodes, identity, guacuco
    <2>5. CASE d.phase \in {"validating_availability", "failed"}
      <3>1. RouteAfterCommit(d) \in Others
        BY <2>5 DEF RouteAfterCommit, IsActiveDraft, Others, Nodes, Sending
      <3> QED  BY <1>2, <2>2, <2>3, <3>1, GotoTypes
    <2> QED  BY <2>2, <2>4, <2>5
  <1>4. CASE ScheduleSuccess
    <2> DEFINE d == [draft EXCEPT !.terminalOutcome = Outcome("success", Request(draft))]
    <2>1. Request(draft) \in Requests
      BY <1>1, RequestType DEF Complete
    <2>2. Outcome("success", Request(draft)) \in [action : Actions, names : Requests \cup {NoRequest}]
      BY <2>1 DEF Outcome, Actions
    <2>3. d \in FirmDrafts
      BY <1>1, <2>2 DEF FirmDrafts, Drafts
    <2>4. Goto(d, "subgraph_finalize")
      BY <1>4 DEF ScheduleSuccess
    <2> HIDE DEF d
    <2> QED  BY <1>2, <2>3, <2>4, GotoTypes DEF Others, Nodes, Sending
  <1> QED  BY <1>3, <1>4

LEMMA KeptType ==
    ASSUME NEW S, NEW f \in [Keys -> S], NEW n \in S
    PROVE  Kept(f, n) \in [Keys -> S]
  BY DEF Kept

LEMMA FinalizeTypes == Types /\ Finalize => Types'
  <1> SUFFICES ASSUME Types, Finalize PROVE Types'
    OBVIOUS
  <1>1. draft' \in FirmDrafts /\ draft' \in Drafts
    BY NoDraftType DEF Finalize, FirmDrafts
  <1>2. cards' \in [Keys -> Requests \cup {NoRequest}] /\ asked' \in [Keys -> Requests \cup {NoRequest}]
    BY KeptType DEF Finalize, Types, TypeOK
  <1>3. idem' \in [Keys -> IdemRows]
    <2>1. NoRow \in IdemRows
      BY DEF NoRow, IdemRows, Results
    <2> QED  BY <2>1, KeptType DEF Finalize, Types
  <1>4. node' = "idle" /\ resumed' = FALSE /\ paused' = "none" /\ dangling' \subseteq Keys
        /\ mine' = {} /\ refused' = 0 /\ booked' = <<>> /\ UNCHANGED <<profileType, catalog, free>>
    BY DEF Finalize, EndTurn, Types, TypeOK, identity
  <1>5. booked' \in Seq(Requests \cup {NoRequest})
    BY <1>4
  <1> QED  BY <1>1, <1>2, <1>3, <1>4, <1>5 DEF Types, TypeOK, Sending

LEMMA OutsideTypes ==
    Types /\ ((\E k \in Keys : GuacucoExecute(k)) \/ TakenElsewhere \/ Dies) => Types'
  <1> SUFFICES ASSUME Types, (\E k \in Keys : GuacucoExecute(k)) \/ TakenElsewhere \/ Dies
               PROVE  Types'
    OBVIOUS
  <1>1. CASE Dies
    <2>1. dangling' \subseteq Keys
      BY <1>1, DraftFields DEF Dies, Types, TypeOK
    <2> QED  BY <1>1, <2>1, EndTypes DEF Dies, thread, flow, Types, TypeOK, Pauses
  <1>2. CASE TakenElsewhere
    <2>1. UNCHANGED <<node, resumed, draft, paused, profileType, catalog, idem, cards, asked, refused,
                      mine, booked, dangling>> /\ free' \subseteq free
      BY <1>2 DEF TakenElsewhere, turn, thread, identity, history, flow
    <2> QED  BY <2>1 DEF Types, TypeOK, Complete, SummaryReady
  <1>3. CASE \E k \in Keys : GuacucoExecute(k)
    <2>1. PICK k \in Keys, res \in Results :
            /\ idem' = [idem EXCEPT ![k] = [status |-> "done", result |-> res]]
            /\ free' \subseteq free
            /\ booked' \in {booked, Append(booked, asked[k])}
      BY <1>3 DEF GuacucoExecute, Results
    <2>2. idem' \in [Keys -> IdemRows]
      BY <2>1 DEF Types, IdemRows
    <2>3. booked' \in Seq(Requests \cup {NoRequest})
      BY <2>1 DEF Types, TypeOK
    <2>4. UNCHANGED <<node, resumed, draft, paused, profileType, catalog, cards, asked, refused, mine,
                      dangling>>
      BY <1>3 DEF GuacucoExecute, turn, thread, identity
    <2> QED  BY <2>1, <2>2, <2>3, <2>4 DEF Types, TypeOK, Complete, SummaryReady
  <1> QED  BY <1>1, <1>2, <1>3

LEMMA StutterTypes == Types /\ UNCHANGED vars => Types'
  BY DEF Types, TypeOK, vars, turn, thread, identity, guacuco, history, flow, Complete, SummaryReady

LEMMA TypesStep == Types /\ [Next]_vars => Types'
  BY ArriveTypes, SupervisorTypes, CollectTypes, ValidateTypes, GateTypes, CommitTypes, AnsweredTypes,
     FinalizeTypes, OutsideTypes, StutterTypes DEF Next, TurnStep

\* Types holds in every reachable state.
THEOREM TypesHold == Spec => []Types
  BY InitTypes, TypesStep, PTL DEF Spec

\* Every variable keeps its type, whatever the catalog, the agenda, the role and the number of
\* intentUuids, options and events.
THEOREM TypeCorrect == Spec => []TypeOK
  <1>1. Types => TypeOK
    BY DEF Types
  <1> QED  BY <1>1, TypesHold, PTL

-----------------------------------------------------------------------------
(* The flow of a turn: where a dead draft may be, what waits, what is told. *)

Dead == {"idle", "supervisor", "schedule_entry", "schedule_resolve", "subgraph_finalize"}

NotStarted == draft.phase = "none" => draft = NoDraft /\ node \in {"idle", "supervisor"} /\ paused = "none"
Over       == draft.phase = "failed" =>
                  draft.terminalOutcome # NoOutcome /\ node \in Dead /\ paused = "none"
Ready      == node = "schedule_validate" => Complete(draft)
Waiting    == paused # "none" => node = "idle" \/ (node = paused /\ resumed)
Answered   == /\ node = "subgraph_finalize" => draft.terminalOutcome # NoOutcome
              /\ told.action # "ignored" /\ (told.action = "gated" => node = "idle")
Tapped     == /\ msg.kind = "confirm" => tap = msg.value
              /\ node = "schedule_commit" => tap = draft.key
Retried    == /\ refused >= 1 => draft.retried
              /\ refused >= 2 => draft.phase = "failed"

\* Together they are inductive on top of Types.
FlowInv == NotStarted /\ Over /\ Ready /\ Waiting /\ Answered /\ Tapped /\ Retried

LEMMA OutcomeTold == \A o, q : o # "none" => Outcome(o, q) # NoOutcome
  <1>1. \A o, q : Outcome(o, q).action = o /\ NoOutcome.action = "none"
    BY DEF Outcome, NoOutcome
  <1> QED  BY <1>1

\* A draft that a node leads on with: alive, or dead with something to tell.
Fit(d, n) ==
    /\ d.phase # "none" /\ (draft.phase = "failed" => d.phase = "failed")
    /\ d.phase = "failed" => d.terminalOutcome # NoOutcome /\ n \in Dead
    /\ n = "schedule_validate" => Complete(d)
    /\ n = "subgraph_finalize" => d.terminalOutcome # NoOutcome
    /\ draft.retried => d.retried

LEMMA GotoFlow ==
    ASSUME FlowInv, node # "idle", NEW d, NEW n, Goto(d, n), Fit(d, n),
           n \notin {"idle", "supervisor", "schedule_commit"},
           UNCHANGED <<told, identity>>, refused' = refused
    PROVE  FlowInv'
  <1>1. Complete(draft)' <=> Complete(d)
    BY DEF Goto, Complete, SummaryReady, identity
  <1>2. /\ draft' = d /\ node' = n /\ paused' = "none" /\ msg'.kind # "confirm"
    BY DEF Goto, Media, Msg
  <1> QED  BY <1>1, <1>2 DEF Fit, FlowInv, NotStarted, Over, Ready, Waiting, Answered, Tapped, Retried

\* A turn that ends, paused or not.
LEMMA EndFlow ==
    ASSUME FlowInv, NEW o, EndTurn(o), UNCHANGED draft, refused' = refused,
           o.action # "ignored",
           paused' = paused \/ draft.phase \notin {"none", "failed"}
    PROVE  FlowInv'
  <1>1. node' = "idle" /\ told' = o /\ msg'.kind # "confirm"
    BY DEF EndTurn, Media, Msg
  <1> QED  BY <1>1 DEF FlowInv, NotStarted, Over, Ready, Waiting, Answered, Tapped, Retried, Dead

LEMMA InitFlow == Init => FlowInv
  <1> SUFFICES ASSUME Init PROVE FlowInv
    OBVIOUS
  <1>1. NoDraft.phase = "none" /\ NoOutcome.action = "none" /\ Media.kind = "media"
    BY DEF NoDraft, NoOutcome, Outcome, Media, Msg
  <1> QED  BY <1>1 DEF Init, FlowInv, NotStarted, Over, Ready, Waiting, Answered, Tapped, Retried

LEMMA ArriveFlow == Types /\ FlowInv /\ Arrive => FlowInv'
  <1> SUFFICES ASSUME Types, FlowInv, Arrive PROVE FlowInv'
    OBVIOUS
  <1>1. UNCHANGED <<draft, paused, refused>> /\ node = "idle" /\ paused \in Pauses
    BY DEF Arrive, thread, history, flow, Types, TypeOK, Pauses
  <1>2. NoOutcome.action = "none"
    BY DEF NoOutcome, Outcome
  <1>3. Tapped'
    BY <1>1 DEF Arrive, Tapped, Pauses
  <1>4. node' = IF paused = "none" THEN "supervisor" ELSE paused
    BY <1>1 DEF Arrive
  <1>5. Waiting' /\ Answered' /\ Ready'
    BY <1>1, <1>2, <1>4 DEF Arrive, Waiting, Answered, Ready, Pauses
  <1>6. NotStarted' /\ Over' /\ Retried'
    BY <1>1, <1>4 DEF FlowInv, NotStarted, Over, Retried, Dead
  <1> QED  BY <1>3, <1>5, <1>6 DEF FlowInv

LEMMA CollectFlow ==
    Types /\ FlowInv
      /\ (Supervisor \/ ScheduleEntry \/ ScheduleResolve \/ ScheduleAskSlot \/ ScheduleAskSlotResumed)
    => FlowInv'
  <1> SUFFICES ASSUME Types, FlowInv,
                      Supervisor \/ ScheduleEntry \/ ScheduleResolve \/ ScheduleAskSlot
                        \/ ScheduleAskSlotResumed
               PROVE  FlowInv'
    OBVIOUS
  <1>1. draft \in FirmDrafts /\ node # "idle"
    BY DEF Types, Supervisor, ScheduleEntry, ScheduleResolve, ScheduleAskSlot, ScheduleAskSlotResumed
  <1>2. refused' = refused /\ UNCHANGED identity
    BY DEF Supervisor, ScheduleEntry, ScheduleResolve, ScheduleAskSlot, ScheduleAskSlotResumed,
           history, flow
  <1>3. \A o : Outcome(o, NoRequest).action = o
    BY DEF Outcome
  <1>4. draft.phase = "none" => node = "supervisor" /\ draft = NoDraft
    BY <1>1 DEF FlowInv, NotStarted
  <1>5. CASE Supervisor
    <2>1. CASE draft # NoDraft /\ Goto(draft, "schedule_entry") /\ UNCHANGED told
      <3>1. Fit(draft, "schedule_entry")
        BY <1>4, <2>1 DEF Fit, FlowInv, Over, NotStarted, Dead
      <3> QED  BY <1>1, <1>2, <2>1, <3>1, GotoFlow
    <2>2. CASE draft = NoDraft /\ Goto(initialAppointmentDraftState, "schedule_entry") /\ UNCHANGED told
      <3>1. NoDraft.phase = "none"
        BY DEF NoDraft
      <3>2. Fit(initialAppointmentDraftState, "schedule_entry")
        BY <2>2, <3>1, InitialType DEF Fit, Kin
      <3> QED  BY <1>1, <1>2, <2>2, <3>2, GotoFlow
    <2>3. CASE EndTurn(Outcome("other", NoRequest)) /\ UNCHANGED thread
      BY <1>2, <1>3, <2>3, EndFlow DEF thread
    <2> QED  BY <1>5, <2>1, <2>2, <2>3 DEF Supervisor
  <1>6. CASE ScheduleEntry
    <2>1. PICK d : (d = draft \/ d \in Extracted(draft)) /\ Goto(d, "schedule_resolve")
      BY <1>6 DEF ScheduleEntry
    <2>2. Kin(draft, d) /\ d.phase = draft.phase
      BY <1>1, <2>1, ExtractedType DEF Kin
    <2>3. Fit(d, "schedule_resolve")
      BY <1>4, <1>6, <2>2 DEF Fit, Kin, FlowInv, Over, Dead, ScheduleEntry
    <2> QED  BY <1>1, <1>2, <1>6, <2>1, <2>3, GotoFlow DEF ScheduleEntry
  <1>7. CASE ScheduleResolve
    <2>1. PICK d : /\ d = Failed(draft, "no_services") \/ d \in ResolvedEntities(draft)
                   /\ Goto(d, RouteAfterResolve(d))
      BY <1>7 DEF ScheduleResolve
    <2>2. /\ d \in FirmDrafts /\ d.retried = draft.retried
          /\ \/ d.phase = "failed" /\ d.terminalOutcome # NoOutcome
             \/ d.phase = draft.phase /\ d.terminalOutcome = draft.terminalOutcome
      <3>1. CASE d = Failed(draft, "no_services")
        BY <1>1, <3>1, FailedType, OutcomeTold DEF Actions
      <3>2. CASE d \in ResolvedEntities(draft)
        BY <1>1, <3>2, ResolvedEntitiesType DEF Kin
      <3> QED  BY <2>1, <3>1, <3>2
    <2>3. d.phase # "none" /\ (d.phase = "failed" => d.terminalOutcome # NoOutcome)
          /\ (draft.phase = "failed" => d.phase = "failed")
      BY <1>4, <1>7, <2>2 DEF FlowInv, Over, ScheduleResolve
    <2>4. /\ RouteAfterResolve(d) \in {"subgraph_finalize", "schedule_validate", "schedule_ask_slot"}
          /\ RouteAfterResolve(d) = "subgraph_finalize" => d.terminalOutcome # NoOutcome
          /\ d.phase = "failed" => RouteAfterResolve(d) = "subgraph_finalize"
          /\ RouteAfterResolve(d) = "schedule_validate" => Complete(d)
      BY <2>2, <2>3, MissingType DEF RouteAfterResolve, IsActiveDraft
    <2>5. Fit(d, RouteAfterResolve(d))
      BY <2>2, <2>3, <2>4 DEF Fit, Dead
    <2> QED  BY <1>1, <1>2, <1>7, <2>1, <2>4, <2>5, GotoFlow DEF ScheduleResolve
  <1>8. ASSUME node = "schedule_ask_slot" PROVE draft.phase \notin {"none", "failed"}
    BY <1>4, <1>8 DEF FlowInv, Over, Dead
  <1>9. CASE ScheduleAskSlot
    <2>1. CASE Goto([draft EXCEPT !.phase = "validating_availability"], "schedule_resolve")
               /\ UNCHANGED told
      <3>1. Fit([draft EXCEPT !.phase = "validating_availability"], "schedule_resolve")
        BY <1>1, <1>8, <1>9, PhaseType DEF Fit, Kin, Phases, ScheduleAskSlot
      <3> QED  BY <1>1, <1>2, <2>1, <3>1, GotoFlow
    <2>2. CASE Goto(Failed(draft, "handed_off"), "subgraph_finalize") /\ UNCHANGED told
      <3>1. Fit(Failed(draft, "handed_off"), "subgraph_finalize")
        BY <1>1, FailedType, OutcomeTold DEF Fit, Dead, Actions
      <3> QED  BY <1>1, <1>2, <2>2, <3>1, GotoFlow
    <2>3. CASE Interrupt("schedule_ask_slot", Outcome("asked", NoRequest))
      BY <1>2, <1>3, <1>8, <1>9, <2>3, EndFlow DEF Interrupt, ScheduleAskSlot
    <2> QED  BY <1>9, <2>1, <2>2, <2>3 DEF ScheduleAskSlot
  <1>10. CASE ScheduleAskSlotResumed
    <2>1. PICK r \in Replied(draft, msg) :
            LET d == [r EXCEPT !.phase = "resolving_entities", !.attempts = @ + 1] IN
            Goto(d, RouteAfterAskSlot(d))
      BY <1>10 DEF ScheduleAskSlotResumed
    <2> DEFINE d == [r EXCEPT !.phase = "resolving_entities", !.attempts = @ + 1]
    <2>2. Kin(draft, d) /\ d.phase = "resolving_entities"
      BY <1>1, RepliedType, AttemptType
    <2>3. Goto(d, RouteAfterAskSlot(d))
      BY <2>1
    <2> HIDE DEF d
    <2>4. /\ RouteAfterAskSlot(d) \in {"schedule_resolve", "subgraph_finalize"}
          /\ RouteAfterAskSlot(d) = "subgraph_finalize" => d.terminalOutcome # NoOutcome
      BY <2>2 DEF RouteAfterAskSlot, IsActiveDraft
    <2>5. Fit(d, RouteAfterAskSlot(d))
      BY <1>8, <1>10, <2>2, <2>4 DEF Fit, Kin, ScheduleAskSlotResumed
    <2> QED  BY <1>1, <1>2, <1>10, <2>3, <2>4, <2>5, GotoFlow DEF ScheduleAskSlotResumed
  <1> QED  BY <1>5, <1>6, <1>7, <1>9, <1>10

LEMMA ValidateFlow ==
    Types /\ FlowInv /\ (ScheduleValidate \/ SchedulePresent \/ SchedulePresentResumed) => FlowInv'
  <1> SUFFICES ASSUME Types, FlowInv, ScheduleValidate \/ SchedulePresent \/ SchedulePresentResumed
               PROVE  FlowInv'
    OBVIOUS
  <1>1. draft \in FirmDrafts /\ node # "idle" /\ draft.phase \notin {"none", "failed"}
    BY DEF Types, FlowInv, NotStarted, Over, Dead, ScheduleValidate, SchedulePresent,
           SchedulePresentResumed
  <1>2. refused' = refused /\ UNCHANGED identity
    BY DEF ScheduleValidate, SchedulePresent, SchedulePresentResumed, history, flow
  <1>3. \A o \in {"error", "handed_off"} :
           /\ Fit(Failed(draft, o), "subgraph_finalize") /\ Failed(draft, o).phase = "failed"
    BY <1>1, FailedType, OutcomeTold DEF Fit, Dead, Actions
  <1>4. CASE ScheduleValidate
    <2>1. SummaryReady(draft) /\ UNCHANGED told
      BY <1>4 DEF ScheduleValidate, FlowInv, Ready, Complete
    <2>2. \/ Goto(Failed(draft, "error"), RouteAfterValidate(Failed(draft, "error")))
          \/ \E p \in Proposals(draft) \cup {<<>>}, ph \in {"awaiting_confirmation", "awaiting_pick"} :
               Goto(Checked(draft, p, ph), RouteAfterValidate(Checked(draft, p, ph)))
      BY <1>4, <2>1 DEF ScheduleValidate, Checked
    <2>3. CASE Goto(Failed(draft, "error"), RouteAfterValidate(Failed(draft, "error")))
      <3>1. RouteAfterValidate(Failed(draft, "error")) = "subgraph_finalize"
        BY <1>3 DEF RouteAfterValidate, IsActiveDraft
      <3> QED  BY <1>1, <1>2, <1>3, <2>1, <2>3, <3>1, GotoFlow
    <2>4. ASSUME NEW p \in Proposals(draft) \cup {<<>>},
                 NEW ph \in {"awaiting_confirmation", "awaiting_pick"},
                 NEW d, d = Checked(draft, p, ph), Goto(d, RouteAfterValidate(d))
          PROVE  FlowInv'
      <3>0. <<>> \in Seq(Dates \X Times)
        OBVIOUS
      <3>1. p \in Seq(Dates \X Times) /\ ph \in Phases
        BY <3>0, ProposalsType DEF Phases
      <3>2. Kin(draft, d) /\ d.phase = ph
        BY <1>1, <2>4, <3>1, ProposedType
      <3>3. /\ RouteAfterValidate(d) \in {"subgraph_finalize", "schedule_build_confirm", "schedule_present"}
            /\ RouteAfterValidate(d) = "subgraph_finalize" => d.terminalOutcome # NoOutcome
        BY <3>2 DEF RouteAfterValidate, IsActiveDraft
      <3>4. Fit(d, RouteAfterValidate(d))
        BY <1>1, <3>2, <3>3 DEF Fit, Kin
      <3> QED  BY <1>1, <1>2, <2>1, <2>4, <3>3, <3>4, GotoFlow
    <2> QED  BY <2>2, <2>3, <2>4
  <1>5. CASE SchedulePresent
    <2>1. CASE Goto(Failed(draft, "handed_off"), "subgraph_finalize") /\ UNCHANGED told
      BY <1>1, <1>2, <1>3, <2>1, GotoFlow
    <2>2. CASE Interrupt("schedule_present", Outcome("proposed", NoRequest))
      <3>1. Outcome("proposed", NoRequest).action = "proposed"
        BY DEF Outcome
      <3> QED  BY <1>1, <1>2, <2>2, <3>1, EndFlow DEF Interrupt
    <2> QED  BY <1>5, <2>1, <2>2 DEF SchedulePresent
  <1>6. CASE SchedulePresentResumed
    <2>1. PICK d \in Picked(draft, msg) : Goto(d, RouteAfterPresent(d))
      BY <1>6 DEF SchedulePresentResumed
    <2>2. Kin(draft, d) /\ d.phase \in {"awaiting_confirmation", "collecting", "awaiting_pick"}
      BY <1>1, PickedType
    <2>3. /\ RouteAfterPresent(d) \in {"subgraph_finalize", "schedule_build_confirm", "schedule_resolve",
                                       "schedule_present"}
          /\ RouteAfterPresent(d) = "subgraph_finalize" => d.terminalOutcome # NoOutcome
      BY <2>2 DEF RouteAfterPresent, IsActiveDraft
    <2>4. Fit(d, RouteAfterPresent(d))
      BY <1>1, <2>2, <2>3 DEF Fit, Kin
    <2> QED  BY <1>1, <1>2, <1>6, <2>1, <2>3, <2>4, GotoFlow DEF SchedulePresentResumed
  <1> QED  BY <1>4, <1>5, <1>6

LEMMA GateFlow ==
    Types /\ FlowInv /\ (ScheduleBuildConfirm \/ ScheduleGate \/ ScheduleGateResumed) => FlowInv'
  <1> SUFFICES ASSUME Types, FlowInv, ScheduleBuildConfirm \/ ScheduleGate \/ ScheduleGateResumed
               PROVE  FlowInv'
    OBVIOUS
  <1>1. draft \in FirmDrafts /\ node # "idle" /\ draft.phase \notin {"none", "failed"}
    BY DEF Types, FlowInv, NotStarted, Over, Dead, ScheduleBuildConfirm, ScheduleGate,
           ScheduleGateResumed
  <1>2. refused' = refused /\ UNCHANGED identity
    BY DEF ScheduleBuildConfirm, ScheduleGate, ScheduleGateResumed, history, flow
  <1>3. CASE ScheduleBuildConfirm
    <2>1. PICK d : Goto(d, "subgraph_gate")
                   /\ (d = draft \/ \E k \in Keys : d = [draft EXCEPT !.key = k, !.phase = "awaiting_confirmation"])
      BY <1>3 DEF ScheduleBuildConfirm
    <2>2. d.retried = draft.retried /\ d.phase \notin {"none", "failed"}
      <3>1. CASE d = draft
        BY <1>1, <3>1
      <3>2. ASSUME NEW k \in Keys, d = [draft EXCEPT !.key = k, !.phase = "awaiting_confirmation"]
            PROVE  d.retried = draft.retried /\ d.phase = "awaiting_confirmation"
        BY <1>1, <3>2 DEF FirmDrafts, Drafts
      <3> QED  BY <2>1, <3>1, <3>2
    <2>3. Fit(d, "subgraph_gate") /\ UNCHANGED told
      BY <1>1, <1>3, <2>2 DEF Fit, ScheduleBuildConfirm
    <2> QED  BY <1>1, <1>2, <2>1, <2>3, GotoFlow
  <1>4. CASE ScheduleGate
    <2>1. CASE Goto(Failed(draft, "error"), "subgraph_finalize") /\ UNCHANGED told
      <3>1. Fit(Failed(draft, "error"), "subgraph_finalize")
        BY <1>1, FailedType, OutcomeTold DEF Fit, Dead, Actions
      <3> QED  BY <1>1, <1>2, <2>1, <3>1, GotoFlow
    <2>2. CASE Interrupt("subgraph_gate", Outcome("gated", cards[draft.key]))
      <3>1. Outcome("gated", cards[draft.key]).action = "gated"
        BY DEF Outcome
      <3> QED  BY <1>1, <1>2, <2>2, <3>1, EndFlow DEF Interrupt
    <2> QED  BY <1>4, <2>1, <2>2 DEF ScheduleGate
  <1>5. CASE ScheduleGateResumed
    <2>1. PICK d \in GateReplied(draft, msg) : Goto(d, RouteAfterGate(d))
      BY <1>5 DEF ScheduleGateResumed
    <2>2. /\ d.retried = draft.retried /\ d.terminalOutcome = draft.terminalOutcome
          /\ \/ msg = Msg("confirm", draft.key) /\ d.phase = "committing" /\ d.key = draft.key
             \/ d.phase = "collecting"
      BY <1>1, GateRepliedType
    <2>3. /\ RouteAfterGate(d) \in {"subgraph_finalize", "schedule_commit", "schedule_resolve"}
          /\ RouteAfterGate(d) = "subgraph_finalize" => d.terminalOutcome # NoOutcome
          /\ RouteAfterGate(d) = "schedule_commit" => d.phase = "committing"
      BY <2>2 DEF RouteAfterGate, IsActiveDraft
    <2>4. Fit(d, RouteAfterGate(d)) /\ UNCHANGED told
      BY <1>1, <1>5, <2>2, <2>3 DEF Fit, ScheduleGateResumed
    <2>5. CASE RouteAfterGate(d) # "schedule_commit"
      BY <1>1, <1>2, <2>1, <2>3, <2>4, <2>5, GotoFlow
    <2>6. CASE RouteAfterGate(d) = "schedule_commit"
      <3>1. msg = Msg("confirm", draft.key) /\ d.key = draft.key /\ d.phase = "committing"
        BY <2>2, <2>3, <2>6
      <3>2. /\ draft' = d /\ node' = "schedule_commit" /\ paused' = "none" /\ msg'.kind = "media"
            /\ tap' = tap
        BY <2>1, <2>6 DEF Goto, Media, Msg
      <3>3. tap' = draft'.key
        BY <3>1, <3>2 DEF FlowInv, Tapped, Msg
      <3>4. Answered'
        BY <1>1, <2>4, <3>2 DEF FlowInv, Answered
      <3>5. Retried'
        BY <1>1, <1>2, <2>2, <3>2 DEF FlowInv, Retried
      <3> QED  BY <3>1, <3>2, <3>3, <3>4, <3>5 DEF FlowInv, NotStarted, Over, Ready, Waiting, Tapped
    <2> QED  BY <2>5, <2>6
  <1> QED  BY <1>3, <1>4, <1>5

LEMMA CommitFlow ==
    Types /\ FlowInv /\ (ScheduleCommit \/ ScheduleCommitAnswered \/ ScheduleSuccess) => FlowInv'
  <1> SUFFICES ASSUME Types, FlowInv, ScheduleCommit \/ ScheduleCommitAnswered \/ ScheduleSuccess
               PROVE  FlowInv'
    OBVIOUS
  <1>1. draft \in FirmDrafts /\ node # "idle" /\ draft.phase \notin {"none", "failed"}
    BY DEF Types, FlowInv, NotStarted, Over, Dead, ScheduleCommit, ScheduleCommitAnswered,
           ScheduleSuccess
  <1>2. UNCHANGED <<told, identity>>
    BY DEF ScheduleCommit, ScheduleCommitAnswered, ScheduleSuccess
  <1>3. \A o \in {"error", "handed_off"} : Fit(Failed(draft, o), "subgraph_finalize")
    BY <1>1, FailedType, OutcomeTold DEF Fit, Dead, Actions
  <1>4. CASE ScheduleCommit
    <2>1. CASE \E o \in {"error", "handed_off"} : Goto(Failed(draft, o), "subgraph_finalize")
      BY <1>1, <1>2, <1>3, <1>4, <2>1, GotoFlow DEF ScheduleCommit
    <2>2. CASE node' = "guacuco" /\ UNCHANGED <<resumed, msg, tap, thread>>
      <3>1. UNCHANGED <<draft, paused, refused, tap, msg, told>> /\ paused = "none"
        BY <1>2, <1>4, <2>2 DEF ScheduleCommit, thread, FlowInv, Waiting, Types, TypeOK
      <3> QED  BY <1>1, <2>2, <3>1
               DEF FlowInv, NotStarted, Over, Ready, Waiting, Answered, Tapped, Retried
    <2> QED  BY <1>4, <2>1, <2>2 DEF ScheduleCommit
  <1>5. CASE ScheduleCommitAnswered
    <2>1. PICK answer :
            /\ Goto(Committed(draft, answer), RouteAfterCommit(Committed(draft, answer)))
            /\ refused' = IF answer = "STAFF_NOT_AVAILABLE" THEN refused + 1 ELSE refused
      BY <1>5 DEF ScheduleCommitAnswered
    <2> DEFINE d == Committed(draft, answer)
    <2>2. /\ Same(draft, d) /\ d.phase \in {"done", "validating_availability", "failed"}
          /\ d.phase = "done" => answer = "ok" /\ Kin(draft, d)
          /\ d.phase = "validating_availability" =>
                ~draft.retried /\ d.retried = TRUE /\ d.terminalOutcome = draft.terminalOutcome
          /\ d.phase = "failed" =>
                /\ answer = "STAFF_NOT_AVAILABLE" => draft.retried
                /\ d.retried = draft.retried /\ d.terminalOutcome # NoOutcome
      <3>1. draft \in FirmDrafts
        BY <1>1
      <3> HIDE DEF d
      <3>2. /\ Same(draft, d)
            /\ \/ answer = "ok" /\ Kin(draft, d) /\ d.phase = "done"
               \/ /\ answer = "STAFF_NOT_AVAILABLE" /\ ~draft.retried
                  /\ d.key = None /\ d.retried = TRUE /\ d.phase = "validating_availability"
                  /\ d.terminalOutcome = draft.terminalOutcome
               \/ /\ answer # "ok" /\ (answer = "STAFF_NOT_AVAILABLE" => draft.retried)
                  /\ d.key = draft.key /\ d.retried = draft.retried /\ d.phase = "failed"
                  /\ \E o \in {"error", "handed_off"} : d.terminalOutcome = Outcome(o, NoRequest)
        BY <3>1, CommittedType DEF d
      <3> QED  BY <3>2, OutcomeTold
    <2>3. Goto(d, RouteAfterCommit(d))
      BY <2>1
    <2> HIDE DEF d
    <2>4. Complete(d)
      BY <1>5, <2>2, CompleteKept DEF Types, Sending, ScheduleCommitAnswered
    <2>5. /\ RouteAfterCommit(d) \in {"subgraph_finalize", "schedule_validate", "schedule_success"}
          /\ RouteAfterCommit(d) = "subgraph_finalize" => d.terminalOutcome # NoOutcome
          /\ d.phase = "failed" => RouteAfterCommit(d) = "subgraph_finalize"
      BY <2>2 DEF RouteAfterCommit, IsActiveDraft
    <2>6. /\ draft' = d /\ node' = RouteAfterCommit(d) /\ paused' = "none" /\ msg'.kind = "media"
      BY <2>3 DEF Goto, Media, Msg
    <2>7. Complete(draft)'
      BY <1>2, <2>4, <2>6 DEF Complete, SummaryReady, identity
    <2>8. refused \in Nat /\ (refused >= 1 => draft.retried) /\ ~(refused >= 2)
      BY <1>1 DEF Types, FlowInv, Retried
    <2>9. Retried'
      <3>1. CASE answer = "STAFF_NOT_AVAILABLE"
        <4>1. refused' = refused + 1
          BY <2>1, <3>1
        <4>2. CASE draft.retried
          BY <2>2, <2>6, <2>8, <3>1, <4>1, <4>2 DEF Retried
        <4>3. CASE ~draft.retried
          <5>1. refused' = 1 /\ d.retried
            BY <2>2, <2>8, <3>1, <4>1, <4>3 DEF Kin
          <5> QED  BY <2>6, <5>1 DEF Retried
        <4> QED  BY <4>2, <4>3
      <3>2. CASE answer # "STAFF_NOT_AVAILABLE"
        <4>1. refused' = refused
          BY <2>1, <3>2
        <4> QED  BY <2>2, <2>6, <2>8, <4>1 DEF Retried, Kin
      <3> QED  BY <3>1, <3>2
    <2>10. Answered' /\ Over' /\ NotStarted' /\ Ready' /\ Waiting' /\ Tapped'
      BY <1>1, <1>2, <2>2, <2>5, <2>6, <2>7
         DEF FlowInv, Answered, Over, NotStarted, Ready, Waiting, Tapped, Dead
    <2> QED  BY <2>9, <2>10 DEF FlowInv
  <1>6. CASE ScheduleSuccess
    <2> DEFINE d == [draft EXCEPT !.terminalOutcome = Outcome("success", Request(draft))]
    <2>1. /\ d.phase = draft.phase /\ d.retried = draft.retried
          /\ d.terminalOutcome = Outcome("success", Request(draft))
      BY <1>1 DEF FirmDrafts, Drafts
    <2>2. Goto(d, "subgraph_finalize") /\ refused' = refused
      BY <1>6 DEF ScheduleSuccess, history, flow
    <2> HIDE DEF d
    <2>3. Fit(d, "subgraph_finalize")
      BY <1>1, <2>1, OutcomeTold DEF Fit
    <2> QED  BY <1>1, <1>2, <2>2, <2>3, GotoFlow
  <1> QED  BY <1>4, <1>5, <1>6

LEMMA FinalizeFlow == Types /\ FlowInv /\ Finalize => FlowInv'
  <1> SUFFICES ASSUME Types, FlowInv, Finalize PROVE FlowInv'
    OBVIOUS
  <1>1. draft.terminalOutcome.action \in Actions /\ told' = draft.terminalOutcome
    BY DEF Types, FirmDrafts, Drafts, FlowInv, Answered, Finalize, EndTurn
  <1>2. node' = "idle" /\ paused' = "none" /\ draft' = NoDraft /\ refused' = 0 /\ msg'.kind = "media"
    BY DEF Finalize, EndTurn, Media, Msg
  <1>3. NoDraft.phase = "none"
    BY DEF NoDraft
  <1> QED  BY <1>1, <1>2, <1>3
           DEF Actions, FlowInv, NotStarted, Over, Ready, Waiting, Answered, Tapped, Retried

LEMMA OutsideFlow ==
    FlowInv /\ ((\E k \in Keys : GuacucoExecute(k)) \/ TakenElsewhere \/ Dies \/ UNCHANGED vars)
    => FlowInv'
  <1> SUFFICES ASSUME FlowInv,
                      (\E k \in Keys : GuacucoExecute(k)) \/ TakenElsewhere \/ Dies \/ UNCHANGED vars
               PROVE  FlowInv'
    OBVIOUS
  <1>1. CASE Dies
    <2>1. Outcome("error", NoRequest).action = "error"
      BY DEF Outcome
    <2> QED  BY <1>1, <2>1, EndFlow DEF Dies, thread, flow
  <1>2. CASE (\E k \in Keys : GuacucoExecute(k)) \/ TakenElsewhere \/ UNCHANGED vars
    <2>1. UNCHANGED <<node, resumed, msg, tap, draft, paused, profileType, told, refused>>
      BY <1>2 DEF GuacucoExecute, TakenElsewhere, vars, turn, thread, identity, history, flow
    <2>2. Complete(draft)' <=> Complete(draft)
      BY <2>1 DEF Complete, SummaryReady
    <2> QED  BY <2>1, <2>2
             DEF FlowInv, NotStarted, Over, Ready, Waiting, Answered, Tapped, Retried
  <1> QED  BY <1>1, <1>2

LEMMA FlowStep == Types /\ FlowInv /\ [Next]_vars => FlowInv'
  BY ArriveFlow, CollectFlow, ValidateFlow, GateFlow, CommitFlow, FinalizeFlow, OutsideFlow
     DEF Next, TurnStep

\* A dead draft only goes to finalize, a paused node is the one resumed, and every turn that ends
\* has something to tell.
THEOREM FlowHolds == Spec => [](Types /\ FlowInv)
  BY InitTypes, TypesStep, InitFlow, FlowStep, PTL DEF Spec

\* A request leaves only in the turn whose message taps the button of its own intentUuid.
THEOREM CommitNeedsTap == Spec => CommitOnlyOnTap
  <1>1. FlowInv => (node = "schedule_commit" /\ node' = "guacuco" => tap = draft.key)
    BY DEF FlowInv, Tapped
  <1> QED  BY <1>1, FlowHolds, PTL DEF CommitOnlyOnTap

\* A slot lost after its validation is validated anew once, however often the flow tries.
THEOREM OneRetry == Spec => []RetriedOnce
  <1>1. FlowInv => RetriedOnce
    BY DEF FlowInv, Retried, RetriedOnce
  <1> QED  BY <1>1, FlowHolds, PTL

\* No turn ends without something to tell the user.
THEOREM AlwaysAnswered == Spec => []NeverSilent
  <1>1. FlowInv => NeverSilent
    BY DEF FlowInv, Answered, NeverSilent
  <1> QED  BY <1>1, FlowHolds, PTL

-----------------------------------------------------------------------------
(* The steps before the gate, and what all of them leave alone.            *)

Holding == {"subgraph_gate", "schedule_commit", "guacuco", "schedule_success",
            "subgraph_finalize"}
Before  == {"idle", "supervisor", "schedule_entry", "schedule_resolve", "schedule_ask_slot",
            "schedule_validate", "schedule_present", "schedule_build_confirm", "subgraph_finalize"}

Collect == \/ Supervisor \/ ScheduleEntry \/ ScheduleResolve
           \/ ScheduleAskSlot \/ ScheduleAskSlotResumed
           \/ ScheduleValidate \/ SchedulePresent \/ SchedulePresentResumed

KeepsOutcome(d) ==
    d.terminalOutcome = draft.terminalOutcome
      \/ \E o \in {"no_services", "handed_off", "error"} : d.terminalOutcome = Outcome(o, NoRequest)

LEMMA CollectKeeps ==
    ASSUME Types, FlowInv, Collect
    PROVE  draft'.key = draft.key /\ KeepsOutcome(draft')
  <1>1. draft \in FirmDrafts
    BY DEF Types
  <1>2. \A o \in {"no_services", "handed_off", "error"} :
           Failed(draft, o).key = draft.key /\ KeepsOutcome(Failed(draft, o))
    BY <1>1, FailedType DEF Actions, KeepsOutcome
  <1>3. \A d : Kin(draft, d) => d.key = draft.key /\ KeepsOutcome(d)
    BY DEF Kin, KeepsOutcome
  <1>4. CASE draft' = draft \/ \E o \in {"no_services", "handed_off", "error"} : draft' = Failed(draft, o)
    BY <1>2, <1>4 DEF KeepsOutcome
  <1>5. CASE Supervisor
    BY <1>3, <1>4, <1>5, InitialType DEF Supervisor, Goto, thread
  <1>6. CASE ScheduleEntry
    BY <1>1, <1>3, <1>4, <1>6, ExtractedType DEF ScheduleEntry, Goto
  <1>7. CASE ScheduleResolve
    BY <1>1, <1>3, <1>4, <1>7, ResolvedEntitiesType DEF ScheduleResolve, Goto
  <1>8. CASE ScheduleAskSlot
    <2>1. CASE draft' = [draft EXCEPT !.phase = "validating_availability"]
      <3>1. Kin(draft, draft')
        BY <1>1, <2>1, PhaseType DEF Phases
      <3> QED  BY <1>3, <3>1
    <2> QED  BY <1>4, <1>8, <2>1 DEF ScheduleAskSlot, Goto, Interrupt
  <1>9. CASE ScheduleAskSlotResumed
    <2>1. PICK r \in Replied(draft, msg) :
            draft' = [r EXCEPT !.phase = "resolving_entities", !.attempts = @ + 1]
      BY <1>9 DEF ScheduleAskSlotResumed, Goto
    <2>2. Kin(draft, draft')
      BY <1>1, <2>1, RepliedType, AttemptType
    <2> QED  BY <1>3, <2>2
  <1>10. CASE ScheduleValidate
    <2>1. SummaryReady(draft)
      BY <1>10 DEF ScheduleValidate, FlowInv, Ready, Complete
    <2>2. \/ draft' = Failed(draft, "error")
          \/ \E p \in Proposals(draft) \cup {<<>>}, ph \in {"awaiting_confirmation", "awaiting_pick"} :
               draft' = Checked(draft, p, ph)
      BY <1>10, <2>1 DEF ScheduleValidate, Checked, Goto
    <2>3. ASSUME NEW p \in Proposals(draft) \cup {<<>>},
                 NEW ph \in {"awaiting_confirmation", "awaiting_pick"}
          PROVE  Kin(draft, Checked(draft, p, ph))
      <3>0. <<>> \in Seq(Dates \X Times)
        OBVIOUS
      <3>1. p \in Seq(Dates \X Times) /\ ph \in Phases
        BY <3>0, ProposalsType DEF Phases
      <3> QED  BY <1>1, <3>1, ProposedType
    <2> QED  BY <1>3, <1>4, <2>2, <2>3
  <1>11. CASE SchedulePresent
    BY <1>4, <1>11 DEF SchedulePresent, Goto, Interrupt
  <1>12. CASE SchedulePresentResumed
    BY <1>1, <1>3, <1>12, PickedType DEF SchedulePresentResumed, Goto
  <1> QED  BY <1>5, <1>6, <1>7, <1>8, <1>9, <1>10, <1>11, <1>12 DEF Collect

LEMMA CollectQuiet ==
    ASSUME Types, FlowInv, Collect
    PROVE  /\ node \notin Holding \cup {"idle"} /\ node' \in Before
           /\ paused' \in {"none", "schedule_ask_slot", "schedule_present"}
           /\ told'.action # "gated"
           /\ UNCHANGED <<identity, guacuco, cards, asked, refused, mine, booked, withdrawn, dangling>>
  <1>1. node \notin Holding \cup {"idle"}
    BY DEF Collect, Holding, Supervisor, ScheduleEntry, ScheduleResolve, ScheduleAskSlot,
           ScheduleAskSlotResumed, ScheduleValidate, SchedulePresent, SchedulePresentResumed
  <1>2. UNCHANGED <<identity, guacuco, cards, asked, refused, mine, booked, withdrawn, dangling>>
    BY DEF Collect, Supervisor, ScheduleEntry, ScheduleResolve, ScheduleAskSlot,
           ScheduleAskSlotResumed, ScheduleValidate, SchedulePresent, SchedulePresentResumed,
           history, flow
  <1>3. \A o, q : Outcome(o, q).action = o
    BY DEF Outcome
  <1>4. told'.action # "gated"
    <2>1. told.action # "gated"
      BY <1>1 DEF FlowInv, Answered, Holding
    <2>2. told' = told \/ told'.action \in {"other", "asked", "proposed"}
      BY <1>3 DEF Collect, Supervisor, ScheduleEntry, ScheduleResolve, ScheduleAskSlot,
             ScheduleAskSlotResumed, ScheduleValidate, SchedulePresent, SchedulePresentResumed,
             Interrupt, EndTurn
    <2> QED  BY <2>1, <2>2
  <1>5. node' \in Before
    BY DEF Collect, Supervisor, ScheduleEntry, ScheduleResolve, ScheduleAskSlot,
           ScheduleAskSlotResumed, ScheduleValidate, SchedulePresent, SchedulePresentResumed,
           Interrupt, EndTurn, Goto, RouteAfterResolve, RouteAfterAskSlot, RouteAfterValidate,
           RouteAfterPresent, Before
  <1>6. paused' \in {"none", "schedule_ask_slot", "schedule_present"}
    <2>1. CASE Supervisor /\ UNCHANGED thread
      BY <1>1, <2>1 DEF FlowInv, Waiting, Supervisor, thread, Types, TypeOK, Holding
    <2> QED  BY <2>1 DEF Collect, Supervisor, ScheduleEntry, ScheduleResolve, ScheduleAskSlot,
             ScheduleAskSlotResumed, ScheduleValidate, SchedulePresent, SchedulePresentResumed,
             Interrupt, Goto
  <1> QED  BY <1>1, <1>2, <1>4, <1>5, <1>6

-----------------------------------------------------------------------------
(* What the gate shows and what is asked.                                  *)

Slots(d) == <<d.services.value, d.staff.value, d.date.value, d.time.value>>

KeyBound == draft.key \notin dangling \cup {None} =>
                /\ node \in Holding \/ (node = "idle" /\ paused = "subgraph_gate")
                /\ SummaryReady(draft) /\ cards[draft.key] = Summary(draft) /\ Slots(draft) \in vouched
Chosen   == node = "schedule_build_confirm" /\ draft.key = None =>
                SummaryReady(draft) /\ Slots(draft) \in vouched
Offers   == node = "schedule_present" \/ paused = "schedule_present" =>
                /\ Has(draft.services) /\ Has(draft.staff)
                /\ \A i \in DOMAIN draft.proposed :
                     <<draft.services.value, draft.staff.value, draft.proposed[i][1],
                       draft.proposed[i][2]>> \in vouched

\* Together they are inductive on top of FlowInv.
CardInv == KeyBound /\ Chosen /\ Offers /\ CommitMatchesCard /\ GatedWasVouched

LEMMA SummarySlots ==
    ASSUME NEW d
    PROVE  LET q == Summary(d) IN <<q.services, q.staff, q.date, q.time>> = Slots(d)
  BY DEF Summary, Request, Slots

\* The same draft, or one with the same slots, is summarised as before.
LEMMA SlotsKept ==
    ASSUME Same(draft, draft'), UNCHANGED profileType
    PROVE  /\ SummaryReady(draft)' <=> SummaryReady(draft)
           /\ Summary(draft)' = Summary(draft) /\ Slots(draft)' = Slots(draft)
           /\ Request(draft)' = Request(draft)
  BY DEF Same, SummaryReady, Summary, Request, Slots

\* Without a confirmation of this turn's own nothing binds the draft.
LEMMA LooseCards ==
    ASSUME CardInv, draft'.key \in dangling' \cup {None}, dangling \subseteq dangling',
           UNCHANGED <<cards, asked>>, told'.action # "gated", Chosen', Offers'
    PROVE  CardInv'
  BY DEF CardInv, KeyBound, CommitMatchesCard, GatedWasVouched

\* From the gate on the slots stay.
LEMMA HeldCards ==
    ASSUME CardInv, Same(draft, draft'), UNCHANGED <<identity, cards, dangling, vouched>>,
           draft'.key = draft.key, node' \in Holding, paused' = "none",
           told'.action # "gated", CommitMatchesCard'
    PROVE  CardInv'
  <1>1. KeyBound'
    BY SlotsKept DEF CardInv, KeyBound, identity
  <1>2. Chosen' /\ Offers' /\ GatedWasVouched'
    BY DEF Chosen, Offers, GatedWasVouched, Holding
  <1> QED  BY <1>1, <1>2 DEF CardInv

LEMMA CollectOffers ==
    ASSUME Types, FlowInv, CardInv, Collect
    PROVE  Chosen' /\ Offers'
  <1>1. draft \in FirmDrafts
    BY DEF Types
  <1>2. CASE Supervisor \/ ScheduleEntry \/ ScheduleResolve \/ ScheduleAskSlot \/ ScheduleAskSlotResumed
    <2>1. node' \notin {"schedule_build_confirm", "schedule_present"}
      BY <1>2 DEF Supervisor, ScheduleEntry, ScheduleResolve, ScheduleAskSlot, ScheduleAskSlotResumed,
             Interrupt, EndTurn, Goto, RouteAfterResolve, RouteAfterAskSlot
    <2>2. paused' # "schedule_present"
      <3>1. CASE Supervisor /\ UNCHANGED thread
        BY <3>1 DEF FlowInv, Waiting, Supervisor, thread, Types, TypeOK
      <3> QED  BY <1>2, <3>1 DEF Supervisor, ScheduleEntry, ScheduleResolve, ScheduleAskSlot,
                    ScheduleAskSlotResumed, Interrupt, Goto
    <2> QED  BY <2>1, <2>2 DEF Chosen, Offers
  <1>3. CASE ScheduleValidate
    <2>1. SummaryReady(draft)
      BY <1>3 DEF ScheduleValidate, FlowInv, Ready, Complete
    <2>2. CASE Goto(Failed(draft, "error"), RouteAfterValidate(Failed(draft, "error")))
      <3>1. RouteAfterValidate(Failed(draft, "error")) = "subgraph_finalize"
        BY <1>1, FailedType DEF RouteAfterValidate, IsActiveDraft, Actions
      <3>2. node' = "subgraph_finalize" /\ paused' = "none"
        BY <2>2, <3>1 DEF Goto
      <3> QED  BY <3>2 DEF Chosen, Offers
    <2>3. CASE /\ Goto(Checked(draft, <<>>, "awaiting_confirmation"),
                       RouteAfterValidate(Checked(draft, <<>>, "awaiting_confirmation")))
               /\ Vouch(draft, {<<draft.date.value, draft.time.value>>})
      <3>1. <<>> \in Seq(Dates \X Times) /\ "awaiting_confirmation" \in Phases
        BY DEF Phases
      <3>2. Same(draft, draft') /\ draft'.phase = "awaiting_confirmation" /\ paused' = "none"
        BY <1>1, <2>3, <3>1, ProposedType DEF Goto
      <3>3. node' # "schedule_present"
        BY <2>3, <3>2 DEF Goto, RouteAfterValidate
      <3>4. Slots(draft) \in vouched'
        BY <2>3 DEF Vouch, Slots
      <3>5. UNCHANGED profileType
        BY <1>3 DEF ScheduleValidate, identity
      <3> QED  BY <2>1, <3>2, <3>3, <3>4, <3>5, SlotsKept DEF Chosen, Offers
    <2>4. CASE \E p \in Proposals(draft) :
                 /\ Goto(Checked(draft, p, "awaiting_pick"),
                         RouteAfterValidate(Checked(draft, p, "awaiting_pick")))
                 /\ Vouch(draft, {p[i] : i \in DOMAIN p})
      <3>1. PICK p \in Proposals(draft) :
                 /\ Goto(Checked(draft, p, "awaiting_pick"),
                         RouteAfterValidate(Checked(draft, p, "awaiting_pick")))
                 /\ Vouch(draft, {p[i] : i \in DOMAIN p})
        BY <2>4
      <3>2. p \in Seq(Dates \X Times) /\ "awaiting_pick" \in Phases
        BY ProposalsType DEF Phases
      <3>3. /\ Same(draft, draft') /\ draft'.phase = "awaiting_pick" /\ draft'.proposed = p
            /\ paused' = "none"
        BY <1>1, <3>1, <3>2, ProposedType DEF Goto
      <3>4. node' # "schedule_build_confirm"
        BY <3>1, <3>3 DEF Goto, RouteAfterValidate
      <3>5. \A i \in DOMAIN p :
               <<draft.services.value, draft.staff.value, p[i][1], p[i][2]>> \in vouched'
        BY <3>1 DEF Vouch
      <3> QED  BY <2>1, <3>3, <3>4, <3>5 DEF Chosen, Offers, Same, SummaryReady
    <2> QED  BY <1>3, <2>1, <2>2, <2>3, <2>4 DEF ScheduleValidate, Checked
  <1>4. CASE SchedulePresent
    <2>1. CASE Goto(Failed(draft, "handed_off"), "subgraph_finalize")
      BY <2>1 DEF Goto, Chosen, Offers
    <2>2. CASE Interrupt("schedule_present", Outcome("proposed", NoRequest))
      <3>1. UNCHANGED <<draft, vouched>> /\ node' = "idle" /\ node = "schedule_present"
        BY <1>4, <2>2 DEF SchedulePresent, Interrupt, EndTurn, history, flow
      <3> QED  BY <3>1 DEF CardInv, Offers, Chosen
    <2> QED  BY <1>4, <2>1, <2>2 DEF SchedulePresent
  <1>5. CASE SchedulePresentResumed
    <2>1. PICK d \in Picked(draft, msg) : Goto(d, RouteAfterPresent(d))
      BY <1>5 DEF SchedulePresentResumed
    <2>2. draft' = d /\ node' = RouteAfterPresent(d) /\ paused' = "none" /\ UNCHANGED vouched
          /\ node = "schedule_present"
      BY <1>5, <2>1 DEF Goto, SchedulePresentResumed, history, flow
    <2>3. /\ Has(draft.services) /\ Has(draft.staff)
          /\ \A i \in DOMAIN draft.proposed :
               <<draft.services.value, draft.staff.value, draft.proposed[i][1],
                 draft.proposed[i][2]>> \in vouched
      BY <2>2 DEF CardInv, Offers
    <2>4. CASE d.phase = "collecting"
      BY <2>2, <2>4 DEF RouteAfterPresent, Chosen, Offers
    <2>5. CASE d.phase = "awaiting_pick" /\ Same(draft, d) /\ d.proposed = draft.proposed
      <3>1. node' # "schedule_build_confirm"
        BY <2>2, <2>5 DEF RouteAfterPresent
      <3> QED  BY <2>2, <2>3, <2>5, <3>1 DEF Chosen, Offers, Same
    <2>6. ASSUME d.phase = "awaiting_confirmation", NEW i \in DOMAIN draft.proposed,
                 d.services = draft.services, d.staff = draft.staff,
                 d.date = Resolved(draft.proposed[i][1]), d.time = Resolved(draft.proposed[i][2])
          PROVE  Chosen' /\ Offers'
      <3>1. node' # "schedule_present"
        BY <2>2, <2>6 DEF RouteAfterPresent
      <3>2. d.date.value = draft.proposed[i][1] /\ d.time.value = draft.proposed[i][2]
            /\ Has(d.date) /\ Has(d.time)
        BY <2>6 DEF Resolved, Has
      <3>3. SummaryReady(d) /\ Slots(d) \in vouched
        BY <2>3, <2>6, <3>2 DEF SummaryReady, Slots
      <3>4. SummaryReady(draft)' /\ Slots(draft)' \in vouched'
        BY <2>2, <3>3 DEF SummaryReady, Slots
      <3> QED  BY <2>2, <3>1, <3>4 DEF Chosen, Offers
    <2> QED  BY <1>1, <2>4, <2>5, <2>6, PickedType
  <1> QED  BY <1>2, <1>3, <1>4, <1>5 DEF Collect

LEMMA CollectCards == Types /\ FlowInv /\ CardInv /\ Collect => CardInv'
  <1> SUFFICES ASSUME Types, FlowInv, CardInv, Collect PROVE CardInv'
    OBVIOUS
  <1>1. draft'.key \in dangling' \cup {None}
    BY CollectKeeps, CollectQuiet DEF CardInv, KeyBound
  <1> QED  BY <1>1, CollectQuiet, CollectOffers, LooseCards

LEMMA InitCards == Init => CardInv
  <1>1. NoDraft.key = None /\ NoOutcome.action = "none"
    BY DEF NoDraft, NoOutcome, Outcome
  <1> QED  BY <1>1 DEF Init, CardInv, KeyBound, Chosen, Offers, CommitMatchesCard, GatedWasVouched

LEMMA ArriveCards == Types /\ FlowInv /\ CardInv /\ Arrive => CardInv'
  <1> SUFFICES ASSUME Types, FlowInv, CardInv, Arrive PROVE CardInv'
    OBVIOUS
  <1>1. UNCHANGED <<draft, paused, profileType, cards, asked, dangling, vouched>> /\ node = "idle"
    BY DEF Arrive, thread, identity, history, flow
  <1>2. node' = IF paused = "none" THEN "supervisor" ELSE paused
    BY DEF Arrive
  <1>3. paused \in Pauses
    BY DEF Types, TypeOK, Pauses
  <1>4. Same(draft, draft')
    BY <1>1 DEF Same
  <1>5. KeyBound'
    BY <1>1, <1>2, <1>4, SlotsKept DEF CardInv, KeyBound, Holding
  <1>6. Chosen' /\ Offers'
    BY <1>1, <1>2, <1>3 DEF CardInv, Chosen, Offers, Pauses
  <1>7. GatedWasVouched'
    BY DEF Arrive, GatedWasVouched, NoOutcome, Outcome
  <1> QED  BY <1>1, <1>5, <1>6, <1>7 DEF CardInv, CommitMatchesCard

LEMMA GateCards ==
    Types /\ FlowInv /\ CardInv /\ (ScheduleBuildConfirm \/ ScheduleGate \/ ScheduleGateResumed)
    => CardInv'
  <1> SUFFICES ASSUME Types, FlowInv, CardInv,
                      ScheduleBuildConfirm \/ ScheduleGate \/ ScheduleGateResumed
               PROVE  CardInv'
    OBVIOUS
  <1>1. /\ draft \in FirmDrafts /\ cards \in [Keys -> Requests \cup {NoRequest}]
        /\ asked \in [Keys -> Requests \cup {NoRequest}] /\ node # "idle"
    BY DEF Types, TypeOK, ScheduleBuildConfirm, ScheduleGate, ScheduleGateResumed
  <1>2. UNCHANGED <<identity, dangling, vouched>>
    BY DEF ScheduleBuildConfirm, ScheduleGate, ScheduleGateResumed, history, flow
  <1>3. told.action # "gated"
    BY <1>1 DEF FlowInv, Answered
  <1>4. CASE ScheduleBuildConfirm
    <2>1. draft.key \in dangling \cup {None}
      BY <1>4 DEF CardInv, KeyBound, ScheduleBuildConfirm, Holding
    <2>2. told'.action # "gated"
      BY <1>3, <1>4 DEF ScheduleBuildConfirm
    <2>3. CASE draft.key = None
      <3>1. SummaryReady(draft) /\ Slots(draft) \in vouched
        BY <1>4, <2>3 DEF CardInv, Chosen, ScheduleBuildConfirm
      <3>2. PICK k \in Keys :
              /\ Goto([draft EXCEPT !.key = k, !.phase = "awaiting_confirmation"], "subgraph_gate")
              /\ cards' = [cards EXCEPT ![k] = Summary(draft)]
              /\ asked' = [asked EXCEPT ![k] = NoRequest]
        BY <1>4, <2>3, <3>1 DEF ScheduleBuildConfirm
      <3>3. Same(draft, draft') /\ draft'.key = k /\ node' = "subgraph_gate" /\ paused' = "none"
        BY <1>1, <3>2 DEF Goto, Same, FirmDrafts, Drafts
      <3>4. SummaryReady(draft)' /\ Summary(draft)' = Summary(draft) /\ Slots(draft)' = Slots(draft)
        BY <1>2, <3>1, <3>3, SlotsKept DEF identity
      <3>5. KeyBound'
        BY <1>1, <1>2, <3>1, <3>2, <3>3, <3>4 DEF KeyBound, Holding
      <3>6. CommitMatchesCard'
        BY <1>1, <1>2, <3>2 DEF CardInv, CommitMatchesCard
      <3>7. Chosen' /\ Offers' /\ GatedWasVouched'
        BY <2>2, <3>3 DEF Chosen, Offers, GatedWasVouched
      <3> QED  BY <3>5, <3>6, <3>7 DEF CardInv
    <2>4. CASE draft.key # None
      <3>1. UNCHANGED <<draft, cards, asked>> /\ node' = "subgraph_gate" /\ paused' = "none"
        BY <1>4, <2>4 DEF ScheduleBuildConfirm, Goto
      <3>2. Chosen' /\ Offers'
        BY <3>1 DEF Chosen, Offers
      <3> QED  BY <1>2, <2>1, <2>2, <3>1, <3>2, LooseCards
    <2> QED  BY <2>3, <2>4
  <1>5. ASSUME ScheduleGate \/ ScheduleGateResumed PROVE UNCHANGED <<cards, asked>>
    BY <1>5 DEF ScheduleGate, ScheduleGateResumed, history
  <1>6. CASE ScheduleGate
    <2>1. CASE draft.key = None
      <3>1. Goto(Failed(draft, "error"), "subgraph_finalize") /\ UNCHANGED told
        BY <1>6, <2>1 DEF ScheduleGate
      <3>2. draft'.key = None /\ node' = "subgraph_finalize" /\ paused' = "none"
        BY <1>1, <2>1, <3>1, FailedType DEF Goto, Actions
      <3>3. Chosen' /\ Offers'
        BY <3>2 DEF Chosen, Offers
      <3> QED  BY <1>2, <1>3, <1>5, <1>6, <3>1, <3>2, <3>3, LooseCards
    <2>2. CASE draft.key # None
      <3>1. Interrupt("subgraph_gate", Outcome("gated", cards[draft.key]))
        BY <1>6, <2>2 DEF ScheduleGate
      <3>2. /\ UNCHANGED draft /\ paused' = "subgraph_gate" /\ node' = "idle"
            /\ told'.names = cards[draft.key]
        BY <3>1 DEF Interrupt, EndTurn, Outcome
      <3>3. Same(draft, draft')
        BY <3>2 DEF Same
      <3>4. KeyBound'
        BY <1>2, <1>5, <1>6, <3>2, <3>3, SlotsKept DEF CardInv, KeyBound, identity
      <3>5. GatedWasVouched'
        <4>1. CASE dangling = {}
          <5>1. cards[draft.key] = Summary(draft) /\ Slots(draft) \in vouched
            BY <2>2, <4>1 DEF CardInv, KeyBound
          <5> QED  BY <1>2, <3>2, <5>1, SummarySlots DEF GatedWasVouched
        <4>2. CASE dangling # {}
          BY <1>2, <4>2 DEF GatedWasVouched
        <4> QED  BY <4>1, <4>2
      <3>6. Chosen' /\ Offers' /\ CommitMatchesCard'
        BY <1>2, <1>5, <1>6, <3>2 DEF CardInv, Chosen, Offers, CommitMatchesCard
      <3> QED  BY <3>4, <3>5, <3>6 DEF CardInv
    <2> QED  BY <2>1, <2>2
  <1>7. CASE ScheduleGateResumed
    <2>1. PICK d \in GateReplied(draft, msg) : Goto(d, RouteAfterGate(d))
      BY <1>7 DEF ScheduleGateResumed
    <2>2. draft' = d /\ node' = RouteAfterGate(d) /\ paused' = "none" /\ UNCHANGED told
      BY <1>7, <2>1 DEF Goto, ScheduleGateResumed
    <2>3. CASE d.phase = "committing" /\ d.key = draft.key /\ Same(draft, d)
      <3>1. node' \in Holding
        BY <2>2, <2>3 DEF RouteAfterGate, Holding
      <3>2. CommitMatchesCard'
        BY <1>2, <1>5, <1>7 DEF CardInv, CommitMatchesCard
      <3> QED  BY <1>2, <1>3, <1>5, <1>7, <2>2, <2>3, <3>1, <3>2, HeldCards
    <2>4. CASE d.phase = "collecting" /\ d.key = None
      <3>1. node' \in {"schedule_resolve", "subgraph_finalize"}
        BY <2>2, <2>4 DEF RouteAfterGate
      <3>2. Chosen' /\ Offers'
        BY <2>2, <3>1 DEF Chosen, Offers
      <3> QED  BY <1>2, <1>3, <1>5, <1>7, <2>2, <2>4, <3>2, LooseCards
    <2> QED  BY <1>1, <2>1, <2>3, <2>4, GateRepliedType
  <1> QED  BY <1>4, <1>6, <1>7

LEMMA CommitCards ==
    Types /\ FlowInv /\ CardInv /\ (ScheduleCommit \/ ScheduleCommitAnswered \/ ScheduleSuccess)
    => CardInv'
  <1> SUFFICES ASSUME Types, FlowInv, CardInv,
                      ScheduleCommit \/ ScheduleCommitAnswered \/ ScheduleSuccess
               PROVE  CardInv'
    OBVIOUS
  <1>1. /\ draft \in FirmDrafts /\ asked \in [Keys -> Requests \cup {NoRequest}] /\ node # "idle"
    BY DEF Types, TypeOK, ScheduleCommit, ScheduleCommitAnswered, ScheduleSuccess
  <1>2. UNCHANGED <<identity, cards, dangling, vouched>>
    BY DEF ScheduleCommit, ScheduleCommitAnswered, ScheduleSuccess, history, flow
  <1>3. told'.action # "gated"
    BY <1>1 DEF FlowInv, Answered, ScheduleCommit, ScheduleCommitAnswered, ScheduleSuccess
  <1>4. ASSUME UNCHANGED asked PROVE CommitMatchesCard'
    BY <1>2, <1>4 DEF CardInv, CommitMatchesCard
  <1>5. CASE ScheduleCommit
    <2>1. CASE \E o \in {"error", "handed_off"} :
                 Goto(Failed(draft, o), "subgraph_finalize") /\ UNCHANGED <<asked, idem, mine>>
      <3>1. /\ Same(draft, draft') /\ draft'.key = draft.key /\ node' = "subgraph_finalize"
            /\ paused' = "none"
        BY <1>1, <2>1, FailedType DEF Goto, Actions
      <3> QED  BY <1>2, <1>3, <1>4, <2>1, <3>1, HeldCards DEF Holding
    <2>2. CASE /\ draft.key # None
               /\ asked' = [asked EXCEPT ![draft.key] = Request(draft)]
               /\ node' = "guacuco" /\ UNCHANGED thread
      <3>1. paused = "none" /\ UNCHANGED <<draft, paused>> /\ draft.key \in Keys
        BY <1>1, <1>5, <2>2, DraftFields DEF thread, FlowInv, Waiting, ScheduleCommit, Types, TypeOK
      <3>2. Same(draft, draft')
        BY <3>1 DEF Same
      <3>3. draft.key \notin dangling => cards[draft.key] = [Request(draft) EXCEPT !.client = None]
        BY <2>2 DEF CardInv, KeyBound, Summary
      <3>4. CommitMatchesCard'
        BY <1>1, <1>2, <2>2, <3>1, <3>3 DEF CardInv, CommitMatchesCard
      <3> QED  BY <1>2, <1>3, <2>2, <3>1, <3>2, <3>4, HeldCards DEF Holding
    <2> QED  BY <1>5, <2>1, <2>2 DEF ScheduleCommit
  <1>6. CASE ScheduleCommitAnswered
    <2>1. PICK answer : Goto(Committed(draft, answer), RouteAfterCommit(Committed(draft, answer)))
      BY <1>6 DEF ScheduleCommitAnswered
    <2> DEFINE d == Committed(draft, answer)
    <2>2. /\ Same(draft, d)
          /\ \/ d.key = draft.key /\ d.phase \in {"done", "failed"}
             \/ d.key = None
      BY <1>1, CommittedType DEF Kin
    <2>3. draft' = d /\ node' = RouteAfterCommit(d) /\ paused' = "none" /\ UNCHANGED asked
      BY <1>6, <2>1 DEF Goto, ScheduleCommitAnswered
    <2> HIDE DEF d
    <2>4. CASE d.key = draft.key /\ d.phase \in {"done", "failed"}
      <3>1. node' \in Holding
        BY <2>3, <2>4 DEF RouteAfterCommit, Holding
      <3> QED  BY <1>2, <1>3, <1>4, <2>2, <2>3, <2>4, <3>1, HeldCards
    <2>5. CASE d.key = None
      <3>1. Chosen' /\ Offers'
        BY <2>3 DEF RouteAfterCommit, Chosen, Offers
      <3> QED  BY <1>2, <1>3, <2>3, <2>5, <3>1, LooseCards
    <2> QED  BY <2>2, <2>4, <2>5
  <1>7. CASE ScheduleSuccess
    <2>1. draft' = [draft EXCEPT !.terminalOutcome = Outcome("success", Request(draft))]
          /\ node' = "subgraph_finalize" /\ paused' = "none" /\ UNCHANGED asked
      BY <1>7 DEF ScheduleSuccess, Goto, history
    <2>2. Same(draft, draft') /\ draft'.key = draft.key
      BY <1>1, <2>1 DEF Same, FirmDrafts, Drafts
    <2> QED  BY <1>2, <1>3, <1>4, <2>1, <2>2, HeldCards DEF Holding
  <1> QED  BY <1>5, <1>6, <1>7

LEMMA FinalizeCards == Types /\ FlowInv /\ CardInv /\ Finalize => CardInv'
  <1> SUFFICES ASSUME Types, FlowInv, CardInv, Finalize PROVE CardInv'
    OBVIOUS
  <1>1. draft.terminalOutcome.action \in Actions /\ told' = draft.terminalOutcome
    BY DEF Types, FirmDrafts, Drafts, FlowInv, Answered, Finalize, EndTurn
  <1>2. draft'.key = None /\ node' = "idle" /\ paused' = "none"
    BY DEF Finalize, EndTurn, NoDraft
  <1>3. CommitMatchesCard'
    <2> SUFFICES ASSUME NEW k \in Keys, k \notin dangling', asked'[k] # NoRequest
                 PROVE  [asked'[k] EXCEPT !.client = None] = cards'[k]
      BY DEF CommitMatchesCard
    <2>1. idem[k].status = "in_progress" /\ asked'[k] = asked[k] /\ cards'[k] = cards[k]
      BY DEF Finalize, Kept
    <2>2. k \notin dangling
      BY <2>1 DEF Finalize
    <2> QED  BY <2>1, <2>2 DEF CardInv, CommitMatchesCard
  <1> QED  BY <1>1, <1>2, <1>3 DEF CardInv, KeyBound, Chosen, Offers, GatedWasVouched, Actions

LEMMA OutsideCards ==
    Types /\ FlowInv /\ CardInv
      /\ ((\E k \in Keys : GuacucoExecute(k)) \/ TakenElsewhere \/ Dies \/ UNCHANGED vars)
    => CardInv'
  <1> SUFFICES ASSUME Types, FlowInv, CardInv,
                      (\E k \in Keys : GuacucoExecute(k)) \/ TakenElsewhere \/ Dies \/ UNCHANGED vars
               PROVE  CardInv'
    OBVIOUS
  <1>1. CASE Dies
    <2>1. /\ UNCHANGED <<draft, paused, cards, asked, vouched>> /\ node' = "idle"
          /\ told'.action = "error" /\ dangling \subseteq dangling'
          /\ draft.key \in dangling' \cup {None}
      BY <1>1 DEF Dies, EndTurn, Outcome, thread, flow
    <2>2. Chosen' /\ Offers'
      BY <2>1 DEF CardInv, Chosen, Offers
    <2> QED  BY <2>1, <2>2, LooseCards
  <1>2. CASE (\E k \in Keys : GuacucoExecute(k)) \/ TakenElsewhere \/ UNCHANGED vars
    <2>1. UNCHANGED <<node, draft, paused, profileType, told, cards, asked, vouched, dangling>>
      BY <1>2 DEF GuacucoExecute, TakenElsewhere, vars, turn, thread, identity, history, flow
    <2>2. Same(draft, draft')
      BY <2>1 DEF Same
    <2>3. KeyBound' /\ Chosen'
      BY <2>1, <2>2, SlotsKept DEF CardInv, KeyBound, Chosen
    <2>4. Offers' /\ CommitMatchesCard' /\ GatedWasVouched'
      BY <2>1 DEF CardInv, Offers, CommitMatchesCard, GatedWasVouched
    <2> QED  BY <2>3, <2>4 DEF CardInv
  <1> QED  BY <1>1, <1>2

LEMMA CardStep == Types /\ FlowInv /\ CardInv /\ [Next]_vars => CardInv'
  BY ArriveCards, CollectCards, GateCards, CommitCards, FinalizeCards, OutsideCards
     DEF Next, TurnStep, Collect

\* What no dead turn left behind is shown before it is asked and was free before it was shown.
THEOREM CardsHold == Spec => [](Types /\ FlowInv /\ CardInv)
  BY InitTypes, TypesStep, InitFlow, FlowStep, InitCards, CardStep, PTL DEF Spec

\* Guacuco is asked to book what the gate message of the intentUuid named.
THEOREM AskedIsShown == Spec => []CommitMatchesCard
  <1>1. CardInv => CommitMatchesCard
    BY DEF CardInv
  <1> QED  BY <1>1, CardsHold, PTL

\* The gate offers what the last check called free.
THEOREM ShownWasFree == Spec => []GatedWasVouched
  <1>1. CardInv => GatedWasVouched
    BY DEF CardInv
  <1> QED  BY <1>1, CardsHold, PTL

-----------------------------------------------------------------------------
(* What is sent, done and booked.                                          *)

OkRow(k) == idem[k].status = "done" /\ idem[k].result = "ok"

\* Of the intentUuids no turn died with: a request of this flow under one given up was refused; the
\* one in the draft was sent at most once, and a success is of what was done under it.
GivenUp  == \A k \in mine \ (dangling \cup {draft.key}) :
                idem[k].status = "done" /\ idem[k].result # "ok"
SentOnce == draft.key \notin dangling =>
                /\ draft.key \in mine => node \in {"guacuco", "schedule_success", "subgraph_finalize"}
                /\ draft.key \notin mine /\ draft.key # None => idem[draft.key] = NoRow
                /\ node \in Sending => draft.key \in mine /\ asked[draft.key] = Request(draft)
Told     == draft.key \notin dangling =>
                /\ node = "schedule_success" => OkRow(draft.key)
                /\ draft.terminalOutcome.action = "success" =>
                      node = "subgraph_finalize" /\ draft.key # None
\* A success told or left behind by a turn that died closes the draft.
Closed   == draft.terminalOutcome.action = "success" => node \in Dead /\ paused = "none"
\* As long as no turn died with one, a booking is under the one in the draft, and so is the success.
Booked   == dangling = {} =>
                /\ IF draft.key \in mine /\ OkRow(draft.key) THEN booked = <<asked[draft.key]>>
                   ELSE booked = <<>>
                /\ draft.terminalOutcome.action = "success" =>
                      booked = <<draft.terminalOutcome.names>>

\* Inductive on top of CardInv.
OnceInv == GivenUp /\ SentOnce /\ Told /\ Closed /\ Booked

LEMMA NoneNotMine == Types => None \notin mine /\ None \notin dangling
  BY ConstantsOK DEF Types, TypeOK, ConstantsOK

LEMMA InitOnce == Init => OnceInv
  <1>1. NoDraft.key = None /\ NoDraft.terminalOutcome.action = "none"
    BY DEF NoDraft, NoOutcome, Outcome
  <1> QED  BY <1>1 DEF Init, OnceInv, GivenUp, SentOnce, Told, Closed, Booked, Sending

LEMMA ArriveOnce == Types /\ OnceInv /\ Arrive => OnceInv'
  <1> SUFFICES ASSUME Types, OnceInv, Arrive PROVE OnceInv'
    OBVIOUS
  <1>1. UNCHANGED <<draft, idem, asked, mine, booked, dangling>> /\ node = "idle"
    BY DEF Arrive, thread, guacuco, history, flow
  <1>2. node' \notin Sending
    BY DEF Arrive, Types, TypeOK, Sending
  <1>3. GivenUp' /\ Booked'
    BY <1>1 DEF OnceInv, GivenUp, Booked, OkRow
  <1>4. SentOnce' /\ Told'
    BY <1>1, <1>2 DEF OnceInv, SentOnce, Told, Sending
  <1>5. Closed'
    BY <1>1 DEF OnceInv, Closed, Arrive, thread, Dead
  <1> QED  BY <1>3, <1>4, <1>5 DEF OnceInv

LEMMA CollectClosed ==
    ASSUME Types, FlowInv, OnceInv, Collect
    PROVE  Closed'
  <1> SUFFICES ASSUME draft'.terminalOutcome.action = "success"
               PROVE  node' \in Dead /\ paused' = "none"
    BY DEF Closed
  <1>1. draft.terminalOutcome.action = "success"
    <2>1. \A o, q : Outcome(o, q).action = o
      BY DEF Outcome
    <2> QED  BY <2>1, CollectKeeps DEF KeepsOutcome
  <1>2. node \in Dead /\ paused = "none"
    BY <1>1 DEF OnceInv, Closed
  <1>3. CASE Supervisor
    BY <1>2, <1>3 DEF Supervisor, Goto, EndTurn, thread, Dead
  <1>4. CASE ScheduleEntry
    BY <1>4 DEF ScheduleEntry, Goto, Dead
  <1>5. CASE ScheduleResolve
    <2>1. ~IsActiveDraft(draft')
      BY DEF IsActiveDraft, NoOutcome, Outcome
    <2> QED  BY <1>5, <2>1 DEF ScheduleResolve, Goto, RouteAfterResolve, Dead
  <1> QED  BY <1>2, <1>3, <1>4, <1>5
           DEF Collect, Dead, ScheduleAskSlot, ScheduleAskSlotResumed, ScheduleValidate,
               SchedulePresent, SchedulePresentResumed

LEMMA CollectOnce == Types /\ FlowInv /\ CardInv /\ OnceInv /\ Collect => OnceInv'
  <1> SUFFICES ASSUME Types, FlowInv, CardInv, OnceInv, Collect PROVE OnceInv'
    OBVIOUS
  <1>1. /\ draft'.key = draft.key /\ KeepsOutcome(draft')
        /\ node \notin Holding \cup {"idle"} /\ node' \in Before
        /\ UNCHANGED <<idem, asked, mine, booked, dangling>>
    BY CollectKeeps, CollectQuiet DEF guacuco
  <1>2. draft.key \in dangling \cup {None}
    BY <1>1 DEF CardInv, KeyBound
  <1>3. draft.key \notin dangling => draft'.terminalOutcome.action # "success"
    <2> SUFFICES ASSUME draft.key \notin dangling PROVE draft'.terminalOutcome.action # "success"
      OBVIOUS
    <2>1. draft.terminalOutcome.action # "success"
      BY <1>1 DEF OnceInv, Told, Holding
    <2>2. \A o, q : Outcome(o, q).action = o
      BY DEF Outcome
    <2> QED  BY <1>1, <2>1, <2>2 DEF KeepsOutcome
  <1>4. node' \notin Sending /\ None \notin mine
    BY <1>1, NoneNotMine DEF Before, Sending
  <1>5. GivenUp' /\ SentOnce' /\ Told'
    BY <1>1, <1>2, <1>3, <1>4 DEF OnceInv, GivenUp, SentOnce, Told, Sending
  <1>6. Booked'
    BY <1>1, <1>2, <1>3, <1>4 DEF OnceInv, Booked
  <1> QED  BY <1>5, <1>6, CollectClosed DEF OnceInv

LEMMA GateOnce ==
    Types /\ FlowInv /\ CardInv /\ OnceInv
      /\ (ScheduleBuildConfirm \/ ScheduleGate \/ ScheduleGateResumed)
    => OnceInv'
  <1> SUFFICES ASSUME Types, FlowInv, CardInv, OnceInv,
                      ScheduleBuildConfirm \/ ScheduleGate \/ ScheduleGateResumed
               PROVE  OnceInv'
    OBVIOUS
  <1>1. /\ draft \in FirmDrafts /\ idem \in [Keys -> IdemRows] /\ mine \subseteq Keys
        /\ node \in {"schedule_build_confirm", "subgraph_gate"}
        /\ None \notin mine /\ None \notin dangling
    BY NoneNotMine DEF Types, TypeOK, ScheduleBuildConfirm, ScheduleGate, ScheduleGateResumed
  <1>2. UNCHANGED <<booked, dangling>>
    BY DEF ScheduleBuildConfirm, ScheduleGate, ScheduleGateResumed, history, flow
  <1>3. draft.key \notin dangling => draft.key \notin mine
    BY <1>1 DEF OnceInv, SentOnce
  <1>4. dangling = {} => booked = <<>>
    BY <1>3 DEF OnceInv, Booked
  <1>5. draft.terminalOutcome.action # "success"
    BY <1>1 DEF OnceInv, Closed, Dead
  <1>6. CASE /\ draft.key = None
             /\ \E k \in Keys :
                  /\ Goto([draft EXCEPT !.key = k, !.phase = "awaiting_confirmation"],
                          "subgraph_gate")
                  /\ idem' = [idem EXCEPT ![k] = NoRow]
                  /\ mine' = mine \ {k}
    <2>1. PICK k \in Keys :
            /\ Goto([draft EXCEPT !.key = k, !.phase = "awaiting_confirmation"], "subgraph_gate")
            /\ idem' = [idem EXCEPT ![k] = NoRow]
            /\ mine' = mine \ {k}
      BY <1>6
    <2>2. /\ draft'.key = k /\ draft'.terminalOutcome = draft.terminalOutcome
          /\ node' = "subgraph_gate"
      BY <1>1, <2>1 DEF Goto, FirmDrafts, Drafts
    <2>3. GivenUp'
      BY <1>1, <1>2, <1>6, <2>1, <2>2 DEF OnceInv, GivenUp
    <2>4. SentOnce'
      BY <1>1, <2>1, <2>2 DEF SentOnce, Sending
    <2>5. Told' /\ Closed' /\ Booked'
      BY <1>2, <1>4, <1>5, <2>1, <2>2 DEF Told, Closed, Booked
    <2> QED  BY <2>3, <2>4, <2>5 DEF OnceInv
  <1>7. CASE /\ UNCHANGED <<idem, asked, mine>> /\ node' \notin Sending
             /\ draft'.key \in {draft.key, None}
             /\ draft'.terminalOutcome.action # "success"
    <2>1. draft'.key \notin dangling => draft'.key \notin mine
      BY <1>1, <1>3, <1>7
    <2>2. GivenUp'
      BY <1>2, <1>3, <1>7 DEF OnceInv, GivenUp
    <2>3. SentOnce'
      BY <1>1, <1>2, <1>3, <1>7, <2>1 DEF OnceInv, SentOnce
    <2>4. Told' /\ Closed' /\ Booked'
      BY <1>2, <1>4, <1>7, <2>1 DEF Told, Closed, Booked, Sending
    <2> QED  BY <2>2, <2>3, <2>4 DEF OnceInv
  <1>8. CASE ScheduleBuildConfirm
    <2>1. draft.key = None => SummaryReady(draft)
      BY <1>8 DEF CardInv, Chosen, ScheduleBuildConfirm
    <2>2. CASE draft.key = None
      BY <1>6, <1>8, <2>1, <2>2 DEF ScheduleBuildConfirm
    <2>3. CASE draft.key # None
      BY <1>5, <1>7, <1>8, <2>3 DEF ScheduleBuildConfirm, Goto, Sending
    <2> QED  BY <2>2, <2>3
  <1>9. CASE ScheduleGate \/ ScheduleGateResumed
    <2>1. UNCHANGED <<idem, asked, mine>>
      BY <1>9 DEF ScheduleGate, ScheduleGateResumed, history, flow, guacuco
    <2>2. /\ draft'.key \in {draft.key, None} /\ node' \notin Sending
          /\ draft'.terminalOutcome.action # "success"
      <3>1. CASE Goto(Failed(draft, "error"), "subgraph_finalize")
        BY <1>1, <3>1, FailedType DEF Goto, Sending, Actions, Outcome
      <3>2. CASE Interrupt("subgraph_gate", Outcome("gated", cards[draft.key]))
        BY <1>5, <3>2 DEF Interrupt, EndTurn, Sending
      <3>3. CASE ScheduleGateResumed
        <4>1. PICK d \in GateReplied(draft, msg) : Goto(d, RouteAfterGate(d))
          BY <3>3 DEF ScheduleGateResumed
        <4>2. d.key \in {draft.key, None} /\ d.terminalOutcome = draft.terminalOutcome
          BY <1>1, GateRepliedType
        <4>3. draft' = d /\ node' \notin Sending
          BY <4>1 DEF Goto, RouteAfterGate, Sending
        <4> QED  BY <1>5, <4>2, <4>3
      <3> QED  BY <1>9, <3>1, <3>2, <3>3 DEF ScheduleGate
    <2> QED  BY <1>7, <2>1, <2>2
  <1> QED  BY <1>8, <1>9

LEMMA CommitOnce == Types /\ FlowInv /\ CardInv /\ OnceInv /\ ScheduleCommit => OnceInv'
  <1> SUFFICES ASSUME Types, FlowInv, CardInv, OnceInv, ScheduleCommit PROVE OnceInv'
    OBVIOUS
  <1>1. /\ draft \in FirmDrafts /\ idem \in [Keys -> IdemRows] /\ None \notin mine
        /\ asked \in [Keys -> Requests \cup {NoRequest}] /\ node = "schedule_commit"
    BY NoneNotMine DEF Types, TypeOK, ScheduleCommit
  <1>2. UNCHANGED <<booked, dangling, identity>>
    BY DEF ScheduleCommit
  <1>3. /\ draft.key \notin dangling =>
              draft.key \notin mine /\ (draft.key # None => idem[draft.key] = NoRow)
        /\ draft.terminalOutcome.action # "success"
    BY <1>1 DEF OnceInv, SentOnce, Closed, Dead
  <1>4. dangling = {} => booked = <<>>
    BY <1>3 DEF OnceInv, Booked
  <1>5. CASE \E o \in {"error", "handed_off"} :
               Goto(Failed(draft, o), "subgraph_finalize") /\ UNCHANGED <<asked, idem, mine>>
    <2>1. /\ draft'.key = draft.key /\ node' = "subgraph_finalize"
          /\ draft'.terminalOutcome.action # "success"
      BY <1>1, <1>5, FailedType DEF Goto, Actions, Outcome
    <2>2. GivenUp' /\ SentOnce'
      BY <1>2, <1>3, <1>5, <2>1 DEF OnceInv, GivenUp, SentOnce, Sending
    <2>3. Told' /\ Closed' /\ Booked'
      BY <1>2, <1>3, <1>4, <1>5, <2>1 DEF Told, Closed, Booked
    <2> QED  BY <2>2, <2>3 DEF OnceInv
  <1>6. CASE /\ draft.key # None
             /\ asked' = [asked EXCEPT ![draft.key] = Request(draft)]
             /\ mine' = mine \cup {draft.key}
             /\ node' = "guacuco" /\ UNCHANGED thread
             /\ UNCHANGED idem \/ idem' = [idem EXCEPT ![draft.key].status = "in_progress"]
    <2>1. draft.key \in Keys /\ UNCHANGED draft
      BY <1>1, <1>6, DraftFields DEF thread
    <2>2. \A k \in Keys \ {draft.key} : idem'[k] = idem[k]
      BY <1>1, <1>6, <2>1
    <2>3. draft.key \notin dangling => idem'[draft.key].status # "done"
      BY <1>1, <1>3, <1>6, <2>1 DEF NoRow, IdemRows
    <2>4. GivenUp'
      BY <1>2, <1>6, <2>1, <2>2 DEF OnceInv, GivenUp, Types, TypeOK
    <2>5. SentOnce'
      <3>1. Request(draft)' = Request(draft)
        BY <1>2, <2>1 DEF Request, identity
      <3> QED  BY <1>1, <1>6, <2>1, <3>1 DEF SentOnce
    <2>6. Told' /\ Closed'
      BY <1>3, <1>6, <2>1 DEF Told, Closed
    <2>7. Booked'
      BY <1>2, <1>3, <1>4, <2>1, <2>3 DEF Booked, OkRow
    <2> QED  BY <2>4, <2>5, <2>6, <2>7 DEF OnceInv
  <1> QED  BY <1>5, <1>6 DEF ScheduleCommit

LEMMA AnsweredOnce == Types /\ FlowInv /\ OnceInv /\ ScheduleCommitAnswered => OnceInv'
  <1> SUFFICES ASSUME Types, FlowInv, OnceInv, ScheduleCommitAnswered PROVE OnceInv'
    OBVIOUS
  <1>1. draft \in FirmDrafts /\ node = "guacuco" /\ None \notin mine /\ idem \in [Keys -> IdemRows]
        /\ draft.key \in Keys
    BY NoneNotMine DEF Types, ScheduleCommitAnswered, Sending
  <1>2. UNCHANGED <<idem, asked, mine, booked, dangling, identity>>
    BY DEF ScheduleCommitAnswered, guacuco
  <1>3. /\ draft.key \notin dangling =>
              draft.key \in mine /\ asked[draft.key] = Request(draft)
        /\ draft.terminalOutcome.action # "success" /\ GivenUp /\ Booked
    BY <1>1 DEF OnceInv, SentOnce, Closed, Sending, Dead
  <1>4. PICK answer \in Answers(draft.key) :
          Goto(Committed(draft, answer), RouteAfterCommit(Committed(draft, answer)))
    BY DEF ScheduleCommitAnswered
  <1> DEFINE d == Committed(draft, answer)
  <1>5. /\ Same(draft, d)
        /\ \/ /\ answer = "ok" /\ d.key = draft.key /\ d.terminalOutcome = draft.terminalOutcome
              /\ d.phase = "done"
           \/ /\ answer = "STAFF_NOT_AVAILABLE" /\ d.key = None
              /\ d.phase = "validating_availability" /\ d.terminalOutcome = draft.terminalOutcome
           \/ /\ d.key = draft.key /\ d.phase = "failed"
              /\ \E o \in {"error", "handed_off"} : d.terminalOutcome = Outcome(o, NoRequest)
    <2>1. draft \in FirmDrafts
      BY <1>1
    <2> HIDE DEF d
    <2>2. /\ Same(draft, d)
          /\ \/ answer = "ok" /\ Kin(draft, d) /\ d.phase = "done"
             \/ /\ answer = "STAFF_NOT_AVAILABLE" /\ ~draft.retried
                /\ d.key = None /\ d.retried = TRUE /\ d.phase = "validating_availability"
                /\ d.terminalOutcome = draft.terminalOutcome
             \/ /\ answer # "ok" /\ (answer = "STAFF_NOT_AVAILABLE" => draft.retried)
                /\ d.key = draft.key /\ d.retried = draft.retried /\ d.phase = "failed"
                /\ \E o \in {"error", "handed_off"} : d.terminalOutcome = Outcome(o, NoRequest)
      BY <2>1, CommittedType DEF d
    <2> QED  BY <2>2 DEF Kin
  <1>6. draft' = d /\ node' = RouteAfterCommit(d)
    BY <1>4 DEF Goto
  <1> HIDE DEF d
  <1>7. Request(draft)' = Request(d) /\ Request(d) = Request(draft)
    BY <1>2, <1>5, <1>6, CompleteKept DEF Request, identity
  <1>8. d.terminalOutcome.action # "success"
    <2>1. \A o, q : Outcome(o, q).action = o
      BY DEF Outcome
    <2> QED  BY <1>3, <1>5, <2>1
  <1>9. CASE d.key = draft.key
    <2>1. node' \in {"schedule_success", "subgraph_finalize"}
      <3>1. d.key # None
        BY <1>1, <1>9, ConstantsOK DEF ConstantsOK
      <3> QED  BY <1>5, <1>6, <3>1 DEF RouteAfterCommit, IsActiveDraft
    <2>2. node' = "schedule_success" => answer = "ok"
      BY <1>5, <1>6, <1>9 DEF RouteAfterCommit, IsActiveDraft
    <2>3. answer = "ok" => OkRow(draft.key)
      BY <1>1 DEF Answers, OkRow, IdemRows
    <2>4. SentOnce'
      BY <1>2, <1>3, <1>6, <1>7, <1>9, <2>1 DEF SentOnce, Sending
    <2>5. GivenUp' /\ Booked'
      BY <1>2, <1>3, <1>6, <1>8, <1>9 DEF GivenUp, Booked, OkRow
    <2>6. Told' /\ Closed'
      BY <1>2, <1>6, <1>8, <1>9, <2>2, <2>3 DEF Told, Closed, OkRow
    <2> QED  BY <2>4, <2>5, <2>6 DEF OnceInv
  <1>10. CASE d.key # draft.key
    <2>1. answer = "STAFF_NOT_AVAILABLE" /\ d.key = None /\ d.phase = "validating_availability"
      BY <1>5, <1>10
    <2>2. idem[draft.key].status = "done" /\ idem[draft.key].result = "STAFF_NOT_AVAILABLE"
      BY <1>1, <2>1 DEF Answers
    <2>3. node' \notin Sending
      BY <1>6, <2>1 DEF RouteAfterCommit, Sending
    <2>4. GivenUp'
      BY <1>2, <1>3, <1>6, <2>1, <2>2 DEF GivenUp
    <2>5. Booked'
      BY <1>1, <1>2, <1>3, <1>6, <1>8, <2>1, <2>2 DEF Booked, OkRow
    <2>6. SentOnce' /\ Told' /\ Closed'
      BY <1>1, <1>2, <1>6, <1>8, <2>1, <2>3 DEF SentOnce, Told, Closed, Sending
    <2> QED  BY <2>4, <2>5, <2>6 DEF OnceInv
  <1> QED  BY <1>9, <1>10

LEMMA SuccessOnce == Types /\ OnceInv /\ ScheduleSuccess => OnceInv'
  <1> SUFFICES ASSUME Types, OnceInv, ScheduleSuccess PROVE OnceInv'
    OBVIOUS
  <1>1. draft \in FirmDrafts /\ node = "schedule_success" /\ draft.key \in Keys /\ draft.key # None
    BY ConstantsOK DEF Types, ScheduleSuccess, Sending, ConstantsOK
  <1>2. UNCHANGED <<idem, asked, mine, booked, dangling, identity>>
    BY DEF ScheduleSuccess, history, flow, guacuco
  <1>3. draft.key \notin dangling =>
            draft.key \in mine /\ asked[draft.key] = Request(draft) /\ OkRow(draft.key)
    BY <1>1 DEF OnceInv, SentOnce, Told, Sending
  <1>4. dangling = {} => booked = <<Request(draft)>>
    BY <1>3 DEF OnceInv, Booked
  <1>5. /\ draft'.key = draft.key /\ node' = "subgraph_finalize" /\ paused' = "none"
        /\ draft'.terminalOutcome = Outcome("success", Request(draft))
    BY <1>1 DEF ScheduleSuccess, Goto, FirmDrafts, Drafts
  <1>6. draft'.terminalOutcome.names = Request(draft)
    BY <1>5 DEF Outcome
  <1>7. GivenUp' /\ Told' /\ Closed'
    BY <1>1, <1>2, <1>5 DEF OnceInv, GivenUp, Told, Closed, Dead
  <1>8. SentOnce'
    BY <1>2, <1>3, <1>5 DEF SentOnce, Sending
  <1>9. Booked'
    BY <1>2, <1>3, <1>4, <1>5, <1>6 DEF Booked, OkRow
  <1> QED  BY <1>7, <1>8, <1>9 DEF OnceInv

LEMMA FinalizeOnce == Types /\ Finalize => OnceInv'
  <1> SUFFICES ASSUME Types, Finalize PROVE OnceInv'
    OBVIOUS
  <1>1. draft'.key = None /\ draft'.terminalOutcome.action # "success" /\ node' = "idle"
        /\ mine' = {} /\ booked' = <<>>
    BY DEF Finalize, EndTurn, NoDraft, NoOutcome, Outcome
  <1> QED  BY <1>1 DEF OnceInv, GivenUp, SentOnce, Told, Closed, Booked, Sending

LEMMA OutsideOnce ==
    Types /\ FlowInv /\ OnceInv
      /\ ((\E k \in Keys : GuacucoExecute(k)) \/ TakenElsewhere \/ Dies \/ UNCHANGED vars)
    => OnceInv'
  <1> SUFFICES ASSUME Types, OnceInv,
                      (\E k \in Keys : GuacucoExecute(k)) \/ TakenElsewhere \/ Dies \/ UNCHANGED vars
               PROVE  OnceInv'
    OBVIOUS
  <1>1. CASE Dies
    <2>1. /\ UNCHANGED <<draft, paused, idem, asked, mine, booked>> /\ node' = "idle" /\ node # "idle"
          /\ dangling' = IF draft.key = None THEN dangling ELSE dangling \cup {draft.key}
      BY <1>1 DEF Dies, EndTurn, thread, guacuco, flow
    <2>2. GivenUp'
      BY <2>1 DEF OnceInv, GivenUp
    <2>3. SentOnce'
      BY <2>1, NoneNotMine DEF SentOnce, Sending
    <2>4. Told'
      BY <2>1, NoneNotMine DEF OnceInv, Told
    <2>5. Closed'
      BY <2>1 DEF OnceInv, Closed, Dead
    <2>6. Booked'
      <3>1. dangling' = {} => dangling = {}
        BY <2>1
      <3> QED  BY <2>1, <3>1 DEF OnceInv, Booked, OkRow
    <2> QED  BY <2>2, <2>3, <2>4, <2>5, <2>6 DEF OnceInv
  <1>2. CASE TakenElsewhere \/ UNCHANGED vars
    <2>1. UNCHANGED <<node, paused, draft, profileType, idem, asked, mine, booked, dangling>>
      BY <1>2 DEF TakenElsewhere, vars, turn, thread, identity, guacuco, history, flow
    <2>2. GivenUp' /\ Told' /\ Closed' /\ Booked'
      BY <2>1 DEF OnceInv, GivenUp, Told, Closed, Booked, OkRow
    <2>3. SentOnce'
      BY <2>1 DEF OnceInv, SentOnce, Request
    <2> QED  BY <2>2, <2>3 DEF OnceInv
  <1>3. CASE \E k \in Keys : GuacucoExecute(k)
    <2>1. PICK k \in Keys : GuacucoExecute(k)
      BY <1>3
    <2>2. PICK res :
            /\ idem[k].status = "in_progress"
            /\ idem' = [idem EXCEPT ![k] = [status |-> "done", result |-> res]]
            /\ booked' = IF res = "ok" /\ k \in mine THEN Append(booked, asked[k]) ELSE booked
      BY <2>1 DEF GuacucoExecute
    <2>3. UNCHANGED <<node, paused, draft, profileType, asked, mine, dangling>>
      BY <2>1 DEF GuacucoExecute, turn, thread, identity
    <2>4. idem \in [Keys -> IdemRows] /\ mine \subseteq Keys /\ draft.key \in Keys \cup {None}
          /\ None \notin Keys
      BY DraftFields, ConstantsOK DEF Types, TypeOK, ConstantsOK
    <2>5. /\ idem'[k] = [status |-> "done", result |-> res]
          /\ \A j \in Keys \ {k} : idem'[j] = idem[j]
      BY <2>2, <2>4
    <2>6. k \in mine \ dangling => k = draft.key
      BY <2>2 DEF OnceInv, GivenUp
    <2>7. GivenUp'
      BY <2>3, <2>4, <2>5, <2>6 DEF OnceInv, GivenUp
    <2>8. SentOnce'
      <3>1. draft.key \notin mine \cup dangling /\ draft.key # None => k # draft.key
        BY <2>2 DEF OnceInv, SentOnce, NoRow
      <3> QED  BY <2>3, <2>4, <2>5, <3>1 DEF OnceInv, SentOnce, Request
    <2>9. Told' /\ Closed'
      <3>1. draft.key \notin dangling /\ node = "schedule_success" => k # draft.key
        BY <2>2 DEF OnceInv, Told, OkRow
      <3>2. node = "schedule_success" => draft.key \in Keys
        BY DEF Types, Sending
      <3> QED  BY <2>3, <2>5, <3>1, <3>2 DEF OnceInv, Told, Closed, OkRow
    <2>10. CASE dangling # {}
      BY <2>3, <2>7, <2>8, <2>9, <2>10 DEF OnceInv, Booked
    <2>11. CASE dangling = {} /\ k \in mine
      <3>1. k = draft.key /\ ~OkRow(k) /\ booked = <<>>
        BY <2>2, <2>6, <2>11 DEF OkRow, OnceInv, Booked
      <3>2. OkRow(k)' <=> res = "ok"
        BY <2>5 DEF OkRow
      <3>3. booked' = IF res = "ok" THEN <<asked[k]>> ELSE <<>>
        BY <2>2, <2>11, <3>1
      <3>4. draft.terminalOutcome.action # "success"
        BY <2>11, <3>1 DEF OnceInv, Booked
      <3>5. Booked'
        BY <2>3, <2>11, <3>1, <3>2, <3>3, <3>4 DEF Booked
      <3> QED  BY <2>7, <2>8, <2>9, <3>5 DEF OnceInv
    <2>12. CASE dangling = {} /\ k \notin mine
      <3>1. booked' = booked
        BY <2>2, <2>12
      <3>2. draft.key \in mine => OkRow(draft.key)' = OkRow(draft.key)
        BY <2>3, <2>4, <2>5, <2>12 DEF OkRow
      <3>3. Booked'
        BY <2>3, <3>1, <3>2 DEF OnceInv, Booked
      <3> QED  BY <2>7, <2>8, <2>9, <3>3 DEF OnceInv
    <2> QED  BY <2>10, <2>11, <2>12
  <1> QED  BY <1>1, <1>2, <1>3

LEMMA OnceStep == Types /\ FlowInv /\ CardInv /\ OnceInv /\ [Next]_vars => OnceInv'
  BY ArriveOnce, CollectOnce, GateOnce, CommitOnce, AnsweredOnce, SuccessOnce, FinalizeOnce,
     OutsideOnce DEF Next, TurnStep, Collect

\* What this flow booked is what it asked under the intentUuid in its draft, once.
THEOREM OnceHolds == Spec => [](Types /\ FlowInv /\ CardInv /\ OnceInv)
  BY InitTypes, TypesStep, InitFlow, FlowStep, InitCards, CardStep, InitOnce, OnceStep, PTL DEF Spec

\* As long as the user withdrew no intentUuid already sent, whatever died: every request of this
\* flow but the one in the draft was refused, and only that one may have booked.
Single == ~withdrawn =>
              /\ \A k \in mine \ {draft.key} : idem[k].status = "done" /\ idem[k].result # "ok"
              /\ booked = <<>> \/ (Len(booked) = 1 /\ draft.key \in mine /\ OkRow(draft.key))
AtHand == /\ draft.key \notin mine \cup {None} => idem[draft.key] = NoRow
          /\ node = "guacuco" => draft.key \in mine

\* Inductive on top of the types and FlowInv alone.
SingleInv == Single /\ AtHand

LEMMA InitSingle == Init => SingleInv
  <1>1. NoDraft.key = None
    BY DEF NoDraft
  <1> QED  BY <1>1 DEF Init, SingleInv, Single, AtHand

\* Steps that change neither the key, nor what was sent under any, nor what was booked.
LEMMA IdleSingle ==
    ASSUME SingleInv, node' # "guacuco", draft'.key = draft.key,
           UNCHANGED <<idem, mine, booked, withdrawn>>
    PROVE  SingleInv'
  BY DEF SingleInv, Single, AtHand, OkRow

LEMMA GateSingle ==
    ASSUME Types, FlowInv, CardInv, SingleInv,
           ScheduleBuildConfirm \/ ScheduleGate \/ ScheduleGateResumed
    PROVE  SingleInv'
  <1>1. draft \in FirmDrafts /\ idem \in [Keys -> IdemRows] /\ None \notin mine
    BY NoneNotMine DEF Types, TypeOK
  <1>2. CASE ScheduleBuildConfirm
    <2>1. CASE draft.key = None
      <3>1. SummaryReady(draft)
        BY <1>2, <2>1 DEF CardInv, Chosen, ScheduleBuildConfirm
      <3>2. PICK k \in Keys :
              /\ Goto([draft EXCEPT !.key = k, !.phase = "awaiting_confirmation"], "subgraph_gate")
              /\ idem' = [idem EXCEPT ![k] = NoRow]
              /\ mine' = mine \ {k}
        BY <1>2, <2>1, <3>1 DEF ScheduleBuildConfirm
      <3>3. draft'.key = k /\ node' = "subgraph_gate" /\ UNCHANGED <<booked, withdrawn>>
        BY <1>1, <1>2, <3>2 DEF Goto, FirmDrafts, Drafts, ScheduleBuildConfirm
      <3>4. idem'[k] = NoRow /\ \A j \in mine' : idem'[j] = idem[j]
        BY <1>1, <3>2 DEF Types, TypeOK
      <3>5. ~withdrawn => booked = <<>>
        BY <1>1, <2>1 DEF SingleInv, Single
      <3>6. Single'
        BY <1>1, <2>1, <3>2, <3>3, <3>4, <3>5 DEF SingleInv, Single
      <3>7. AtHand'
        BY <3>3, <3>4 DEF AtHand
      <3> QED  BY <3>6, <3>7 DEF SingleInv
    <2>2. CASE draft.key # None
      BY <1>2, <2>2, IdleSingle DEF ScheduleBuildConfirm, Goto
    <2> QED  BY <2>1, <2>2
  <1>3. CASE ScheduleGate
    <2>1. UNCHANGED <<idem, mine, booked, withdrawn>> /\ node' # "guacuco"
      BY <1>3 DEF ScheduleGate, guacuco, history, flow, Goto, Interrupt, EndTurn
    <2>2. Failed(draft, "error").key = draft.key
      BY <1>1, FailedType DEF Actions
    <2>3. draft'.key = draft.key
      BY <1>3, <2>2 DEF ScheduleGate, Goto, Interrupt
    <2> QED  BY <2>1, <2>3, IdleSingle
  <1>4. CASE ScheduleGateResumed
    <2>1. PICK d \in GateReplied(draft, msg) :
            /\ Goto(d, RouteAfterGate(d))
            /\ withdrawn' = (withdrawn \/ (draft.key \in mine /\ d.key = None))
      BY <1>4 DEF ScheduleGateResumed
    <2>2. d.key \in {draft.key, None}
      BY <1>1, GateRepliedType
    <2>3. draft' = d /\ node' # "guacuco" /\ UNCHANGED <<idem, mine, booked>>
      BY <1>4, <2>1 DEF Goto, RouteAfterGate, ScheduleGateResumed, guacuco
    <2>4. CASE d.key = draft.key /\ d.key # None
      <3>1. ~withdrawn' => ~withdrawn
        BY <2>1, Zenon
      <3> QED  BY <2>1, <2>3, <2>4, <3>1 DEF SingleInv, Single, AtHand, OkRow
    <2>5. CASE d.key = None
      <3>1. ~withdrawn' => ~withdrawn /\ draft.key \notin mine
        BY <2>1, <2>5
      <3>2. Single'
        BY <2>3, <2>5, <3>1 DEF SingleInv, Single
      <3>3. AtHand'
        BY <2>3, <2>5 DEF AtHand
      <3> QED  BY <3>2, <3>3 DEF SingleInv
    <2> QED  BY <2>2, <2>4, <2>5
  <1> QED  BY <1>2, <1>3, <1>4

LEMMA CommitSingle ==
    ASSUME Types, SingleInv, ScheduleCommit
    PROVE  SingleInv'
  <1>1. /\ draft \in FirmDrafts /\ idem \in [Keys -> IdemRows] /\ None \notin mine
        /\ UNCHANGED <<booked, withdrawn>>
    BY NoneNotMine DEF Types, TypeOK, ScheduleCommit
  <1>2. CASE \E o \in {"error", "handed_off"} :
               Goto(Failed(draft, o), "subgraph_finalize") /\ UNCHANGED <<idem, mine>>
    <2>1. draft'.key = draft.key /\ node' # "guacuco"
      BY <1>1, <1>2, FailedType DEF Goto, Actions
    <2> QED  BY <1>1, <1>2, <2>1, IdleSingle
  <1>3. CASE /\ draft.key # None
             /\ mine' = mine \cup {draft.key} /\ UNCHANGED thread
             /\ \/ UNCHANGED idem
                \/ /\ idem[draft.key].status = "none"
                   /\ idem' = [idem EXCEPT ![draft.key].status = "in_progress"]
    <2>1. draft.key \in Keys /\ UNCHANGED draft
      BY <1>1, <1>3, DraftFields DEF thread
    <2>2. \A k \in Keys \ {draft.key} : idem'[k] = idem[k]
      BY <1>1, <1>3, <2>1
    <2>3. OkRow(draft.key) => OkRow(draft.key)'
      BY <1>1, <1>3, <2>1 DEF OkRow
    <2>4. Single'
      BY <1>1, <1>3, <2>1, <2>2, <2>3 DEF SingleInv, Single, Types, TypeOK
    <2>5. AtHand'
      BY <1>3, <2>1 DEF AtHand
    <2> QED  BY <2>4, <2>5 DEF SingleInv
  <1> QED  BY <1>2, <1>3 DEF ScheduleCommit

LEMMA AnsweredSingle ==
    ASSUME Types, SingleInv, ScheduleCommitAnswered
    PROVE  SingleInv'
  <1>1. /\ draft \in FirmDrafts /\ node = "guacuco" /\ None \notin mine
        /\ idem \in [Keys -> IdemRows] /\ draft.key \in Keys
        /\ UNCHANGED <<idem, mine, booked, withdrawn>>
    BY NoneNotMine DEF Types, ScheduleCommitAnswered, Sending, guacuco
  <1>2. PICK answer \in Answers(draft.key) :
          Goto(Committed(draft, answer), RouteAfterCommit(Committed(draft, answer)))
    BY DEF ScheduleCommitAnswered
  <1>3. draft'.key = draft.key \/ (answer = "STAFF_NOT_AVAILABLE" /\ draft'.key = None)
    BY <1>1, <1>2, CommittedType DEF Goto, Kin
  <1>4. node' # "guacuco"
    BY <1>2 DEF Goto, RouteAfterCommit
  <1>5. CASE draft'.key = draft.key
    BY <1>1, <1>4, <1>5, IdleSingle
  <1>6. CASE answer = "STAFF_NOT_AVAILABLE" /\ draft'.key = None
    <2>1. idem[draft.key].status = "done" /\ idem[draft.key].result # "ok"
      BY <1>1, <1>2, <1>6 DEF Answers, IdemRows
    <2>2. Single'
      BY <1>1, <1>6, <2>1 DEF SingleInv, Single, OkRow
    <2>3. AtHand'
      BY <1>4, <1>6 DEF AtHand
    <2> QED  BY <2>2, <2>3 DEF SingleInv
  <1> QED  BY <1>3, <1>5, <1>6

LEMMA ExecuteSingle ==
    ASSUME Types, SingleInv, NEW k \in Keys, GuacucoExecute(k)
    PROVE  SingleInv'
  <1>1. PICK res :
          /\ idem[k].status = "in_progress"
          /\ idem' = [idem EXCEPT ![k] = [status |-> "done", result |-> res]]
          /\ booked' = IF res = "ok" /\ k \in mine THEN Append(booked, asked[k]) ELSE booked
    BY DEF GuacucoExecute
  <1>2. UNCHANGED <<node, draft, mine, withdrawn>>
    BY DEF GuacucoExecute, turn, thread
  <1>3. idem \in [Keys -> IdemRows] /\ mine \subseteq Keys /\ draft.key \in Keys \cup {None}
        /\ None \notin Keys
    BY DraftFields, ConstantsOK DEF Types, TypeOK, ConstantsOK
  <1>4. /\ idem'[k] = [status |-> "done", result |-> res]
        /\ \A j \in Keys \ {k} : idem'[j] = idem[j]
    BY <1>1, <1>3
  <1>5. ~withdrawn /\ k \in mine => k = draft.key /\ booked = <<>>
    BY <1>1 DEF SingleInv, Single, OkRow
  <1>6. draft.key \notin mine \cup {None} => k # draft.key
    BY <1>1 DEF SingleInv, AtHand, NoRow
  <1>7. AtHand'
    BY <1>2, <1>3, <1>4, <1>6 DEF SingleInv, AtHand
  <1>8. ASSUME ~withdrawn' PROVE Single'
    <2>1. \A q : Len(Append(<<>>, q)) = 1
      OBVIOUS
    <2>2. \A j \in mine \ {draft.key} : idem'[j].status = "done" /\ idem'[j].result # "ok"
      BY <1>2, <1>3, <1>4, <1>5, <1>8 DEF SingleInv, Single
    <2>3. CASE k \in mine /\ res = "ok"
      <3>1. Len(booked') = 1 /\ OkRow(draft.key)'
        BY <1>1, <1>2, <1>4, <1>5, <1>8, <2>1, <2>3 DEF OkRow
      <3> QED  BY <1>2, <1>5, <1>8, <2>2, <2>3, <3>1 DEF Single
    <2>4. CASE k \in mine /\ res # "ok"
      BY <1>1, <1>2, <1>5, <1>8, <2>2, <2>4 DEF Single
    <2>5. CASE k \notin mine
      <3>1. draft.key \in mine => OkRow(draft.key)' = OkRow(draft.key)
        BY <1>2, <1>3, <1>4, <2>5 DEF OkRow
      <3> QED  BY <1>1, <1>2, <1>8, <2>2, <2>5, <3>1 DEF SingleInv, Single
    <2> QED  BY <2>3, <2>4, <2>5
  <1>9. Single'
    BY <1>8 DEF Single
  <1> QED  BY <1>7, <1>9 DEF SingleInv

LEMMA SingleStep == Types /\ FlowInv /\ CardInv /\ SingleInv /\ [Next]_vars => SingleInv'
  <1> SUFFICES ASSUME Types, FlowInv, CardInv, SingleInv, [Next]_vars PROVE SingleInv'
    OBVIOUS
  <1>1. CASE Arrive
    <2>1. node' # "guacuco"
      BY <1>1 DEF Arrive, Types, TypeOK
    <2> QED  BY <1>1, <2>1, IdleSingle DEF Arrive, thread, guacuco, history, flow
  <1>2. CASE Collect
    BY <1>2, CollectKeeps, CollectQuiet, IdleSingle DEF guacuco, Before
  <1>3. CASE ScheduleSuccess
    <2>1. draft'.key = draft.key
      BY <1>3 DEF ScheduleSuccess, Goto, Types, FirmDrafts, Drafts
    <2> QED  BY <1>3, <2>1, IdleSingle DEF ScheduleSuccess, Goto, guacuco, history, flow
  <1>4. CASE Finalize
    <2>1. NoDraft.key = None
      BY DEF NoDraft
    <2> QED  BY <1>4, <2>1 DEF Finalize, EndTurn, SingleInv, Single, AtHand
  <1>5. CASE TakenElsewhere \/ UNCHANGED vars
    <2>1. UNCHANGED <<node, draft, idem, mine, booked, withdrawn>>
      BY <1>5 DEF TakenElsewhere, vars, turn, thread, guacuco, history, flow
    <2> QED  BY <2>1 DEF SingleInv, Single, AtHand, OkRow
  <1>6. CASE Dies
    BY <1>6, IdleSingle DEF Dies, EndTurn, thread, guacuco, flow
  <1> QED  BY <1>1, <1>2, <1>3, <1>4, <1>5, <1>6, GateSingle, CommitSingle, AnsweredSingle,
              ExecuteSingle DEF Next, TurnStep, Collect

\* A flow books one appointment at most, whatever it retries, whoever else books and however many
\* turns die, unless the user withdraws at the gate an intentUuid already sent.
THEOREM OneBooking == Spec => []BookedOnce
  <1>1. SingleInv => BookedOnce
    <2> SUFFICES ASSUME SingleInv, ~withdrawn PROVE Len(booked) <= 1
      BY DEF BookedOnce
    <2>1. Len(<<>>) = 0
      OBVIOUS
    <2>2. Len(booked) = 0 \/ Len(booked) = 1
      BY <2>1 DEF SingleInv, Single
    <2>3. \A n \in {0, 1} : n <= 1
      OBVIOUS
    <2> QED  BY <2>2, <2>3, Zenon
  <1>2. Init => SingleInv
    BY InitSingle
  <1>3. Types /\ FlowInv /\ CardInv /\ SingleInv /\ [Next]_vars => SingleInv'
    BY SingleStep
  <1> QED  BY <1>1, <1>2, <1>3, CardsHold, PTL DEF Spec

\* The success told names a booking that Guacuco made in this flow.
THEOREM SuccessToldIsTrue == Spec => []SuccessIsTrue
  <1>1. OnceInv => SuccessIsTrue
    <2> SUFFICES ASSUME OnceInv, draft.terminalOutcome.action = "success", dangling = {}
                 PROVE  \E i \in DOMAIN booked : booked[i] = draft.terminalOutcome.names
      BY DEF SuccessIsTrue
    <2>1. booked = <<draft.terminalOutcome.names>>
      BY DEF OnceInv, Booked
    <2> QED  BY <2>1
  <1> QED  BY <1>1, OnceHolds, PTL

-----------------------------------------------------------------------------
(* The subgraph as a ledger.                                               *)

LEMMA InitRefines == Init => Ledger!Init
  <1>1. NoDraft.terminalOutcome.action # "success"
    BY DEF NoDraft, NoOutcome, Outcome
  <1>2. Clientless(NoRequest) = NoRequest
    BY DEF Clientless, NoRequest
  <1> QED  BY <1>1, <1>2 DEF Init, Ledger!Init, Shown, Sent, Rows, Made, Reported, NoRow

\* What touches neither the cards nor the requests is no step of the ledger.
LEMMA QuietRefines ==
    ASSUME UNCHANGED <<cards, asked, idem, mine, dangling>>, Reported' = Reported
    PROVE  UNCHANGED Ledger!vars
  BY DEF Ledger!vars, Shown, Sent, Rows, Made

\* A draft that tells no success, before and after.
LEMMA Unreported ==
    ASSUME draft.terminalOutcome.action # "success" \/ draft.key \in dangling,
           draft'.terminalOutcome.action # "success" \/ draft'.key \in dangling'
    PROVE  Reported' = Reported
  BY DEF Reported

LEMMA CollectRefines ==
    ASSUME Types, FlowInv, CardInv, OnceInv, Collect
    PROVE  UNCHANGED Ledger!vars
  <1>1. /\ draft'.key = draft.key /\ KeepsOutcome(draft')
        /\ node \notin Holding /\ UNCHANGED <<cards, asked, idem, mine, dangling>>
    BY CollectKeeps, CollectQuiet DEF guacuco
  <1>2. draft.key \notin dangling => draft.terminalOutcome.action # "success"
    BY <1>1 DEF OnceInv, Told, Holding
  <1>3. draft'.terminalOutcome.action = "success" => draft.terminalOutcome.action = "success"
    <2>1. \A o, q : Outcome(o, q).action = o
      BY DEF Outcome
    <2> QED  BY <1>1, <2>1 DEF KeepsOutcome
  <1>4. Reported' = Reported
    BY <1>1, <1>2, <1>3, Unreported
  <1> QED  BY <1>1, <1>4, QuietRefines

LEMMA SummaryNamed ==
    ASSUME Types, NEW d \in FirmDrafts, SummaryReady(d)
    PROVE  Summary(d) # NoRequest
  <1>1. d.staff.value \in Staff
    BY DraftFields DEF Firm, SummaryReady, Has
  <1>2. Summary(d).staff = d.staff.value /\ NoRequest.staff = None
    BY DEF Summary, Request, NoRequest
  <1> QED  BY <1>1, <1>2, ConstantsOK DEF ConstantsOK

\* A fresh intentUuid names the slots; one that a turn died with stays out.
LEMMA ShowRefines ==
    ASSUME Types, FlowInv, CardInv, OnceInv, ScheduleBuildConfirm
    PROVE  [Ledger!Next]_Ledger!vars
  <1>1. /\ draft \in FirmDrafts /\ idem \in [Keys -> IdemRows] /\ mine \subseteq Keys
        /\ cards \in [Keys -> Requests \cup {NoRequest}]
        /\ asked \in [Keys -> Requests \cup {NoRequest}] /\ None \notin dangling
    BY NoneNotMine DEF Types, TypeOK
  <1>2. draft.terminalOutcome.action # "success" /\ UNCHANGED dangling
    BY DEF OnceInv, Closed, Dead, ScheduleBuildConfirm
  <1>3. CASE draft' = draft /\ UNCHANGED <<cards, asked, idem, mine>>
    BY <1>2, <1>3, QuietRefines, Unreported
  <1>4. CASE /\ draft.key = None /\ SummaryReady(draft)
             /\ \E k \in {k \in Keys : idem[k].status # "in_progress"} :
                  /\ draft' = [draft EXCEPT !.key = k, !.phase = "awaiting_confirmation"]
                  /\ cards' = [cards EXCEPT ![k] = Summary(draft)]
                  /\ asked' = [asked EXCEPT ![k] = NoRequest]
                  /\ idem' = [idem EXCEPT ![k] = NoRow]
                  /\ mine' = mine \ {k}
    <2>1. PICK k \in Keys :
            /\ idem[k].status # "in_progress"
            /\ draft' = [draft EXCEPT !.key = k, !.phase = "awaiting_confirmation"]
            /\ cards' = [cards EXCEPT ![k] = Summary(draft)]
            /\ asked' = [asked EXCEPT ![k] = NoRequest]
            /\ idem' = [idem EXCEPT ![k] = NoRow]
            /\ mine' = mine \ {k}
      BY <1>4
    <2>2. draft'.terminalOutcome = draft.terminalOutcome
      BY <1>1, <2>1 DEF FirmDrafts, Drafts
    <2>3. Reported' = Reported
      BY <1>2, <2>2, Unreported
    <2>4. \A j \in Keys \ {k} : cards'[j] = cards[j] /\ asked'[j] = asked[j] /\ idem'[j] = idem[j]
      BY <1>1, <2>1
    <2>5. k \in mine \ dangling => ~OkRow(k)
      BY <1>1, <1>4, NoneNotMine DEF OnceInv, GivenUp, OkRow
    <2>6. \A j \in Keys \ {k} : Sent'[j] = Sent[j]
      BY <1>2, <2>4 DEF Sent
    <2>7. Made' = Made
      BY <1>1, <1>2, <2>1, <2>4, <2>5, <2>6 DEF Made, OkRow
    <2>8. CASE k \in dangling
      <3>1. Shown' = Shown /\ Sent' = Sent /\ Rows' = Rows
        BY <1>2, <2>4, <2>8 DEF Shown, Sent, Rows
      <3> QED  BY <2>3, <2>7, <3>1 DEF Ledger!vars
    <2>9. CASE k \notin dangling
      <3>1. Summary(draft) \in Requests
        BY <1>1, <1>4, RequestType
      <3>2. cards'[k] = Summary(draft) /\ asked'[k] = NoRequest /\ idem'[k].status = "none"
        BY <1>1, <2>1 DEF NoRow
      <3>3. Clientless(NoRequest) = NoRequest
        BY DEF Clientless, NoRequest
      <3>4. Shown' = [Shown EXCEPT ![k] = Summary(draft)]
        BY <1>2, <2>4, <2>9, <3>2 DEF Shown
      <3>5. Sent' = [Sent EXCEPT ![k] = NoRequest]
        BY <1>2, <2>4, <2>9, <3>2, <3>3 DEF Sent
      <3>6. Rows' = [Rows EXCEPT ![k] = "none"]
        BY <1>2, <2>4, <2>9, <3>2 DEF Rows
      <3>7. Rows[k] # "in_progress"
        BY <2>1 DEF Rows
      <3>8. Ledger!Show(k, Summary(draft))
        BY <2>3, <2>7, <3>4, <3>5, <3>6, <3>7 DEF Ledger!Show
      <3> QED  BY <3>1, <3>8 DEF Ledger!Next
    <2> QED  BY <2>8, <2>9
  <1> QED  BY <1>3, <1>4 DEF ScheduleBuildConfirm, Goto

\* The request leaves with what the gate message named.
LEMMA AskRefines ==
    ASSUME Types, FlowInv, CardInv, OnceInv, ScheduleCommit
    PROVE  [Ledger!Next]_Ledger!vars
  <1>1. /\ draft \in FirmDrafts /\ idem \in [Keys -> IdemRows] /\ mine \subseteq Keys
        /\ asked \in [Keys -> Requests \cup {NoRequest}] /\ node = "schedule_commit"
    BY DEF Types, TypeOK, ScheduleCommit
  <1>2. draft.terminalOutcome.action # "success" /\ UNCHANGED <<cards, dangling>>
    BY <1>1 DEF OnceInv, Closed, Dead, ScheduleCommit
  <1>3. CASE \E o \in {"error", "handed_off"} :
               Goto(Failed(draft, o), "subgraph_finalize") /\ UNCHANGED <<asked, idem, mine>>
    <2>1. draft'.terminalOutcome.action # "success"
      BY <1>1, <1>3, FailedType DEF Goto, Actions, Outcome
    <2> QED  BY <1>2, <1>3, <2>1, QuietRefines, Unreported
  <1>4. CASE /\ draft.key # None
             /\ asked' = [asked EXCEPT ![draft.key] = Request(draft)]
             /\ mine' = mine \cup {draft.key}
             /\ UNCHANGED thread
             /\ \/ UNCHANGED idem
                \/ /\ idem[draft.key].status = "none"
                   /\ idem' = [idem EXCEPT ![draft.key].status = "in_progress"]
    <2>1. draft.key \in Keys /\ UNCHANGED draft
      BY <1>1, <1>4, DraftFields DEF thread
    <2>2. Reported' = Reported
      BY <1>2, <2>1, Unreported
    <2>3. \A j \in Keys \ {draft.key} : asked'[j] = asked[j] /\ idem'[j] = idem[j]
      BY <1>1, <1>4, <2>1
    <2>4. Shown' = Shown
      BY <1>2 DEF Shown
    <2>5. \A j \in Keys \ {draft.key} : Sent'[j] = Sent[j]
      BY <1>2, <2>3 DEF Sent
    <2>6. CASE draft.key \in dangling
      <3>1. Sent' = Sent /\ Rows' = Rows
        BY <1>2, <2>3, <2>6 DEF Sent, Rows
      <3>2. Made' = Made
        BY <1>1, <1>2, <1>4, <2>3, <2>6, <3>1 DEF Made
      <3> QED  BY <2>2, <2>4, <3>1, <3>2 DEF Ledger!vars
    <2>7. CASE draft.key \notin dangling
      <3>1. /\ draft.key \notin mine /\ idem[draft.key] = NoRow
            /\ cards[draft.key] = Summary(draft) /\ SummaryReady(draft)
        BY <1>1, <1>4, <2>7 DEF OnceInv, SentOnce, CardInv, KeyBound
      <3>2. Made' = Made
        <4>1. idem'[draft.key].status # "done"
          BY <1>1, <1>4, <2>1, <3>1 DEF NoRow, IdemRows
        <4> QED  BY <1>1, <1>2, <1>4, <2>1, <2>3, <2>5, <3>1, <4>1 DEF Made
      <3>3. Clientless(Request(draft)) = Summary(draft)
        BY DEF Clientless, Summary
      <3>4. Sent' = [Sent EXCEPT ![draft.key] = Shown[draft.key]]
        <4>1. Sent'[draft.key] = Summary(draft)
          BY <1>1, <1>2, <1>4, <2>1, <2>7, <3>3 DEF Sent
        <4>2. Shown[draft.key] = Summary(draft)
          BY <2>1, <2>7, <3>1 DEF Shown
        <4>3. Sent = [k \in Keys |-> Sent[k]] /\ Sent' = [k \in Keys |-> Sent'[k]]
          BY DEF Sent
        <4> QED  BY <2>1, <2>5, <4>1, <4>2, <4>3
      <3>5. \/ Rows' = Rows
            \/ Rows[draft.key] = "none" /\ Rows' = [Rows EXCEPT ![draft.key] = "in_progress"]
        <4>1. CASE UNCHANGED idem
          BY <1>2, <4>1 DEF Rows
        <4>2. CASE idem' = [idem EXCEPT ![draft.key].status = "in_progress"]
          <5>1. idem'[draft.key].status = "in_progress"
            BY <1>1, <2>1, <4>2 DEF IdemRows
          <5> QED  BY <1>2, <2>1, <2>3, <2>7, <3>1, <5>1 DEF Rows, NoRow
        <4> QED  BY <1>4, <4>1, <4>2
      <3>6. Shown[draft.key] # NoRequest
        BY <1>1, <2>1, <2>7, <3>1, SummaryNamed DEF Shown
      <3>7. Ledger!Ask(draft.key)
        BY <2>2, <2>4, <3>2, <3>4, <3>5, <3>6 DEF Ledger!Ask
      <3> QED  BY <2>1, <3>7 DEF Ledger!Next
    <2> QED  BY <2>6, <2>7
  <1> QED  BY <1>3, <1>4 DEF ScheduleCommit

\* The gate and the answer change the draft alone, and neither is a success.
LEMMA HeldRefines ==
    ASSUME Types, FlowInv, OnceInv, ScheduleGate \/ ScheduleGateResumed \/ ScheduleCommitAnswered
    PROVE  UNCHANGED Ledger!vars
  <1>1. draft \in FirmDrafts /\ node \in {"subgraph_gate", "guacuco"}
    BY DEF Types, ScheduleGate, ScheduleGateResumed, ScheduleCommitAnswered
  <1>2. UNCHANGED <<cards, asked, idem, mine, dangling>>
    BY DEF ScheduleGate, ScheduleGateResumed, ScheduleCommitAnswered, history, flow, guacuco
  <1>3. draft.terminalOutcome.action # "success"
    BY <1>1 DEF OnceInv, Closed, Dead
  <1>4. draft'.terminalOutcome.action # "success"
    <2>1. \A o, q : Outcome(o, q).action = o
      BY DEF Outcome
    <2>2. CASE ScheduleGate
      BY <1>1, <1>3, <2>1, <2>2, FailedType DEF ScheduleGate, Goto, Interrupt, Actions
    <2>3. CASE ScheduleGateResumed
      BY <1>1, <1>3, <2>3, GateRepliedType DEF ScheduleGateResumed, Goto
    <2>4. CASE ScheduleCommitAnswered
      <3>1. PICK answer \in Answers(draft.key) : draft' = Committed(draft, answer)
        BY <2>4 DEF ScheduleCommitAnswered, Goto
      <3>2. \/ draft'.terminalOutcome = draft.terminalOutcome
            \/ \E o \in {"error", "handed_off"} : draft'.terminalOutcome = Outcome(o, NoRequest)
        BY <1>1, <3>1, CommittedType DEF Kin
      <3> QED  BY <1>3, <2>1, <3>2
    <2> QED  BY <2>2, <2>3, <2>4
  <1> QED  BY <1>2, <1>3, <1>4, QuietRefines, Unreported

\* The success is of what was done.
LEMMA SuccessRefines ==
    ASSUME Types, OnceInv, ScheduleSuccess
    PROVE  [Ledger!Next]_Ledger!vars
  <1>1. draft \in FirmDrafts /\ node = "schedule_success" /\ mine \subseteq Keys
    BY DEF Types, TypeOK, ScheduleSuccess
  <1>2. UNCHANGED <<cards, asked, idem, mine, dangling>>
    BY DEF ScheduleSuccess, history, flow, guacuco
  <1>3. /\ draft'.key = draft.key
        /\ draft'.terminalOutcome = Outcome("success", Request(draft))
    BY <1>1 DEF ScheduleSuccess, Goto, FirmDrafts, Drafts
  <1>4. Outcome("success", Request(draft)).action = "success"
        /\ Outcome("success", Request(draft)).names = Request(draft)
    BY DEF Outcome
  <1>5. draft.terminalOutcome.action # "success"
    BY <1>1 DEF OnceInv, Closed, Dead
  <1>6. CASE draft.key \in dangling
    BY <1>2, <1>3, <1>5, <1>6, QuietRefines, Unreported
  <1>7. CASE draft.key \notin dangling
    <2>1. draft.key \in mine /\ OkRow(draft.key) /\ asked[draft.key] = Request(draft)
      BY <1>1, <1>7 DEF OnceInv, SentOnce, Told, Sending
    <2>2. Reported' = Clientless(Request(draft))
      BY <1>2, <1>3, <1>4, <1>7 DEF Reported
    <2>3. Sent[draft.key] = Clientless(Request(draft))
      BY <1>1, <1>7, <2>1 DEF Sent
    <2>4. Reported' \in Made
      BY <1>7, <2>1, <2>2, <2>3 DEF Made, OkRow
    <2>5. Ledger!Tell
      BY <1>2, <2>4 DEF Ledger!Tell, Shown, Sent, Rows, Made
    <2> QED  BY <2>5 DEF Ledger!Next
  <1> QED  BY <1>6, <1>7

\* The flow is over and forgotten, but for what is still on its way.
LEMMA FinalizeRefines ==
    ASSUME Types, Finalize
    PROVE  Ledger!Next
  <1> DEFINE F == {k \in Keys : Rows[k] # "in_progress"}
  <1>1. idem \in [Keys -> IdemRows] /\ dangling \subseteq Keys
    BY DEF Types, TypeOK
  <1>2. /\ cards' = Kept(cards, NoRequest) /\ asked' = Kept(asked, NoRequest)
        /\ idem' = Kept(idem, NoRow) /\ mine' = {}
        /\ dangling' = {k \in dangling : idem[k].status = "in_progress"}
        /\ draft' = NoDraft
    BY DEF Finalize
  <1>3. Made' = {}
    BY <1>2 DEF Made
  <1>4. Reported' = NoRequest
    BY <1>2 DEF Reported, NoDraft, NoOutcome, Outcome
  <1>5. Clientless(NoRequest) = NoRequest
    BY DEF Clientless, NoRequest
  <1>6. Shown' = [k \in Keys |-> IF k \in F THEN NoRequest ELSE Shown[k]]
    BY <1>2 DEF Kept, Shown, Rows
  <1>7. Sent' = [k \in Keys |-> IF k \in F THEN NoRequest ELSE Sent[k]]
    BY <1>2, <1>5 DEF Kept, Sent, Rows
  <1>8. Rows' = [k \in Keys |-> IF k \in F THEN "none" ELSE Rows[k]]
    BY <1>2 DEF Kept, Rows, NoRow
  <1>9. F \in SUBSET {k \in Keys : Rows[k] # "in_progress"}
    OBVIOUS
  <1> HIDE DEF F
  <1>10. Ledger!Begin
    BY <1>3, <1>4, <1>6, <1>7, <1>8, <1>9 DEF Ledger!Begin
  <1> QED  BY <1>10 DEF Ledger!Next

LEMMA ExecuteRefines ==
    ASSUME Types, NEW k \in Keys, GuacucoExecute(k)
    PROVE  [Ledger!Next]_Ledger!vars
  <1>1. idem \in [Keys -> IdemRows] /\ mine \subseteq Keys
    BY DEF Types, TypeOK
  <1>2. UNCHANGED <<draft, cards, asked, mine, dangling>>
    BY DEF GuacucoExecute, thread
  <1>3. PICK res : idem' = [idem EXCEPT ![k] = [status |-> "done", result |-> res]]
    BY DEF GuacucoExecute
  <1>4. /\ idem[k].status = "in_progress"
        /\ idem'[k].status = "done" /\ idem'[k].result = res
        /\ \A j \in Keys \ {k} : idem'[j] = idem[j]
    BY <1>1, <1>3 DEF GuacucoExecute
  <1>5. Shown' = Shown /\ Sent' = Sent /\ Reported' = Reported
    BY <1>2 DEF Shown, Sent, Reported
  <1>6. CASE k \in dangling
    <2>1. Rows' = Rows
      BY <1>2, <1>4, <1>6 DEF Rows
    <2>2. Made' = Made
      BY <1>1, <1>2, <1>4, <1>5, <1>6 DEF Made
    <2> QED  BY <1>5, <2>1, <2>2 DEF Ledger!vars
  <1>7. CASE k \notin dangling
    <2>1. Rows[k] = "in_progress" /\ Rows' = [Rows EXCEPT ![k] = "done"]
      BY <1>2, <1>4, <1>7 DEF Rows
    <2>2. Made' \in {Made, Made \cup {Sent[k]}}
      <3>1. CASE k \in mine /\ res = "ok"
        <4>1. Made' = Made \cup {Sent[k]}
          BY <1>1, <1>2, <1>4, <1>5, <1>7, <3>1 DEF Made
        <4> QED  BY <4>1
      <3>2. CASE ~(k \in mine /\ res = "ok")
        <4>1. Made' = Made
          BY <1>1, <1>2, <1>4, <1>5, <3>2 DEF Made
        <4> QED  BY <4>1
      <3> QED  BY <3>1, <3>2
    <2>3. Ledger!Execute(k)
      BY <1>5, <2>1, <2>2 DEF Ledger!Execute
    <2> QED  BY <2>3 DEF Ledger!Next
  <1> QED  BY <1>6, <1>7

\* A turn that dies takes the intentUuid of its draft out of the ledger.
LEMMA DiesRefines ==
    ASSUME Types, Dies
    PROVE  [Ledger!Next]_Ledger!vars
  <1>1. UNCHANGED <<draft, cards, asked, idem, mine>>
    BY DEF Dies, thread, guacuco, flow
  <1>2. dangling' = IF draft.key = None THEN dangling ELSE dangling \cup {draft.key}
    BY DEF Dies
  <1>3. CASE dangling' = dangling
    <2>1. Reported' = Reported
      BY <1>1, <1>3 DEF Reported
    <2> QED  BY <1>1, <1>3, <2>1, QuietRefines
  <1>4. CASE draft.key # None /\ draft.key \notin dangling
    <2>1. draft.key \in Keys /\ dangling' = dangling \cup {draft.key}
      BY <1>2, <1>4, DraftFields DEF Types
    <2>2. /\ Shown' = [Shown EXCEPT ![draft.key] = NoRequest]
          /\ Sent' = [Sent EXCEPT ![draft.key] = NoRequest]
          /\ Rows' = [Rows EXCEPT ![draft.key] = "none"]
      BY <1>1, <2>1 DEF Shown, Sent, Rows
    <2>3. Reported' = NoRequest
      BY <1>1, <2>1 DEF Reported
    <2>4. Made' \in SUBSET Made
      BY <1>1, <2>1 DEF Made, Sent, Types, TypeOK
    <2>5. Ledger!Lose(draft.key)
      BY <2>2, <2>3, <2>4 DEF Ledger!Lose
    <2> QED  BY <2>1, <2>5 DEF Ledger!Next
  <1> QED  BY <1>2, <1>3, <1>4

LEMMA StepRefines ==
    ASSUME Types, FlowInv, CardInv, OnceInv, [Next]_vars
    PROVE  [Ledger!Next]_Ledger!vars
  <1>1. CASE Arrive \/ TakenElsewhere \/ UNCHANGED vars
    <2>1. UNCHANGED <<draft, cards, asked, idem, mine, dangling>>
      BY <1>1 DEF Arrive, TakenElsewhere, vars, thread, guacuco, history, flow
    <2>2. Reported' = Reported
      BY <2>1 DEF Reported
    <2> QED  BY <2>1, <2>2, QuietRefines
  <1>2. CASE Collect
    BY <1>2, CollectRefines
  <1>3. CASE ScheduleBuildConfirm
    BY <1>3, ShowRefines
  <1>4. CASE ScheduleCommit
    BY <1>4, AskRefines
  <1>5. CASE ScheduleGate \/ ScheduleGateResumed \/ ScheduleCommitAnswered
    BY <1>5, HeldRefines
  <1>6. CASE ScheduleSuccess
    BY <1>6, SuccessRefines
  <1>7. CASE Finalize
    BY <1>7, FinalizeRefines
  <1>8. CASE \E k \in Keys : GuacucoExecute(k)
    BY <1>8, ExecuteRefines
  <1>9. CASE Dies
    BY <1>9, DiesRefines
  <1> QED  BY <1>1, <1>2, <1>3, <1>4, <1>5, <1>6, <1>7, <1>8, <1>9 DEF Next, TurnStep, Collect

\* The subgraph keeps GatedCommit's ledger, dead turns included: every step of it is a step of
\* the ledger or none.
THEOREM Refinement == Spec => RefinesGatedCommit
  <1>1. Types /\ FlowInv /\ CardInv /\ OnceInv /\ [Next]_vars => [Ledger!Next]_Ledger!vars
    BY StepRefines
  <1> QED  BY <1>1, InitRefines, OnceHolds, PTL DEF Spec, RefinesGatedCommit, Ledger!Spec

\* What GatedCommit promises, of the subgraph: Guacuco is asked what the gate message of the
\* intentUuid named and is at nothing else, books only what one names at that moment, and a flow
\* that ends as a success made its booking, unless a turn that held the intentUuid died.
THEOREM LedgerHolds ==
    Spec => [](Ledger!AskedWasShown /\ Ledger!ToldWasDone) /\ Ledger!OnlyShownIsDone
  <1>1. NoRequest \notin Requests
    BY ConstantsOK DEF NoRequest, Requests, ConstantsOK
  <1>2. Ledger!Spec => [](Ledger!AskedWasShown /\ Ledger!ToldWasDone) /\ Ledger!OnlyShownIsDone
    BY <1>1, Ledger!LedgerKept
  <1> QED  BY <1>2, Refinement, PTL DEF RefinesGatedCommit

-----------------------------------------------------------------------------
(* The turn ends.                                                          *)

\* The question is only put when something is missing.
Asking == node = "schedule_ask_slot" /\ ~resumed => Missing(draft) # None

LEMMA AskingStep == Types /\ FlowInv /\ Asking /\ [Next]_vars => Asking'
  <1> SUFFICES ASSUME Types, FlowInv, Asking, [Next]_vars,
                      node' = "schedule_ask_slot", ~resumed'
               PROVE  (Missing(draft) # None)'
    BY DEF Asking
  <1>1. CASE ScheduleResolve
    <2>1. node' = RouteAfterResolve(draft') /\ UNCHANGED identity
      BY <1>1 DEF ScheduleResolve, Goto
    <2>2. Missing(draft') # None
      BY <2>1 DEF RouteAfterResolve
    <2>3. Missing(draft)' = Missing(draft')
      BY <2>1 DEF Missing, SummaryReady, identity
    <2> QED  BY <2>2, <2>3
  <1>2. CASE Arrive
    BY <1>2 DEF Arrive, Types, TypeOK
  <1>3. CASE (\E k \in Keys : GuacucoExecute(k)) \/ TakenElsewhere \/ UNCHANGED vars
    <2>1. UNCHANGED <<node, resumed, draft, profileType>>
      BY <1>3 DEF GuacucoExecute, TakenElsewhere, vars, turn, thread, identity
    <2> QED  BY <2>1 DEF Asking, Missing, SummaryReady
  <1>4. CASE Dies
    BY <1>4 DEF Dies, EndTurn
  <1>5. CASE TurnStep /\ ~ScheduleResolve
    BY <1>5 DEF TurnStep, Supervisor, ScheduleEntry, ScheduleAskSlot, ScheduleAskSlotResumed,
       ScheduleValidate, SchedulePresent, SchedulePresentResumed, ScheduleBuildConfirm,
       ScheduleGate, ScheduleGateResumed, ScheduleCommit, ScheduleCommitAnswered,
       ScheduleSuccess, Finalize, Goto, Interrupt, EndTurn, RouteAfterAskSlot,
       RouteAfterValidate, RouteAfterPresent, RouteAfterGate, RouteAfterCommit
  <1> QED  BY <1>1, <1>2, <1>3, <1>4, <1>5 DEF Next

\* Where each node leads.
LEMMA Edges ==
    ASSUME Types, FlowInv, Asking, TurnStep
    PROVE  \/ node' = "idle" /\ node # "idle"
           \/ /\ node' = "subgraph_finalize" /\ ~resumed'
              /\ node \notin {"idle", "subgraph_finalize"}
           \/ node = "supervisor" /\ node' = "schedule_entry"
           \/ node = "schedule_entry" /\ node' = "schedule_resolve"
           \/ /\ node = "schedule_resolve" /\ ~resumed'
              /\ node' \in {"schedule_validate", "schedule_ask_slot"}
           \/ node = "schedule_ask_slot" /\ resumed /\ node' = "schedule_resolve"
           \/ /\ node = "schedule_validate" /\ ~resumed'
              /\ node' \in {"schedule_build_confirm", "schedule_present"}
           \/ /\ node = "schedule_present" /\ resumed /\ ~resumed'
              /\ node' \in {"schedule_build_confirm", "schedule_resolve", "schedule_present"}
           \/ node = "schedule_build_confirm" /\ node' = "subgraph_gate" /\ ~resumed'
           \/ /\ node = "subgraph_gate" /\ resumed
              /\ node' \in {"schedule_commit", "schedule_resolve"}
           \/ node = "schedule_commit" /\ node' = "guacuco"
           \/ node = "guacuco" /\ node' \in {"schedule_validate", "schedule_success"}
  <1>1. CASE Supervisor \/ ScheduleEntry \/ ScheduleResolve
    BY <1>1 DEF Supervisor, ScheduleEntry, ScheduleResolve, Goto, EndTurn, RouteAfterResolve
  <1>2. CASE ScheduleAskSlot \/ ScheduleAskSlotResumed
    BY <1>2 DEF ScheduleAskSlot, ScheduleAskSlotResumed, Goto, Interrupt, EndTurn,
                RouteAfterAskSlot, Asking
  <1>3. CASE ScheduleValidate \/ SchedulePresent \/ SchedulePresentResumed
    BY <1>3 DEF ScheduleValidate, SchedulePresent, SchedulePresentResumed, Goto, Interrupt,
                EndTurn, RouteAfterValidate, RouteAfterPresent
  <1>4. CASE ScheduleBuildConfirm \/ ScheduleGate \/ ScheduleGateResumed
    BY <1>4 DEF ScheduleBuildConfirm, ScheduleGate, ScheduleGateResumed, Goto, Interrupt,
                EndTurn, RouteAfterGate
  <1>5. CASE ScheduleCommit \/ ScheduleCommitAnswered \/ ScheduleSuccess \/ Finalize
    BY <1>5 DEF ScheduleCommit, ScheduleCommitAnswered, ScheduleSuccess, Finalize, Goto,
                EndTurn, RouteAfterCommit
  <1> QED  BY <1>1, <1>2, <1>3, <1>4, <1>5 DEF TurnStep

LEMMA StepShrinks ==
    ASSUME Types, FlowInv, Asking, TurnStep
    PROVE  Rank' < Rank
  <1>1. node' = "idle" /\ node # "idle" => Rank' < Rank
    BY DEF Rank, Types, TypeOK
  <1>2. node' = "subgraph_finalize" /\ ~resumed' /\ node \notin {"idle", "subgraph_finalize"}
            => Rank' < Rank
    BY DEF Rank, Types, TypeOK
  <1>3. /\ node = "supervisor" /\ node' = "schedule_entry" => Rank' < Rank
        /\ node = "schedule_entry" /\ node' = "schedule_resolve" => Rank' < Rank
        /\ node = "schedule_resolve" /\ ~resumed'
             /\ node' \in {"schedule_validate", "schedule_ask_slot"} => Rank' < Rank
    BY DEF Rank
  <1>4. /\ node = "schedule_ask_slot" /\ resumed /\ node' = "schedule_resolve" => Rank' < Rank
        /\ node = "schedule_present" /\ resumed /\ ~resumed'
             /\ node' \in {"schedule_build_confirm", "schedule_resolve", "schedule_present"}
             => Rank' < Rank
        /\ node = "subgraph_gate" /\ resumed
             /\ node' \in {"schedule_commit", "schedule_resolve"} => Rank' < Rank
    BY DEF Rank
  <1>5. node = "schedule_validate" /\ ~resumed'
          /\ node' \in {"schedule_build_confirm", "schedule_present"} => Rank' < Rank
    BY DEF Rank
  <1>6. node = "schedule_build_confirm" /\ node' = "subgraph_gate" /\ ~resumed' => Rank' < Rank
    BY DEF Rank
  <1>7. /\ node = "schedule_commit" /\ node' = "guacuco" => Rank' < Rank
        /\ node = "guacuco" /\ node' \in {"schedule_validate", "schedule_success"} => Rank' < Rank
    BY DEF Rank
  <1> QED  BY <1>1, <1>2, <1>3, <1>4, <1>5, <1>6, <1>7, Edges, Zenon

\* Every node a turn runs, and its death, brings it nearer its end, whatever the draft, the
\* catalog and the answers; and no turn is further from it than eight nodes.
THEOREM TurnsShrink == Spec => TurnShrinks /\ [](Rank \in 0..8)
  <1>1. Init => Asking
    BY DEF Init, Asking
  <1>2. Types /\ FlowInv /\ Asking /\ [Next]_vars =>
            [node # "idle" => Rank' < Rank \/ UNCHANGED <<turn, thread>>]_vars
    <2> SUFFICES ASSUME Types, FlowInv, Asking, Next, node # "idle"
                 PROVE  Rank' < Rank \/ UNCHANGED <<turn, thread>>
      OBVIOUS
    <2>1. CASE Dies
      <3>1. Rank' = 0 /\ Rank > 0
        BY <2>1 DEF Dies, EndTurn, Rank, Types, TypeOK
      <3> QED  BY <3>1
    <2>2. CASE (\E k \in Keys : GuacucoExecute(k)) \/ TakenElsewhere
      BY <2>2 DEF GuacucoExecute, TakenElsewhere
    <2> QED  BY <2>1, <2>2, StepShrinks DEF Next, Arrive
  <1>3. Types => Rank \in 0..8
    BY DEF Rank, Types, TypeOK
  <1> QED  BY <1>1, <1>2, <1>3, AskingStep, FlowHolds, PTL DEF Spec, TurnShrinks

=============================================================================
