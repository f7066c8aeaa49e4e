-------------------------- MODULE SupervisorProofs --------------------------
(***************************************************************************)
(* Theorems about Supervisor and Query, for any users, SQL texts,          *)
(* appointments and flows, and any number of turns that die.               *)
(***************************************************************************)
EXTENDS Supervisor, TLAPS

-----------------------------------------------------------------------------
(* Types, and whose draft each node works on.                              *)

QueryNodes   == {"query_classify", "query_fetch", "query_synthesize"}
ConfirmNodes == {"confirm_bootstrap", "confirm_ask_slot", "confirm_commit", "guacuco",
                 "confirm_success"}
ToolNodes    == {"tool_forward_message", "tool_retrieve_manzanillo_url",
                 "tool_connect_mercado_pago"}
Answering    == ToolNodes \cup {"social_responder", "subgraph_placeholder",
                                "tool_send_client_summary"}
\* The nodes before a flow goes on.
Entrance     == Answering \cup {"supervisor_entry", "classify_intent", "subgraph_dispatch"}
Nodes        == {"idle", "elsewhere", "subgraph_finalize"}
                  \cup Entrance \cup QueryNodes \cup ConfirmNodes

Taps     == {t \in [kind : {"confirm", "client_summary", None} \cup OtherFlows,
                    value : Appts \cup {Title, None}] : t.kind = "confirm" => t.value # None}
Routings == [activeSubgraph : Flows \cup {None}, buttonShortcut : Taps,
             targetTool : AtomicTools \cup {None},
             messageType : {None, "action", "social", "query", "human_request"},
             intent : Flows \cup AtomicTools \cup {"unknown", None},
             takeoverReason : {None, "sentiment_frustration", "explicit_request"}]
Messages == [type : {None, "media", "text", "interactive", "template_button"},
             text : {None, "plain"} \cup AtomicTools,
             action : {None, "confirm", "apt_pick", "client_summary"} \cup OtherFlows,
             appt : Appts \cup {None}]
AllDrafts == {NoDraft} \cup ConfirmDrafts \cup OtherDrafts \cup QueryDrafts

\* A SQL is written or executed for a reason.
Works == {w \in Locals : w.at \in {"generate", "execute"} => w.why # None}

Types ==
    /\ node \in Nodes
    /\ work \in Works /\ messages \in {"plain", "figures"}
    /\ draft \in AllDrafts
    /\ input \in Inbox \cup {NoMsg} /\ reply \in Inbox \cup {NoMsg}
    /\ routing \in Routings
    /\ paused \in {None, "elsewhere", "confirm_ask_slot"}
    /\ crm \subseteq Appts /\ meant \subseteq Appts \cup {Title} /\ flying \subseteq Appts
    /\ status \in [Appts -> {"pending", "confirmed", "gone"}]
    /\ dangling \in BOOLEAN /\ fresh \in BOOLEAN

\* The draft is of the flow whose node runs or waits; a flow waits between turns, or runs in
\* the node that waited.
Kinds ==
    /\ node \in QueryNodes => draft.kind = "query"
    /\ node \in ConfirmNodes \/ paused = "confirm_ask_slot" => draft.kind = "confirm"
    /\ node = "elsewhere" \/ paused = "elsewhere" => draft.kind \in OtherFlows
    /\ paused # None => node \in {"idle", paused}
    /\ paused # None /\ node # "idle" => reply # NoMsg
    /\ node = "supervisor_entry" => input \in Inbox

\* A flow that failed, or whose nodes are over, has something to say; the dispatcher is entered
\* with a flow to go to.
Concluded ==
    /\ draft.kind \in {"query", "confirm"} /\ draft.phase = "failed" =>
          draft.terminalOutcome # NoReply
    /\ node = "subgraph_finalize" => draft.kind # None /\ draft.terminalOutcome # NoReply
    /\ node = "subgraph_dispatch" => resolveDispatchTarget(routing) # None
    /\ node = "confirm_ask_slot" \/ paused = "confirm_ask_slot" => draft.phase = "collecting"
    /\ node \in {"confirm_commit", "guacuco", "confirm_success"} => draft.appt \in Appts

TInv == Types /\ Kinds /\ Concluded

LEMMA KindsApart ==
    ASSUME SupervisorConstantsOK
    PROVE  /\ \A d \in QueryDrafts : d.kind = "query"
           /\ \A d \in ConfirmDrafts : d.kind = "confirm"
           /\ \A d \in OtherDrafts : d.kind \in OtherFlows
           /\ NoDraft.kind = None
           /\ OtherFlows \subseteq {"schedule", "cancel", "reschedule"}
  BY DEF SupervisorConstantsOK, QueryDrafts, ConfirmDrafts, OtherDrafts, NoDraft

LEMMA DraftOfKind ==
    ASSUME SupervisorConstantsOK, draft \in AllDrafts
    PROVE  /\ draft.kind = "query" => draft \in QueryDrafts
           /\ draft.kind = "confirm" => draft \in ConfirmDrafts
           /\ draft.kind \in OtherFlows => draft \in OtherDrafts
           /\ draft.kind \in Flows \cup {None}
           /\ draft.kind = None => draft = NoDraft
  BY KindsApart DEF AllDrafts, Flows, None

LEMMA InboxType ==
    /\ \A m \in Inbox : m \in Messages /\ m.type # None
    /\ NoMsg \notin Inbox /\ NoMsg \in Messages
  <1>1. NoMsg \in Messages /\ NoMsg.type = None
    BY DEF NoMsg, Msg, Messages
  <1>2. \A m \in Inbox : m \in Messages /\ m.type # None
    BY DEF Inbox, Msg, Messages, None
  <1> QED  BY <1>1, <1>2

-----------------------------------------------------------------------------
(* What a step of query does.                                              *)

\* The node goes on inside, or is over and its draft is d.
GoesInside == node' = node /\ draft' = draft /\ work' \in Works
GoesOn ==
    /\ draft' \in QueryDrafts /\ work' = Idle
    /\ draft'.phase = "failed" => draft'.terminalOutcome # NoReply
    /\ node' \in {"query_fetch", "query_synthesize", "subgraph_finalize"}
    /\ node' = "subgraph_finalize" <=> draft'.terminalOutcome # NoReply

LEMMA IdleIsWork == Idle \in Works /\ Idle.at = "start"
  BY DEF Idle, Locals, Works

LEMMA RawType ==
    ASSUME NEW k \in FreeformErrors \cup {None, "data", "rows", "no_rows"}, NEW s \in Sqls \cup {NoSql}
    PROVE  Raw(k, s) \in [kind : FreeformErrors \cup {None, "data", "rows", "no_rows"},
                          of : Sqls \cup {NoSql}]
  BY DEF Raw

LEMMA WithRawType ==
    ASSUME NEW d \in QueryDrafts, NEW k \in FreeformErrors \cup {None, "data", "rows", "no_rows"},
           NEW s \in Sqls \cup {NoSql}
    PROVE  /\ WithRaw(d, Raw(k, s)) \in QueryDrafts
           /\ WithRaw(d, Raw(k, s)).phase = "synthesizing"
           /\ WithRaw(d, Raw(k, s)).raw = Raw(k, s)
           /\ WithRaw(d, Raw(k, s)).intent = d.intent
           /\ WithRaw(d, Raw(k, s)).terminalOutcome = d.terminalOutcome
  BY RawType DEF WithRaw, QueryDrafts

LEMMA FetchedIs ==
    ASSUME NEW d \in QueryDrafts, Fetched(d),
           d.phase = "synthesizing" \/ (d.phase = "failed" /\ d.terminalOutcome # NoReply)
    PROVE  GoesOn /\ draft' = d /\ node' \in {"query_synthesize", "subgraph_finalize"}
  BY DEF Fetched, Leave, RouteAfterQueryFetch, IsActiveDraft, GoesOn

LEMMA FreeformErrorIs ==
    ASSUME draft \in QueryDrafts, NEW e \in FreeformErrors, NEW s \in Sqls \cup {NoSql},
           FreeformError(e, s)
    PROVE  /\ GoesOn /\ node' \in {"query_synthesize", "subgraph_finalize"}
           /\ draft'.raw = Raw(e, NoSql) /\ draft'.intent = draft.intent
           /\ draft'.terminalOutcome = draft.terminalOutcome
  <1> DEFINE w == WithRaw(draft, Raw(e, NoSql))
             d == [w EXCEPT !.generatedSql = s]
  <1>1. /\ w \in QueryDrafts /\ w.phase = "synthesizing" /\ w.raw = Raw(e, NoSql)
        /\ w.intent = draft.intent /\ w.terminalOutcome = draft.terminalOutcome
    BY WithRawType
  <1>2. Fetched(d)
    BY DEF FreeformError
  <1> HIDE DEF w
  <1>3. /\ d \in QueryDrafts /\ d.phase = "synthesizing" /\ d.raw = w.raw
        /\ d.intent = w.intent /\ d.terminalOutcome = w.terminalOutcome
    BY <1>1 DEF QueryDrafts
  <1> HIDE DEF d
  <1>4. GoesOn /\ draft' = d /\ node' \in {"query_synthesize", "subgraph_finalize"}
    BY <1>2, <1>3, FetchedIs
  <1> QED  BY <1>1, <1>3, <1>4

LEMMA FreeformRowsIs ==
    ASSUME draft \in QueryDrafts, NEW l \in Locals, FreeformRows(l)
    PROVE  /\ GoesOn /\ node' \in {"query_synthesize", "subgraph_finalize"}
           /\ draft'.intent = draft.intent /\ draft'.terminalOutcome = draft.terminalOutcome
  <1>1. PICK k \in {"rows", "no_rows"} :
          Fetched([WithRaw(draft, Raw(k, l.held)) EXCEPT !.generatedSql = l.sql])
    BY DEF FreeformRows
  <1> DEFINE w == WithRaw(draft, Raw(k, l.held))
             d == [w EXCEPT !.generatedSql = l.sql]
  <1>2. l.held \in Sqls \cup {NoSql} /\ l.sql \in Sqls \cup {NoSql}
    BY DEF Locals
  <1>3. /\ w \in QueryDrafts /\ w.phase = "synthesizing"
        /\ w.intent = draft.intent /\ w.terminalOutcome = draft.terminalOutcome
    BY <1>2, WithRawType
  <1>4. Fetched(d)
    BY <1>1
  <1> HIDE DEF w
  <1>5. /\ d \in QueryDrafts /\ d.phase = "synthesizing"
        /\ d.intent = w.intent /\ d.terminalOutcome = w.terminalOutcome
    BY <1>2, <1>3 DEF QueryDrafts
  <1> HIDE DEF d
  <1>6. GoesOn /\ draft' = d /\ node' \in {"query_synthesize", "subgraph_finalize"}
    BY <1>4, <1>5, FetchedIs
  <1> QED  BY <1>3, <1>5, <1>6

LEMMA FailedQueryType ==
    ASSUME NEW d \in QueryDrafts, NEW a \in {"response", "error", "handed_off"},
           NEW t \in QueryTexts
    PROVE  /\ FailedQuery(d, Reply(a, t)) \in QueryDrafts
           /\ FailedQuery(d, Reply(a, t)).phase = "failed"
           /\ FailedQuery(d, Reply(a, t)).terminalOutcome = Reply(a, t)
           /\ FailedQuery(d, Reply(a, t)).intent = d.intent
           /\ FailedQuery(d, Reply(a, t)).raw = d.raw
           /\ Reply(a, t) # NoReply
  BY DEF FailedQuery, QueryDrafts, Reply, NoReply, None

LEMMA QueryClassifyIs ==
    ASSUME draft \in QueryDrafts, QueryClassify
    PROVE  /\ GoesOn /\ draft'.raw = draft.raw /\ draft'.terminalOutcome = draft.terminalOutcome
           /\ node' = "query_synthesize" => draft'.intent = "cannot_answer"
           /\ node = "query_classify" /\ UNCHANGED executed
  <1>1. PICK i \in Intents :
          LET d == [draft EXCEPT !.intent = i,
                                 !.phase = IF i = "cannot_answer" THEN "synthesizing" ELSE "fetching"]
          IN Leave(d, RouteAfterQueryClassify(d))
    BY DEF QueryClassify, Classified
  <1> DEFINE d == [draft EXCEPT !.intent = i,
                                !.phase = IF i = "cannot_answer" THEN "synthesizing" ELSE "fetching"]
  <1>2. /\ d \in QueryDrafts /\ d.phase = IF i = "cannot_answer" THEN "synthesizing" ELSE "fetching"
        /\ d.intent = i /\ d.raw = draft.raw /\ d.terminalOutcome = draft.terminalOutcome
    BY DEF QueryDrafts
  <1>3. Leave(d, RouteAfterQueryClassify(d))
    BY <1>1
  <1> HIDE DEF d
  <1>4. /\ draft' = d /\ work' = Idle /\ node' = RouteAfterQueryClassify(d)
    BY <1>3 DEF Leave
  <1>5. /\ node' \in {"query_fetch", "query_synthesize", "subgraph_finalize"}
        /\ node' = "subgraph_finalize" <=> d.terminalOutcome # NoReply
        /\ node' = "query_synthesize" => d.phase = "synthesizing"
    BY <1>2, <1>4 DEF RouteAfterQueryClassify, IsActiveDraft
  <1>6. d.phase # "failed"
    BY <1>2
  <1>7. node = "query_classify" /\ UNCHANGED executed
    BY DEF QueryClassify, At
  <1> QED  BY <1>2, <1>4, <1>5, <1>6, <1>7 DEF GoesOn

LEMMA QueryFetchIs ==
    ASSUME draft \in QueryDrafts, QueryFetch
    PROVE  /\ GoesOn /\ node' \in {"query_synthesize", "subgraph_finalize"}
           /\ draft'.intent = draft.intent
           /\ draft'.phase = "failed" \/ draft'.raw = Raw("data", NoSql)
           /\ \/ draft'.terminalOutcome = draft.terminalOutcome
              \/ draft'.terminalOutcome.text # "unjudged"
           /\ node = "query_fetch" /\ UNCHANGED executed /\ draft.intent # "freeform_sql"
  <1>1. PICK d \in FetchedFor(draft) : Fetched(d)
    BY DEF QueryFetch
  <1>2. CASE d = WithRaw(draft, Raw("data", NoSql))
    <2>1. /\ d \in QueryDrafts /\ d.phase = "synthesizing" /\ d.raw = Raw("data", NoSql)
          /\ d.intent = draft.intent /\ d.terminalOutcome = draft.terminalOutcome
      BY <1>2, WithRawType
    <2> QED  BY <1>1, <2>1, FetchedIs DEF QueryFetch, At
  <1>3. CASE \E r \in {Reply("response", "forbidden"), Reply("error", "fetch_error"),
                       Reply("handed_off", "escalated")} : d = FailedQuery(draft, r)
    <2>1. PICK a \in {"response", "error", "handed_off"},
               t \in {"forbidden", "fetch_error", "escalated"} : d = FailedQuery(draft, Reply(a, t))
      BY <1>3
    <2>2. /\ d \in QueryDrafts /\ d.phase = "failed" /\ d.intent = draft.intent
          /\ d.terminalOutcome = Reply(a, t) /\ Reply(a, t) # NoReply
      BY <2>1, FailedQueryType DEF QueryTexts
    <2>3. d.terminalOutcome.text # "unjudged"
      BY <2>2 DEF Reply
    <2> QED  BY <1>1, <2>2, <2>3, FetchedIs DEF QueryFetch, At
  <1> QED  BY <1>1, <1>2, <1>3 DEF FetchedFor

\* The pipeline of a freeform question is over.
FreeformOver ==
    /\ GoesOn /\ node' \in {"query_synthesize", "subgraph_finalize"}
    /\ draft'.intent = draft.intent /\ draft'.terminalOutcome = draft.terminalOutcome

LEMMA FreeformEnds ==
    ASSUME draft \in QueryDrafts,
           \/ \E e \in FreeformErrors, s \in Sqls \cup {NoSql} : FreeformError(e, s)
           \/ \E l \in Locals : FreeformRows(l)
    PROVE  FreeformOver
  BY FreeformErrorIs, FreeformRowsIs DEF FreeformOver

LEMMA FreeformSchemaIs ==
    ASSUME draft \in QueryDrafts, work \in Works, FreeformSchema
    PROVE  /\ node = "query_fetch" /\ work.at = "start" /\ UNCHANGED executed
           /\ \/ GoesInside /\ work'.at = "generate" /\ work'.why = "first"
              \/ FreeformOver
  <1>1. CASE Inside([Idle EXCEPT !.at = "generate", !.why = "first"])
    BY <1>1, IdleIsWork DEF Inside, GoesInside, FreeformSchema, At, Locals, Works, None
  <1>2. CASE \E e \in {"role_unavailable", "schema_unavailable"} :
               Fetched(WithRaw(draft, Raw(e, NoSql)))
    <2>1. PICK e \in FreeformErrors : Fetched(WithRaw(draft, Raw(e, NoSql)))
      BY <1>2 DEF FreeformErrors
    <2> DEFINE d == WithRaw(draft, Raw(e, NoSql))
    <2>2. /\ d \in QueryDrafts /\ d.phase = "synthesizing" /\ d.intent = draft.intent
          /\ d.terminalOutcome = draft.terminalOutcome
      BY WithRawType
    <2> HIDE DEF d
    <2>3. GoesOn /\ draft' = d /\ node' \in {"query_synthesize", "subgraph_finalize"}
      BY <2>1, <2>2, FetchedIs DEF d
    <2> QED  BY <2>2, <2>3 DEF FreeformSchema, At, FreeformOver
  <1> QED  BY <1>1, <1>2 DEF FreeformSchema

LEMMA NotGeneratedIs ==
    ASSUME draft \in QueryDrafts, work \in Works, NotGenerated
    PROVE  /\ node = "query_fetch" /\ work.at = "generate" /\ UNCHANGED executed
           /\ \/ /\ GoesInside /\ work.why = "first"
                 /\ work'.at = "generate" /\ work'.why = "drilldown"
              \/ FreeformOver
  <1>1. node = "query_fetch" /\ work.at = "generate" /\ UNCHANGED executed
    BY DEF NotGenerated, At
  <1>2. work \in Locals /\ work.sql \in Sqls \cup {NoSql}
        /\ work.why \in {"first", "drilldown", "error", "critique"}
    BY <1>1 DEF Works, Locals, None
  <1>3. CASE Inside([work EXCEPT !.why = "drilldown"]) /\ work.why = "first"
    BY <1>1, <1>2, <1>3 DEF Inside, GoesInside, Works, Locals, None
  <1>4. CASE \E e \in FreeformErrors, s \in Sqls \cup {NoSql} : FreeformError(e, s)
    BY <1>1, <1>4, FreeformEnds
  <1>5. CASE FreeformRows(work)
    BY <1>1, <1>2, <1>5, FreeformEnds
  <1>6. \/ Inside([work EXCEPT !.why = "drilldown"]) /\ work.why = "first"
        \/ FreeformError("empty_sql", NoSql) \/ FreeformError("cannot_answer", NoSql)
        \/ FreeformError("execute_failed", work.sql) \/ FreeformRows(work)
    BY <1>2 DEF NotGenerated
  <1> QED  BY <1>2, <1>3, <1>4, <1>5, <1>6 DEF FreeformErrors

LEMMA GeneratedIs ==
    ASSUME draft \in QueryDrafts, work \in Works, Generated
    PROVE  /\ node = "query_fetch" /\ work.at = "generate" /\ UNCHANGED executed
           /\ \/ /\ GoesInside /\ work'.at = "execute" /\ work'.why = work.why
                 /\ work'.sql \in Sqls /\ validateSql(work'.sql, resolveAllowedSchema)
              \/ FreeformOver
  <1>1. node = "query_fetch" /\ work.at = "generate" /\ UNCHANGED executed
    BY DEF Generated, At
  <1>2. work \in Locals /\ work.why # None /\ [work EXCEPT !.sql = work.held] \in Locals
    BY <1>1 DEF Works, Locals
  <1>3. PICK s \in Sqls :
          \/ validateSql(s, resolveAllowedSchema) /\ Inside([work EXCEPT !.at = "execute", !.sql = s])
          \/ FreeformError("unsafe_sql", s)
          \/ FreeformRows([work EXCEPT !.sql = work.held])
    BY DEF Generated
  <1>4. CASE validateSql(s, resolveAllowedSchema) /\ Inside([work EXCEPT !.at = "execute", !.sql = s])
    BY <1>1, <1>2, <1>4 DEF Inside, GoesInside, Works, Locals
  <1>5. CASE FreeformError("unsafe_sql", s)
    BY <1>1, <1>5, FreeformEnds DEF FreeformErrors
  <1>6. CASE FreeformRows([work EXCEPT !.sql = work.held])
    BY <1>1, <1>2, <1>6, FreeformEnds
  <1> QED  BY <1>3, <1>4, <1>5, <1>6

LEMMA ExecutedIs ==
    ASSUME draft \in QueryDrafts, work \in Works, Executed
    PROVE  /\ node = "query_fetch" /\ work.at = "execute" /\ Sent(work.sql)
           /\ \/ GoesInside /\ work'.at = "judge" /\ work.why # "critique"
              \/ FreeformOver
  <1> DEFINE w == [work EXCEPT !.held = work.sql]
  <1>1. node = "query_fetch" /\ work.at = "execute" /\ Sent(work.sql)
    BY DEF Executed, At
  <1>2. w \in Locals /\ [w EXCEPT !.at = "judge"] \in Works /\ [w EXCEPT !.at = "judge"].at = "judge"
    BY DEF Works, Locals
  <1>3. CASE Inside([w EXCEPT !.at = "judge"]) /\ work.why # "critique"
    BY <1>1, <1>2, <1>3 DEF Inside, GoesInside
  <1>4. CASE FreeformRows(w)
    BY <1>1, <1>2, <1>4, FreeformEnds
  <1> QED  BY <1>3, <1>4 DEF Executed

LEMMA ExecuteFailedIs ==
    ASSUME draft \in QueryDrafts, work \in Works, ExecuteFailed
    PROVE  /\ node = "query_fetch" /\ work.at = "execute" /\ Sent(work.sql)
           /\ \/ /\ GoesInside /\ work.why \in {"first", "drilldown"}
                 /\ work'.at = "generate" /\ work'.why = "error"
              \/ FreeformOver
  <1>1. node = "query_fetch" /\ work.at = "execute" /\ Sent(work.sql)
    BY DEF ExecuteFailed, At
  <1>2. /\ work.why \in {"first", "drilldown", "error", "critique"}
        /\ work.sql \in Sqls \cup {NoSql} /\ [work EXCEPT !.sql = work.held] \in Locals
    BY <1>1 DEF Works, Locals, None
  <1>3. CASE /\ work.why \in {"first", "drilldown"}
             /\ Inside([work EXCEPT !.at = "generate", !.why = "error"])
    BY <1>1, <1>2, <1>3 DEF Inside, GoesInside, Works, Locals, None
  <1>4. CASE FreeformError("execute_failed", work.sql)
    BY <1>1, <1>2, <1>4, FreeformEnds DEF FreeformErrors
  <1>5. CASE FreeformRows([work EXCEPT !.sql = work.held])
    BY <1>1, <1>2, <1>5, FreeformEnds
  <1>6. \/ /\ work.why \in {"first", "drilldown"}
           /\ Inside([work EXCEPT !.at = "generate", !.why = "error"])
        \/ FreeformError("execute_failed", work.sql)
        \/ FreeformRows([work EXCEPT !.sql = work.held])
    BY <1>2 DEF ExecuteFailed
  <1> QED  BY <1>3, <1>4, <1>5, <1>6

LEMMA SqlJudgedIs ==
    ASSUME draft \in QueryDrafts, work \in Works, SqlJudged
    PROVE  /\ node = "query_fetch" /\ work.at = "judge" /\ UNCHANGED executed
           /\ \/ GoesInside /\ work'.at = "generate" /\ work'.why = "critique"
              \/ FreeformOver
  <1>1. node = "query_fetch" /\ work.at = "judge" /\ UNCHANGED executed
    BY DEF SqlJudged, At
  <1>2. CASE Inside([work EXCEPT !.at = "generate", !.why = "critique"])
    BY <1>1, <1>2 DEF Inside, GoesInside, Works, Locals, None
  <1>3. CASE FreeformRows(work)
    BY <1>1, <1>3, FreeformEnds DEF Works
  <1> QED  BY <1>2, <1>3 DEF SqlJudged

LEMMA SynthesizedIs ==
    ASSUME draft \in QueryDrafts, NEW t \in QueryTexts \ {None}, Synthesized(t)
    PROVE  /\ GoesOn /\ node' = "subgraph_finalize" /\ draft'.raw = draft.raw
           /\ draft'.terminalOutcome = Reply("response", t)
  BY DEF Synthesized, Leave, QueryDrafts, Reply, NoReply, GoesOn, None

\* The four steps that put the answer in words.
SynthesizeStep == Synthesize \/ TextJudged \/ TextRetried \/ RetryJudged

\* A text goes out unjudged only if it is not about rows.
LEMMA SynthesizeStepIs ==
    ASSUME draft \in QueryDrafts, work \in Works, SynthesizeStep
    PROVE  /\ node = "query_synthesize" /\ UNCHANGED executed
           /\ \/ GoesInside
              \/ /\ GoesOn /\ node' = "subgraph_finalize" /\ draft'.raw = draft.raw
                 /\ draft'.terminalOutcome.text = "unjudged" =>
                       draft.intent # "cannot_answer" /\ ~NeedsJudge(draft)
  <1>1. node = "query_synthesize" /\ UNCHANGED executed
    BY DEF SynthesizeStep, Synthesize, TextJudged, TextRetried, RetryJudged, At
  <1>2. CASE \E p \in {"judge_text", "retry_text", "judge_retry"} : Inside([work EXCEPT !.at = p])
    BY <1>1, <1>2 DEF Inside, GoesInside, Works, Locals
  <1>3. CASE \E t \in {"fixed", "details", "declined", "approved"} : Synthesized(t)
    <2>1. PICK t \in {"fixed", "details", "declined", "approved"} : Synthesized(t)
      BY <1>3
    <2>2. /\ GoesOn /\ node' = "subgraph_finalize" /\ draft'.raw = draft.raw
          /\ draft'.terminalOutcome = Reply("response", t)
      BY <2>1, SynthesizedIs DEF QueryTexts, None
    <2> QED  BY <1>1, <2>2 DEF Reply
  <1>4. CASE /\ draft.intent # "cannot_answer" /\ ~NeedsJudge(draft)
             /\ Synthesized("unjudged")
    BY <1>1, <1>4, SynthesizedIs DEF QueryTexts, None
  <1>5. Fallback(draft) \in {"fixed", "details"}
    BY DEF Fallback
  <1>6. Written(draft) = "declined"
        \/ (Written(draft) = "unjudged" /\ draft.intent # "cannot_answer")
    BY DEF Written
  <1>7. CASE Synthesize
    BY <1>2, <1>3, <1>4, <1>5, <1>6, <1>7 DEF Synthesize
  <1>8. CASE TextJudged \/ TextRetried \/ RetryJudged
    BY <1>2, <1>3, <1>5, <1>8 DEF TextJudged, TextRetried, RetryJudged
  <1> QED  BY <1>7, <1>8 DEF SynthesizeStep

FreeformStep == \/ FreeformSchema \/ NotGenerated \/ Generated
                \/ Executed \/ ExecuteFailed \/ SqlJudged

LEMMA QueryStepIs ==
    ASSUME SupervisorConstantsOK, TInv, QueryStep
    PROVE  /\ node \in QueryNodes /\ draft \in QueryDrafts /\ work \in Works
           /\ GoesInside \/ GoesOn
           /\ UNCHANGED <<identity, messages>>
  <1>1. node \in QueryNodes /\ draft.kind = "query"
    BY DEF QueryStep, QueryClassify, QueryFetch, FreeformSchema, NotGenerated, Generated, Executed,
       ExecuteFailed, SqlJudged, Synthesize, TextJudged, TextRetried, RetryJudged, At, QueryNodes
  <1>2. draft \in QueryDrafts /\ work \in Works
    BY <1>1, DraftOfKind DEF TInv, Types
  <1>3. UNCHANGED <<identity, messages>>
    BY DEF QueryStep, QueryClassify, QueryFetch, FreeformSchema, NotGenerated, Generated, Executed,
       ExecuteFailed, SqlJudged, Synthesize, TextJudged, TextRetried, RetryJudged
  <1>4. GoesInside \/ GoesOn
    BY <1>2, QueryClassifyIs, QueryFetchIs, FreeformSchemaIs, NotGeneratedIs, GeneratedIs,
       ExecutedIs, ExecuteFailedIs, SqlJudgedIs, SynthesizeStepIs
       DEF QueryStep, SynthesizeStep, FreeformOver
  <1> QED  BY <1>1, <1>2, <1>3, <1>4

-----------------------------------------------------------------------------
(* Types.                                                                  *)

LEMMA LeftType ==
    ASSUME NEW r \in Routings
    PROVE  /\ Left(r) \in Routings /\ Left(r).activeSubgraph = r.activeSubgraph
           /\ Left(r).buttonShortcut = r.buttonShortcut
  BY DEF Left, Routings, NoRouting, NoShortcut, Taps

LEMMA NoTapType == NoShortcut \in Taps
  <1>1. NoShortcut.kind # "confirm"
    BY DEF NoShortcut, None
  <1> QED  BY <1>1 DEF NoShortcut, Taps

LEMMA TurnResetType ==
    ASSUME NEW r \in Routings
    PROVE  /\ TurnReset(r) \in Routings /\ TurnReset(r).activeSubgraph = r.activeSubgraph
           /\ TurnReset(r).buttonShortcut = NoShortcut
  BY NoTapType DEF TurnReset, Routings, NoRouting

LEMMA EndTurnTypes ==
    ASSUME Types, NEW o, EndTurn(o)
    PROVE  /\ node' = "idle" /\ told' = o /\ executed' = <<>>
           /\ node' \in Nodes /\ work' \in Works /\ input' \in Inbox \cup {NoMsg}
           /\ reply' \in Inbox \cup {NoMsg} /\ crm' \subseteq Appts /\ meant' \subseteq Appts \cup {Title}
           /\ fresh' \in BOOLEAN
  BY IdleIsWork DEF EndTurn, Types, Nodes

LEMMA EndGraphTypes ==
    ASSUME TInv, node \in Entrance, NEW o, EndGraph(o),
           UNCHANGED <<messages, status, flying, dangling>>
    PROVE  TInv'
  <1>1. Types'
    BY EndTurnTypes, LeftType DEF EndGraph, TInv, Types
  <1>2. node' = "idle" /\ UNCHANGED draft
    BY EndTurnTypes DEF EndGraph, TInv
  <1>3. paused = None /\ paused' = None
    BY DEF EndGraph, TInv, Kinds, Types, Entrance, Answering, ToolNodes, None
  <1>4. Kinds'
    BY <1>2, <1>3 DEF Kinds, QueryNodes, ConfirmNodes, None
  <1>5. Concluded'
    BY <1>2, <1>3 DEF TInv, Concluded, None
  <1> QED  BY <1>1, <1>4, <1>5 DEF TInv

\* The four nodes that only answer.
Answers == SocialResponder \/ SubgraphPlaceholder \/ AtomicTool \/ SendClientSummary

LEMMA AnswersIs ==
    ASSUME Answers
    PROVE  /\ node \in Answering
           /\ \E o : Answered(o)
  <1>1. node \in Answering
    BY DEF Answers, SocialResponder, SubgraphPlaceholder, AtomicTool, SendClientSummary, Answering,
       ToolNodes, ToolNode, AtomicTools
  <1>2. \E o : Answered(o)
    BY DEF Answers, SocialResponder, SubgraphPlaceholder, AtomicTool, SendClientSummary, Ran
  <1> QED  BY <1>1, <1>2

LEMMA AnswersTypes ==
    ASSUME TInv, Answers
    PROVE  TInv'
  BY AnswersIs, EndGraphTypes DEF Answered, Entrance

LEMMA ArriveTypes ==
    ASSUME TInv, Arrive
    PROVE  TInv'
  <1>1. Types'
    BY DEF Arrive, Opened, TInv, Types, thread, guacuco, Nodes, Entrance, Upcoming, ConfirmNodes, None
  <1>2. Kinds'
    BY InboxType DEF Arrive, Opened, TInv, Types, Kinds, QueryNodes, ConfirmNodes, None
  <1>3. Concluded'
    BY DEF Arrive, Opened, TInv, Types, Concluded, None
  <1> QED  BY <1>1, <1>2, <1>3 DEF TInv

LEMMA ShortcutsType ==
    ASSUME SupervisorConstantsOK, ApptsAreNoTexts, NEW m \in Inbox, NEW s \in Shortcuts(m)
    PROVE  /\ s \in Taps
           /\ s # NoShortcut => m.type \in {"interactive", "template_button"} /\ s.kind # None
           /\ m.type = "interactive" => s.kind \in {"confirm", None}
  <1>1. m \in Messages
    BY InboxType
  <1>2. CASE s = NoShortcut
    BY <1>2 DEF NoShortcut, Taps, None
  <1>3. CASE m.type = "template_button" /\ m.action # None /\ s # NoShortcut
    <2>1. m.action \in {"confirm", "client_summary"} \cup OtherFlows
      BY <1>3 DEF Inbox, Msg, None
    <2>2. s.kind = m.action /\ s.value \in Appts \cup {Title} /\ s = [kind |-> s.kind, value |-> s.value]
      BY <1>3 DEF Shortcuts
    <2>3. s.value # None
      BY <2>2 DEF ApptsAreNoTexts, Texts, QueryTexts, Title, None
    <2> QED  BY <1>3, <2>1, <2>2, <2>3 DEF Taps
  <1>4. CASE m.type = "interactive" /\ m.action # "apt_pick" /\ s # NoShortcut
    <2>1. m.action = "confirm"
      BY <1>4 DEF Inbox, Msg, None
    <2>2. s = [kind |-> m.action, value |-> Title]
      BY <1>4 DEF Shortcuts
    <2> QED  BY <1>4, <2>1, <2>2 DEF Taps, Title, None
  <1> QED  BY <1>2, <1>3, <1>4 DEF Shortcuts

LEMMA RoutedType ==
    ASSUME SupervisorConstantsOK, ApptsAreNoTexts, NEW m \in Inbox, NEW r \in Routings,
           NEW s \in Shortcuts(m)
    PROVE  /\ Routed(m, r, s) \in Routings
           /\ Routed(m, r, s).activeSubgraph = r.activeSubgraph
           /\ r.activeSubgraph = None => Routed(m, r, s).buttonShortcut = s
  <1>1. /\ TurnReset(r) \in Routings /\ TurnReset(r).activeSubgraph = r.activeSubgraph
        /\ TurnReset(r).buttonShortcut = NoShortcut
    BY TurnResetType
  <1>2. s \in Taps
    BY ShortcutsType
  <1>3. detectAtomicTool(m) \in AtomicTools \cup {None}
    BY DEF detectAtomicTool
  <1> DEFINE tr == TurnReset(r)
  <1> HIDE DEF tr
  <1>4. /\ tr \in Routings /\ tr.activeSubgraph = r.activeSubgraph /\ tr.buttonShortcut = NoShortcut
    BY <1>1 DEF tr
  <1>5. /\ [tr EXCEPT !.buttonShortcut = s] \in Routings
        /\ [tr EXCEPT !.buttonShortcut = s].activeSubgraph = r.activeSubgraph
        /\ [tr EXCEPT !.buttonShortcut = s].buttonShortcut = s
        /\ [tr EXCEPT !.targetTool = detectAtomicTool(m)] \in Routings
        /\ [tr EXCEPT !.targetTool = detectAtomicTool(m)].activeSubgraph = r.activeSubgraph
        /\ [tr EXCEPT !.targetTool = detectAtomicTool(m)].buttonShortcut = NoShortcut
    BY <1>2, <1>3, <1>4 DEF Routings
  <1>6. Routed(m, r, s) \in {tr, [tr EXCEPT !.buttonShortcut = s],
                            [tr EXCEPT !.targetTool = detectAtomicTool(m)]}
    BY DEF Routed, tr
  <1>7. r.activeSubgraph = None => Routed(m, r, s).buttonShortcut = s
    BY <1>5 DEF Routed, tr
  <1> QED  BY <1>4, <1>5, <1>6, <1>7

\* Where supervisor_entry leads: to a flow only if there is one to go to, to the answer for
\* old buttons only with a tap.
LEMMA EntryLeads ==
    ASSUME SupervisorConstantsOK, ApptsAreNoTexts, NEW m \in Inbox, NEW r \in Routings,
           NEW s \in Shortcuts(m)
    PROVE  LET q == Routed(m, r, s)
               n == supervisorEntryRouter(m, q)
           IN
           /\ n \in {"subgraph_dispatch", "classify_intent", "tool_send_client_summary",
                     "subgraph_placeholder"}
           /\ n = "subgraph_dispatch" => resolveDispatchTarget(q) # None
           /\ n = "subgraph_placeholder" => m.type \in {"interactive", "template_button"}
  <1> DEFINE q == Routed(m, r, s)
  <1>1. /\ q \in Routings /\ q.activeSubgraph = r.activeSubgraph
        /\ r.activeSubgraph = None => q.buttonShortcut = s
    BY RoutedType
  <1>2. s # NoShortcut => m.type \in {"interactive", "template_button"}
    BY ShortcutsType
  <1> HIDE DEF q
  <1>3. None \notin Flows
    BY DEF SupervisorConstantsOK, Flows, None
  <1>4. supervisorEntryRouter(m, q) \in {"subgraph_dispatch", "classify_intent",
                     "tool_send_client_summary", "subgraph_placeholder"}
    BY DEF supervisorEntryRouter
  <1>5. supervisorEntryRouter(m, q) = "subgraph_dispatch" =>
          q.activeSubgraph # None \/ q.buttonShortcut.kind \in Flows
    BY DEF supervisorEntryRouter
  <1>6. q.activeSubgraph # None \/ q.buttonShortcut.kind \in Flows =>
          resolveDispatchTarget(q) # None
    BY <1>3 DEF resolveDispatchTarget
  <1>7. supervisorEntryRouter(m, q) = "subgraph_placeholder" =>
          q.activeSubgraph = None /\ q.buttonShortcut # NoShortcut
    BY DEF supervisorEntryRouter
  <1> QED  BY <1>1, <1>2, <1>4, <1>5, <1>6, <1>7 DEF q

LEMMA EntryTypes ==
    ASSUME SupervisorConstantsOK, ApptsAreNoTexts, TInv, SupervisorEntry
    PROVE  TInv'
  <1>0. /\ node = "supervisor_entry" /\ UNCHANGED <<messages, status, flying, dangling>>
        /\ input \in Inbox
    BY DEF SupervisorEntry, TInv, Kinds
  <1>1. CASE EndGraph(Canned)
    BY <1>0, <1>1, EndGraphTypes DEF Entrance
  <1>2. CASE /\ \E s \in Shortcuts(input) : routing' = Routed(input, routing, s)
             /\ UNCHANGED <<draft, paused>>
             /\ Goto(supervisorEntryRouter(input, routing'))
    <2>1. PICK s \in Shortcuts(input) : routing' = Routed(input, routing, s)
      BY <1>2
    <2>2. routing \in Routings
      BY DEF TInv, Types
    <2>3. /\ routing' \in Routings
          /\ node' \in {"subgraph_dispatch", "classify_intent", "tool_send_client_summary",
                        "subgraph_placeholder"}
          /\ node' = "subgraph_dispatch" => resolveDispatchTarget(routing') # None
      BY <1>0, <1>2, <2>1, <2>2, RoutedType, EntryLeads DEF Goto, Leads
    <2>4. Types'
      BY <1>0, <1>2, <2>3 DEF TInv, Types, Goto, Leads, Nodes, Entrance, Answering
    <2>5. paused' = None
      BY <1>0, <1>2 DEF TInv, Kinds, Types, None
    <2>6. Kinds'
      BY <2>3, <2>5 DEF Kinds, QueryNodes, ConfirmNodes, None
    <2>7. resolveDispatchTarget(routing)' = resolveDispatchTarget(routing')
      BY DEF resolveDispatchTarget
    <2>8. Concluded'
      BY <1>2, <2>3, <2>7 DEF TInv, Concluded
    <2> QED  BY <2>4, <2>6, <2>8 DEF TInv
  <1> QED  BY <1>1, <1>2 DEF SupervisorEntry

LEMMA ClassificationsType ==
    ASSUME NEW m \in Messages, NEW c \in Frustrated(m) \cup Classifications(m)
    PROVE  /\ c.messageType \in {None, "action", "social", "query", "human_request"}
           /\ c.intent \in Flows \cup AtomicTools \cup {"unknown", None}
           /\ c.takeoverReason \in {None, "sentiment_frustration", "explicit_request"}
  BY DEF Frustrated, Classifications, Classification, ActionIntents

LEMMA ClassifyLeads ==
    ASSUME SupervisorConstantsOK, NEW r \in Routings
    PROVE  LET n == RouteFromSupervisor(r) IN
           /\ n \in ToolNodes \cup {"subgraph_dispatch", "social_responder"}
           /\ n = "subgraph_dispatch" => resolveDispatchTarget(r) # None
           /\ \A t \in AtomicTools : n = ToolNode(t) => t \in getAvailableTools
  <1>1. None \notin Flows /\ "query" # None
    BY DEF SupervisorConstantsOK, Flows, None
  <1>2. \A t \in AtomicTools : ToolNode(t) \in ToolNodes
    BY DEF AtomicTools, ToolNode, ToolNodes
  <1>3. \A t, u \in AtomicTools : ToolNode(t) = ToolNode(u) => t = u
    BY DEF AtomicTools, ToolNode
  <1>4. \/ \E t \in AtomicTools \cap getAvailableTools : RouteFromSupervisor(r) = ToolNode(t)
        \/ AsksForFlow(r) /\ RouteFromSupervisor(r) = "subgraph_dispatch"
        \/ RouteFromSupervisor(r) = "social_responder"
    <2>1. r.targetTool \in AtomicTools \cup {None} /\ None \notin getAvailableTools
      BY DEF Routings, getAvailableTools, SupervisorConstantsOK, Flows, None
    <2> QED  BY <2>1 DEF RouteFromSupervisor
  <1>5. AsksForFlow(r) => resolveDispatchTarget(r) # None
    BY <1>1 DEF AsksForFlow, resolveDispatchTarget
  <1> QED  BY <1>2, <1>3, <1>4, <1>5 DEF ToolNodes

LEMMA ClassifyTypes ==
    ASSUME SupervisorConstantsOK, TInv, ClassifyIntent
    PROVE  /\ TInv'
           /\ \A t \in AtomicTools : node' = ToolNode(t) => t \in getAvailableTools'
  <1>1. input \in Messages /\ routing \in Routings
    BY InboxType DEF TInv, Types
  <1>2. PICK c \in Frustrated(input) \cup Classifications(input) :
          /\ routing' = [routing EXCEPT !.messageType = c.messageType, !.intent = c.intent,
                                        !.takeoverReason = c.takeoverReason]
          /\ Goto(RouteFromSupervisor(routing'))
    BY DEF ClassifyIntent
  <1>3. routing' \in Routings
    BY <1>1, <1>2, ClassificationsType DEF Routings
  <1>4. /\ node' \in ToolNodes \cup {"subgraph_dispatch", "social_responder"}
        /\ node' = "subgraph_dispatch" => resolveDispatchTarget(routing') # None
        /\ \A t \in AtomicTools : node' = ToolNode(t) => t \in getAvailableTools
    BY <1>2, <1>3, ClassifyLeads DEF Goto, Leads
  <1>5. Types'
    BY <1>2, <1>3, <1>4 DEF ClassifyIntent, TInv, Types, Goto, Leads, Nodes, Entrance, Answering
  <1>6. paused' = None /\ UNCHANGED <<draft, identity>>
    BY DEF ClassifyIntent, TInv, Kinds, Types, None
  <1>7. Kinds'
    BY <1>4, <1>6 DEF Kinds, QueryNodes, ConfirmNodes, ToolNodes, None
  <1>8. resolveDispatchTarget(routing)' = resolveDispatchTarget(routing')
    BY DEF resolveDispatchTarget
  <1>9. Concluded'
    BY <1>4, <1>6, <1>8 DEF TInv, Concluded, ToolNodes, None
  <1>10. getAvailableTools' = getAvailableTools
    BY <1>6 DEF getAvailableTools
  <1> QED  BY <1>4, <1>5, <1>7, <1>9, <1>10 DEF TInv

LEMMA ClassifiedTo ==
    ASSUME SupervisorConstantsOK, TInv, ClassifyIntent
    PROVE  node' \in ToolNodes \cup {"subgraph_dispatch", "social_responder"}
  <1>1. PICK c \in Frustrated(input) \cup Classifications(input) :
          /\ routing' = [routing EXCEPT !.messageType = c.messageType, !.intent = c.intent,
                                        !.takeoverReason = c.takeoverReason]
          /\ node' = RouteFromSupervisor(routing')
    BY DEF ClassifyIntent, Goto, Leads
  <1>2. routing' \in Routings
    BY ClassifyTypes DEF TInv, Types
  <1> QED  BY <1>1, <1>2, ClassifyLeads

LEMMA InitialDraftType ==
    ASSUME SupervisorConstantsOK, ApptsAreNoTexts, routing \in Routings, NEW t \in Flows
    PROVE  /\ InitialDraft(t) \in AllDrafts /\ InitialDraft(t).kind = t
           /\ InitialDraft(t).terminalOutcome = NoReply
           /\ t \in {"query", "confirm"} => InitialDraft(t).phase # "failed"
  <1>0. OtherFlows \subseteq {"schedule", "cancel", "reschedule"}
    BY KindsApart
  <1>1. CASE t = "query"
    <2>1. /\ initialQueryDraftState \in QueryDrafts /\ initialQueryDraftState.kind = "query"
          /\ initialQueryDraftState.terminalOutcome = NoReply
          /\ initialQueryDraftState.phase # "failed"
      BY DEF initialQueryDraftState, QueryDrafts, NoReply, Reply, NoRaw, Raw, QueryTexts
    <2> QED  BY <1>1, <2>1 DEF InitialDraft, AllDrafts
  <1>2. CASE t = "confirm"
    <2> DEFINE d == initialConfirmDraftState
               s == routing.buttonShortcut
    <2>1. d \in ConfirmDrafts /\ d.kind = "confirm" /\ d.terminalOutcome = NoReply /\ d.phase # "failed"
      BY DEF initialConfirmDraftState, ConfirmDrafts, NoReply, Reply
    <2>2. s.value \in Appts \cup {Title, None}
      BY DEF Routings, Taps
    <2> HIDE DEF d, s
    <2>3. LET e == [d EXCEPT !.slot = "resolved", !.appt = s.value] IN
            /\ e \in ConfirmDrafts /\ e.kind = "confirm" /\ e.terminalOutcome = NoReply
            /\ e.phase # "failed"
      BY <2>1, <2>2 DEF ConfirmDrafts
    <2>4. LET e == Preseeded(d, s) IN
            /\ e \in ConfirmDrafts /\ e.kind = "confirm" /\ e.terminalOutcome = NoReply
            /\ e.phase # "failed"
      BY <2>1, <2>3 DEF Preseeded
    <2>5. InitialDraft(t) = Preseeded(d, s)
      BY <1>2 DEF InitialDraft, d, s
    <2> QED  BY <1>2, <2>4, <2>5 DEF AllDrafts
  <1>3. CASE t \in OtherFlows
    <2>1. InitialDraft(t) = [kind |-> t, terminalOutcome |-> NoReply]
      BY <1>0, <1>3 DEF InitialDraft
    <2> QED  BY <1>0, <1>3, <2>1 DEF OtherDrafts, AllDrafts
  <1> QED  BY <1>1, <1>2, <1>3 DEF Flows

LEMMA FirstNodeIs ==
    ASSUME SupervisorConstantsOK, NEW t \in Flows
    PROVE  /\ t = "query" => FirstNode(t) = "query_classify"
           /\ t = "confirm" => FirstNode(t) = "confirm_bootstrap"
           /\ t \in OtherFlows => FirstNode(t) = "elsewhere"
           /\ t \in {"query", "confirm"} \cup OtherFlows
  BY KindsApart DEF FirstNode, Flows

LEMMA PointedAtType == routing \in Routings => PointedAt \subseteq Appts \cup {Title}
  BY DEF PointedAt, Routings, Taps

\* The dispatcher always has a flow to go to.
LEMMA DispatchIs ==
    ASSUME SupervisorConstantsOK, TInv, SubgraphDispatch
    PROVE  LET t == resolveDispatchTarget(routing) IN
           /\ t \in Flows /\ t # None /\ node = "subgraph_dispatch"
           /\ routing' = [routing EXCEPT !.activeSubgraph = t]
           /\ draft' = IF draft.kind = t THEN draft ELSE InitialDraft(t)
           /\ meant' = IF t = "confirm" /\ draft.kind # t THEN PointedAt ELSE {}
           /\ fresh' = (draft.kind # t)
           /\ node' = FirstNode(t)
           /\ UNCHANGED <<work, input, crm, executed, told, reply, answer, messages, paused,
                          status, flying, confirmed, dangling, identity, events>>
  <1> DEFINE t == resolveDispatchTarget(routing)
  <1>1. t # None /\ node = "subgraph_dispatch"
    BY DEF SubgraphDispatch, TInv, Concluded
  <1>2. routing.activeSubgraph \in Flows \cup {None}
    BY DEF TInv, Types, Routings
  <1>3. t \in Flows
    <2>1. t \in Flows \cup {None}
      BY <1>2 DEF resolveDispatchTarget, Flows
    <2> QED  BY <1>1, <2>1
  <1> HIDE DEF t
  <1> QED  BY <1>1, <1>3 DEF SubgraphDispatch, Leads, t

LEMMA DispatchTypes ==
    ASSUME SupervisorConstantsOK, ApptsAreNoTexts, TInv, SubgraphDispatch
    PROVE  TInv'
  <1> DEFINE t == resolveDispatchTarget(routing)
  <1>1. /\ t \in Flows /\ t # None /\ node = "subgraph_dispatch"
        /\ routing' = [routing EXCEPT !.activeSubgraph = t]
        /\ draft' = IF draft.kind = t THEN draft ELSE InitialDraft(t)
        /\ meant' = IF t = "confirm" /\ draft.kind # t THEN PointedAt ELSE {}
        /\ fresh' = (draft.kind # t)
        /\ node' = FirstNode(t)
        /\ UNCHANGED <<work, input, crm, reply, messages, paused, status, flying, dangling>>
    BY DispatchIs
  <1>2. routing \in Routings /\ draft \in AllDrafts
    BY DEF TInv, Types
  <1> HIDE DEF t
  <1>3. routing' \in Routings
    BY <1>1, <1>2 DEF Routings
  <1>4. draft' \in AllDrafts /\ draft'.kind = t
    BY <1>1, <1>2, InitialDraftType
  <1>5. t \in {"query", "confirm"} /\ draft'.phase = "failed" => draft'.terminalOutcome # NoReply
    BY <1>1, <1>2, InitialDraftType DEF TInv, Concluded
  <1>6. meant' \subseteq Appts \cup {Title}
    BY <1>1, PointedAtType DEF TInv, Types
  <1>7. /\ t = "query" => node' = "query_classify"
        /\ t = "confirm" => node' = "confirm_bootstrap"
        /\ t \in OtherFlows => node' = "elsewhere"
        /\ t \in {"query", "confirm"} \cup OtherFlows
    BY <1>1, FirstNodeIs
  <1>8. Types'
    BY <1>1, <1>3, <1>4, <1>6, <1>7 DEF TInv, Types, Nodes, QueryNodes, ConfirmNodes
  <1>9. paused' = None
    BY <1>1 DEF TInv, Types, Kinds, None
  <1>10. Kinds'
    BY <1>4, <1>7, <1>9 DEF Kinds, QueryNodes, ConfirmNodes, None
  <1>11. Concluded'
    BY <1>4, <1>5, <1>7, <1>9 DEF Concluded, None
  <1> QED  BY <1>8, <1>10, <1>11 DEF TInv

\* The nodes of confirm: each makes one of these drafts of the one it has.
LEMMA FailedConfirmType ==
    ASSUME NEW d \in ConfirmDrafts, NEW a \in {"response", "error", "handed_off"},
           NEW t \in ConfirmTexts
    PROVE  /\ FailedConfirm(d, a, t) \in ConfirmDrafts
           /\ FailedConfirm(d, a, t).phase = "failed"
           /\ FailedConfirm(d, a, t).terminalOutcome = Reply(a, t)
           /\ Reply(a, t) # NoReply
           /\ FailedConfirm(d, a, t).appt = d.appt
  BY DEF FailedConfirm, ConfirmDrafts, Reply, NoReply, None

LEMMA TheOneOf ==
    ASSUME IsOne(crm)
    PROVE  (CHOOSE a \in crm : TRUE) \in crm /\ \A a \in crm : crm = {a}
  <1>1. PICK a \in crm : crm = {a}
    BY DEF IsOne
  <1>2. (CHOOSE x \in crm : TRUE) \in crm
    BY <1>1
  <1>3. \A b \in crm : b = a
    BY <1>1
  <1>4. \A b \in crm : crm = {b}
    BY <1>1, <1>3
  <1> QED  BY <1>2, <1>4

LEMMA BootstrappedIs ==
    ASSUME NEW d \in ConfirmDrafts, crm \subseteq Appts
    PROVE  LET e == Bootstrapped(d) IN
           /\ e \in ConfirmDrafts
           /\ e.phase \in {"committing", "collecting", "failed"}
           /\ e.phase = "failed" => /\ e.terminalOutcome # NoReply
                                    /\ e.terminalOutcome.text = "no_upcomings"
           /\ e.phase # "failed" => e.terminalOutcome = d.terminalOutcome
           /\ e.phase = "committing" =>
                 /\ e.slot = "resolved" /\ e.appt \in crm
                 /\ e.appt = d.appt \/ crm = {e.appt}
                 /\ d.slot = "resolved" /\ d.appt \in crm => e.appt = d.appt
  <1>1. CASE d.slot = "resolved" /\ d.appt \in crm
    <2>1. Bootstrapped(d) = [d EXCEPT !.phase = "committing"]
      BY <1>1 DEF Bootstrapped
    <2> QED  BY <1>1, <2>1 DEF ConfirmDrafts
  <1>2. CASE ~(d.slot = "resolved" /\ d.appt \in crm) /\ crm = {}
    <2>1. ~IsOne(crm)
      BY <1>2 DEF IsOne
    <2>2. Bootstrapped(d) = FailedConfirm(d, "response", "no_upcomings")
      BY <1>2, <2>1 DEF Bootstrapped
    <2>3. Reply("response", "no_upcomings").text = "no_upcomings"
      BY DEF Reply
    <2> QED  BY <2>2, <2>3, FailedConfirmType DEF ConfirmTexts
  <1>3. CASE ~(d.slot = "resolved" /\ d.appt \in crm) /\ IsOne(crm)
    <2> DEFINE a == CHOOSE x \in crm : TRUE
    <2>1. a \in crm /\ crm # {}
      BY <1>3, TheOneOf
    <2>2. Bootstrapped(d) = [d EXCEPT !.slot = "resolved", !.appt = a, !.phase = "committing"]
      BY <1>3, <2>1 DEF Bootstrapped
    <2> HIDE DEF a
    <2>3. crm = {a}
      BY <1>3, <2>1, TheOneOf
    <2>4. LET e == [d EXCEPT !.slot = "resolved", !.appt = a, !.phase = "committing"] IN
            /\ e \in ConfirmDrafts /\ e.phase = "committing" /\ e.slot = "resolved" /\ e.appt = a
            /\ e.terminalOutcome = d.terminalOutcome
      BY <2>1 DEF ConfirmDrafts
    <2> QED  BY <1>3, <2>1, <2>2, <2>3, <2>4
  <1>4. CASE ~(d.slot = "resolved" /\ d.appt \in crm) /\ crm # {} /\ ~IsOne(crm)
    <2>1. Bootstrapped(d) = [d EXCEPT !.phase = "collecting"]
      BY <1>4 DEF Bootstrapped
    <2> QED  BY <2>1 DEF ConfirmDrafts
  <1> QED  BY <1>1, <1>2, <1>3, <1>4

LEMMA InterpretReplyIs ==
    ASSUME NEW d \in ConfirmDrafts, NEW m \in Messages, crm \subseteq Appts
    PROVE  LET e == [InterpretReply(d, m) EXCEPT !.attempts = @ + 1] IN
           /\ e \in ConfirmDrafts /\ e.terminalOutcome = d.terminalOutcome
           /\ \/ e.phase = d.phase
              \/ /\ e.phase = "committing" /\ e.slot = "resolved"
                 /\ m.action = "apt_pick" /\ e.appt = m.appt
  <1> DEFINE i == InterpretReply(d, m)
  <1>1. /\ i \in ConfirmDrafts /\ i.terminalOutcome = d.terminalOutcome
        /\ \/ i.phase = d.phase
           \/ /\ i.phase = "committing" /\ i.slot = "resolved"
              /\ m.action = "apt_pick" /\ i.appt = m.appt
    <2>1. CASE m.action = "apt_pick" /\ m.appt \in crm
      BY <2>1 DEF InterpretReply, ConfirmDrafts
    <2>2. CASE ~(m.action = "apt_pick" /\ m.appt \in crm) /\ m.text # None
      BY <2>2 DEF InterpretReply, ConfirmDrafts
    <2>3. CASE ~(m.action = "apt_pick" /\ m.appt \in crm) /\ m.text = None
      BY <2>3 DEF InterpretReply
    <2> QED  BY <2>1, <2>2, <2>3
  <1> HIDE DEF i
  <1>2. LET e == [i EXCEPT !.attempts = @ + 1] IN
          /\ e \in ConfirmDrafts /\ e.terminalOutcome = i.terminalOutcome /\ e.phase = i.phase
          /\ e.slot = i.slot /\ e.appt = i.appt
    BY <1>1 DEF ConfirmDrafts
  <1> QED  BY <1>1, <1>2 DEF i

LEMMA ConfirmCommittedIs ==
    ASSUME NEW d \in ConfirmDrafts, NEW a
    PROVE  LET e == ConfirmCommitted(d, a) IN
           /\ e \in ConfirmDrafts /\ e.appt = d.appt
           /\ \/ /\ e.phase = "done" /\ a \in {"ok", "APPOINTMENT_ALREADY_CONFIRMED"}
                 /\ e.terminalOutcome = d.terminalOutcome
              \/ /\ e.phase = "failed" /\ e.terminalOutcome # NoReply
                 /\ e.terminalOutcome.text \in ConfirmTexts
  <1>1. CASE a \in {"ok", "APPOINTMENT_ALREADY_CONFIRMED"}
    <2>1. ConfirmCommitted(d, a) = [d EXCEPT !.phase = "done"]
      BY <1>1 DEF ConfirmCommitted, None
    <2> QED  BY <1>1, <2>1 DEF ConfirmDrafts
  <1>2. CASE a \notin {"ok", "APPOINTMENT_ALREADY_CONFIRMED"}
    <2>1. PICK p \in {"response", "error", "handed_off"}, t \in ConfirmTexts :
            ConfirmCommitted(d, a) = FailedConfirm(d, p, t)
      BY <1>2 DEF ConfirmCommitted, ConfirmTexts
    <2>2. Reply(p, t).text = t
      BY DEF Reply
    <2> QED  BY <2>1, <2>2, FailedConfirmType
  <1> QED  BY <1>1, <1>2

LEMMA BootstrapTypes ==
    ASSUME SupervisorConstantsOK, TInv, ConfirmBootstrap
    PROVE  TInv'
  <1>1. /\ node = "confirm_bootstrap" /\ draft' = Bootstrapped(draft)
        /\ node' = RouteAfterConfirmBootstrap(draft')
        /\ UNCHANGED <<work, input, crm, reply, meant, fresh, messages, dangling, paused, routing,
                       status, flying>>
    BY DEF ConfirmBootstrap, Goto, Leads, FlowFrame
  <1>2. draft \in ConfirmDrafts /\ crm \subseteq Appts
    BY <1>1, DraftOfKind DEF TInv, Types, Kinds, ConfirmNodes
  <1>3. /\ draft' \in ConfirmDrafts /\ draft'.phase \in {"committing", "collecting", "failed"}
        /\ draft'.phase = "failed" => draft'.terminalOutcome # NoReply
        /\ draft'.phase = "committing" => draft'.appt \in Appts
    BY <1>1, <1>2, BootstrappedIs
  <1>4. /\ node' \in {"subgraph_finalize", "confirm_commit", "confirm_ask_slot"}
        /\ node' = "subgraph_finalize" => draft'.terminalOutcome # NoReply
        /\ node' = "confirm_ask_slot" => draft'.phase = "collecting"
        /\ node' = "confirm_commit" => draft'.phase = "committing"
    BY <1>1, <1>3 DEF RouteAfterConfirmBootstrap, IsActiveDraft
  <1>5. paused' = None
    BY <1>1 DEF TInv, Types, Kinds, None
  <1>6. draft'.kind = "confirm"
    BY <1>3, KindsApart
  <1>7. Types'
    BY <1>1, <1>3, <1>4 DEF TInv, Types, AllDrafts, Nodes, ConfirmNodes
  <1>8. Kinds'
    BY <1>4, <1>5, <1>6 DEF Kinds, QueryNodes, None
  <1>9. Concluded'
    BY <1>3, <1>4, <1>5, <1>6 DEF Concluded, None
  <1> QED  BY <1>7, <1>8, <1>9 DEF TInv

LEMMA InterruptTypes ==
    ASSUME TInv, NEW n \in {"elsewhere", "confirm_ask_slot"}, NEW q, node = n, Interrupt(n, q),
           UNCHANGED <<messages, status, flying, dangling>>
    PROVE  TInv'
  <1>1. /\ EndTurn(Reply("interrupt", q)) /\ paused' = n /\ UNCHANGED draft
        /\ routing' = Left(routing)
    BY DEF Interrupt
  <1>2. Types'
    BY <1>1, EndTurnTypes, LeftType DEF TInv, Types
  <1>3. node' = "idle"
    BY <1>1, EndTurnTypes DEF TInv
  <1>4. Kinds'
    BY <1>1, <1>3 DEF TInv, Kinds, QueryNodes, ConfirmNodes
  <1>5. Concluded'
    BY <1>1, <1>3 DEF TInv, Concluded
  <1> QED  BY <1>2, <1>4, <1>5 DEF TInv

LEMMA AskSlotTypes ==
    ASSUME SupervisorConstantsOK, TInv, ConfirmAskSlot
    PROVE  TInv'
  <1>1. /\ node = "confirm_ask_slot"
        /\ UNCHANGED <<messages, dangling, status, flying>>
    BY DEF ConfirmAskSlot, FlowFrame
  <1>2. CASE Interrupt("confirm_ask_slot", "which")
    BY <1>1, <1>2, InterruptTypes
  <1>3. CASE /\ draft' = FailedConfirm(draft, "handed_off", "which")
             /\ Goto(RouteAfterConfirmAskSlot(draft')) /\ UNCHANGED <<paused, routing>>
    <2>1. draft \in ConfirmDrafts
      BY <1>1, DraftOfKind DEF TInv, Types, Kinds, ConfirmNodes
    <2>2. /\ draft' \in ConfirmDrafts /\ draft'.phase = "failed"
          /\ draft'.terminalOutcome # NoReply
      BY <1>3, <2>1, FailedConfirmType DEF ConfirmTexts
    <2>3. node' = "subgraph_finalize"
      BY <1>3, <2>2 DEF Goto, Leads, RouteAfterConfirmAskSlot, IsActiveDraft
    <2>4. draft'.kind = "confirm"
      BY <2>2, KindsApart
    <2>5. Types'
      BY <1>1, <1>3, <2>2, <2>3 DEF Goto, Leads, TInv, Types, AllDrafts, Nodes
    <2>6. reply = NoMsg /\ paused' = paused /\ reply' = NoMsg
      BY <1>3 DEF ConfirmAskSlot, Goto
    <2>7. paused' = None
      BY <1>1, <2>6 DEF TInv, Kinds
    <2>8. Kinds'
      BY <2>3, <2>4, <2>7 DEF Kinds, QueryNodes, None
    <2>9. Concluded'
      BY <2>2, <2>3, <2>4, <2>7 DEF Concluded, None
    <2> QED  BY <2>5, <2>8, <2>9 DEF TInv
  <1> QED  BY <1>2, <1>3 DEF ConfirmAskSlot

LEMMA AskSlotResumedTypes ==
    ASSUME SupervisorConstantsOK, TInv, ConfirmAskSlotResumed
    PROVE  TInv'
  <1>1. /\ node = "confirm_ask_slot" /\ draft' = [InterpretReply(draft, reply) EXCEPT !.attempts = @ + 1]
        /\ paused' = None /\ reply' = NoMsg
        /\ meant' = IF reply.action = "apt_pick" THEN {reply.appt} ELSE {}
        /\ node' = RouteAfterConfirmAskSlot(draft')
        /\ UNCHANGED <<work, input, crm, fresh, messages, dangling, routing, status, flying>>
        /\ reply \in Inbox
    BY DEF ConfirmAskSlotResumed, Leads, FlowFrame, TInv, Types
  <1>2. draft \in ConfirmDrafts /\ crm \subseteq Appts /\ reply \in Messages
    BY <1>1, DraftOfKind, InboxType DEF TInv, Types, Kinds, ConfirmNodes
  <1>3. draft.phase = "collecting"
    BY <1>1 DEF TInv, Concluded
  <1>4. /\ draft' \in ConfirmDrafts /\ draft'.phase \in {"committing", "collecting"}
        /\ draft'.phase = "committing" => draft'.appt = reply.appt /\ reply.action = "apt_pick"
    BY <1>1, <1>2, <1>3, InterpretReplyIs
  <1>5. /\ node' \in {"subgraph_finalize", "confirm_commit", "confirm_ask_slot"}
        /\ node' = "subgraph_finalize" => draft'.terminalOutcome # NoReply
        /\ node' = "confirm_ask_slot" => draft'.phase = "collecting"
        /\ node' = "confirm_commit" => draft'.phase = "committing"
    BY <1>1, <1>4 DEF RouteAfterConfirmAskSlot, IsActiveDraft
  <1>6. draft'.kind = "confirm"
    BY <1>4, KindsApart
  <1>7. reply.action = "apt_pick" => reply.appt \in Appts
    BY <1>1, KindsApart DEF Inbox, Msg, AtomicTools, None
  <1>8. meant' \subseteq Appts \cup {Title}
    BY <1>1, <1>7
  <1>9. Types'
    BY <1>1, <1>4, <1>5, <1>8 DEF TInv, Types, AllDrafts, Nodes, ConfirmNodes
  <1>10. Kinds'
    BY <1>1, <1>5, <1>6 DEF Kinds, QueryNodes, None
  <1>11. Concluded'
    BY <1>1, <1>4, <1>5, <1>6, <1>7 DEF Concluded, None
  <1> QED  BY <1>9, <1>10, <1>11 DEF TInv

LEMMA CommitTypes ==
    ASSUME SupervisorConstantsOK, TInv, ConfirmCommit
    PROVE  TInv'
  <1>1. /\ node = "confirm_commit" /\ draft.appt \in Appts
        /\ UNCHANGED <<work, input, crm, reply, meant, fresh, messages, dangling, paused, routing,
                       status>>
    BY DEF ConfirmCommit, Goto, Leads, FlowFrame, TInv, Concluded
  <1>2. draft \in ConfirmDrafts
    BY <1>1, DraftOfKind DEF TInv, Types, Kinds, ConfirmNodes
  <1>3. paused' = None
    BY <1>1 DEF TInv, Types, Kinds, None
  <1>4. CASE draft' = FailedConfirm(draft, "error", "invariant") /\ node' = "subgraph_finalize"
             /\ UNCHANGED flying
    <2>1. /\ draft' \in ConfirmDrafts /\ draft'.phase = "failed"
          /\ draft'.terminalOutcome # NoReply
      BY <1>2, <1>4, FailedConfirmType DEF ConfirmTexts
    <2>2. draft'.kind = "confirm"
      BY <2>1, KindsApart
    <2>3. Types'
      BY <1>1, <1>4, <2>1 DEF TInv, Types, AllDrafts, Nodes
    <2>4. Kinds'
      BY <1>3, <1>4, <2>2 DEF Kinds, QueryNodes, None
    <2>5. Concluded'
      BY <1>3, <1>4, <2>1, <2>2 DEF Concluded, None
    <2> QED  BY <2>3, <2>4, <2>5 DEF TInv
  <1>5. CASE flying' \in {flying, flying \cup {draft.appt}} /\ node' = "guacuco" /\ UNCHANGED draft
    <2>1. draft.kind = "confirm"
      BY <1>2, KindsApart
    <2>2. Types'
      BY <1>1, <1>5 DEF TInv, Types, Nodes, ConfirmNodes
    <2>3. Kinds'
      BY <1>3, <1>5, <2>1 DEF Kinds, QueryNodes, None
    <2>4. Concluded'
      BY <1>1, <1>3, <1>5 DEF TInv, Concluded, None
    <2> QED  BY <2>2, <2>3, <2>4 DEF TInv
  <1> QED  BY <1>4, <1>5 DEF ConfirmCommit, Goto, Leads

LEMMA CommitAnsweredTypes ==
    ASSUME SupervisorConstantsOK, TInv, ConfirmAnswered
    PROVE  TInv'
  <1>1. /\ node = "guacuco" /\ node' = RouteAfterConfirmCommit(draft') /\ draft.appt \in Appts
        /\ UNCHANGED <<work, input, crm, reply, meant, fresh, messages, dangling, paused, routing,
                       status, flying>>
    BY DEF ConfirmAnswered, Leads, FlowFrame, TInv, Concluded
  <1>2. PICK a : draft' = ConfirmCommitted(draft, a)
    BY DEF ConfirmAnswered
  <1>3. draft \in ConfirmDrafts
    BY <1>1, DraftOfKind DEF TInv, Types, Kinds, ConfirmNodes
  <1>4. /\ draft' \in ConfirmDrafts /\ draft'.appt = draft.appt
        /\ draft'.phase \in {"done", "failed"}
        /\ draft'.phase = "failed" => draft'.terminalOutcome # NoReply
    BY <1>2, <1>3, ConfirmCommittedIs
  <1>5. /\ node' \in {"subgraph_finalize", "confirm_success"}
        /\ node' = "subgraph_finalize" => draft'.terminalOutcome # NoReply
    BY <1>1, <1>4 DEF RouteAfterConfirmCommit, IsActiveDraft
  <1>6. paused' = None
    BY <1>1 DEF TInv, Types, Kinds, None
  <1>7. draft'.kind = "confirm"
    BY <1>4, KindsApart
  <1>8. Types'
    BY <1>1, <1>4, <1>5 DEF TInv, Types, AllDrafts, Nodes, ConfirmNodes
  <1>9. Kinds'
    BY <1>5, <1>6, <1>7 DEF Kinds, QueryNodes, None
  <1>10. Concluded'
    BY <1>1, <1>4, <1>5, <1>6, <1>7 DEF Concluded, None
  <1> QED  BY <1>8, <1>9, <1>10 DEF TInv

LEMMA SuccessIs ==
    ASSUME SupervisorConstantsOK, TInv, ConfirmSuccess
    PROVE  /\ TInv'
           /\ node = "confirm_success" /\ draft.kind = "confirm" /\ node' = "subgraph_finalize"
           /\ draft'.kind = "confirm" /\ draft'.phase = draft.phase /\ draft'.appt = draft.appt
           /\ draft'.terminalOutcome = Reply("response", draft.appt) /\ draft.appt \in Appts
  <1>1. /\ node = "confirm_success" /\ node' = "subgraph_finalize" /\ draft.appt \in Appts
        /\ draft' = [draft EXCEPT !.terminalOutcome = Reply("response", draft.appt)]
        /\ UNCHANGED <<work, input, crm, reply, meant, fresh, messages, dangling, paused, routing,
                       status, flying>>
    BY DEF ConfirmSuccess, Goto, Leads, FlowFrame, TInv, Concluded
  <1>2. draft \in ConfirmDrafts
    BY <1>1, DraftOfKind DEF TInv, Types, Kinds, ConfirmNodes
  <1>3. /\ draft' \in ConfirmDrafts /\ draft'.terminalOutcome # NoReply
        /\ draft'.phase = draft.phase /\ draft'.appt = draft.appt
        /\ draft'.terminalOutcome = Reply("response", draft.appt)
    BY <1>1, <1>2 DEF ConfirmDrafts, Reply, NoReply, None
  <1>4. paused' = None
    BY <1>1 DEF TInv, Types, Kinds, None
  <1>5. draft'.kind = "confirm" /\ draft.kind = "confirm"
    BY <1>2, <1>3, KindsApart
  <1>6. Types'
    BY <1>1, <1>3 DEF TInv, Types, AllDrafts, Nodes
  <1>7. Kinds'
    BY <1>1, <1>4, <1>5 DEF Kinds, QueryNodes, None
  <1>8. Concluded'
    BY <1>1, <1>3, <1>4, <1>5 DEF Concluded, None
  <1> QED  BY <1>1, <1>3, <1>5, <1>6, <1>7, <1>8 DEF TInv

LEMMA ElsewhereTypes ==
    ASSUME SupervisorConstantsOK, TInv, Elsewhere
    PROVE  TInv'
  <1>1. /\ node = "elsewhere" /\ draft.kind \in OtherFlows
        /\ UNCHANGED <<messages, dangling, status, flying>>
    BY DEF Elsewhere, FlowFrame, TInv, Kinds
  <1>2. CASE Interrupt("elsewhere", "elsewhere")
    BY <1>1, <1>2, InterruptTypes
  <1>3. CASE /\ draft' = [draft EXCEPT !.terminalOutcome = Reply("response", "elsewhere")]
             /\ paused' = None /\ reply' = NoMsg
             /\ Leads("subgraph_finalize") /\ UNCHANGED <<answer, meant, fresh, routing>>
    <2>1. draft \in OtherDrafts
      BY <1>1, DraftOfKind DEF TInv, Types
    <2>2. /\ draft' \in OtherDrafts /\ draft'.kind = draft.kind
          /\ draft'.terminalOutcome # NoReply
      BY <1>3, <2>1 DEF OtherDrafts, Reply, NoReply, None
    <2>3. draft'.kind \notin {"query", "confirm", None}
      BY <1>1, <2>2, KindsApart DEF None
    <2>4. Types'
      BY <1>1, <1>3, <2>2 DEF Leads, TInv, Types, AllDrafts, Nodes
    <2>5. Kinds'
      BY <1>3 DEF Leads, Kinds, QueryNodes, ConfirmNodes, None
    <2>6. Concluded'
      BY <1>3, <2>2, <2>3 DEF Leads, Concluded, None
    <2> QED  BY <2>4, <2>5, <2>6 DEF TInv
  <1> QED  BY <1>2, <1>3 DEF Elsewhere

LEMMA QueryTurnTypes ==
    ASSUME SupervisorConstantsOK, TInv, QueryTurn
    PROVE  TInv'
  <1>1. /\ node \in QueryNodes /\ draft \in QueryDrafts
        /\ GoesInside \/ GoesOn
        /\ UNCHANGED <<messages, input, reply, routing, paused, crm, status, flying, meant, fresh,
                       dangling>>
    BY QueryStepIs DEF QueryTurn, guacuco, history
  <1>2. paused' = None
    BY <1>1 DEF TInv, Types, Kinds, QueryNodes, None
  <1>3. CASE GoesInside
    <2>1. Types'
      BY <1>1, <1>3 DEF GoesInside, TInv, Types
    <2>2. Kinds'
      BY <1>1, <1>2, <1>3 DEF GoesInside, TInv, Kinds, QueryNodes, ConfirmNodes, None
    <2>3. Concluded'
      BY <1>1, <1>2, <1>3 DEF GoesInside, TInv, Concluded, QueryNodes, None
    <2> QED  BY <2>1, <2>2, <2>3 DEF TInv
  <1>4. CASE GoesOn
    <2>1. draft'.kind = "query"
      BY <1>4, KindsApart DEF GoesOn
    <2>2. Types'
      BY <1>1, <1>4, IdleIsWork DEF GoesOn, TInv, Types, AllDrafts, Nodes, QueryNodes
    <2>3. Kinds'
      BY <1>2, <1>4, <2>1 DEF GoesOn, Kinds, QueryNodes, ConfirmNodes, None
    <2>4. Concluded'
      BY <1>2, <1>4, <2>1 DEF GoesOn, Concluded, None
    <2> QED  BY <2>2, <2>3, <2>4 DEF TInv
  <1> QED  BY <1>1, <1>3, <1>4

LEMMA ClearedType ==
    ASSUME NEW r \in Routings
    PROVE  Cleared(r) \in Routings /\ Cleared(r).activeSubgraph = None
  BY DEF Cleared, Routings

LEMMA FinalizeTypes ==
    ASSUME TInv, Finalize
    PROVE  TInv'
  <1>1. /\ node = "subgraph_finalize" /\ draft' = NoDraft /\ routing' = Left(Cleared(routing))
        /\ paused' = None /\ dangling' = FALSE /\ messages' \in {"plain", "figures"}
        /\ EndTurn(FinalOutcome(draft)) /\ UNCHANGED <<status, flying>>
    BY DEF Finalize
  <1>2. routing' \in Routings
    BY <1>1, ClearedType, LeftType DEF TInv, Types
  <1>3. node' = "idle"
    BY <1>1, EndTurnTypes DEF TInv
  <1>4. Types'
    BY <1>1, <1>2, EndTurnTypes DEF TInv, Types, AllDrafts
  <1>5. Kinds'
    BY <1>1, <1>3 DEF Kinds, QueryNodes, ConfirmNodes, None
  <1>6. draft'.kind = None
    BY <1>1 DEF NoDraft
  <1>7. Concluded'
    BY <1>1, <1>3, <1>6 DEF Concluded, None
  <1> QED  BY <1>4, <1>5, <1>7 DEF TInv

LEMMA DiesTypes ==
    ASSUME TInv, Dies
    PROVE  TInv'
  <1>1. /\ EndTurn(Reply("error", "generic")) /\ routing' = Left(routing) /\ dangling' \in BOOLEAN
        /\ UNCHANGED <<paused, draft, messages, status, flying>>
    BY DEF Dies, TInv, Types
  <1>2. Types'
    BY <1>1, EndTurnTypes, LeftType DEF TInv, Types
  <1>3. node' = "idle"
    BY <1>1, EndTurnTypes DEF TInv
  <1>4. Kinds'
    BY <1>1, <1>3 DEF TInv, Kinds, QueryNodes, ConfirmNodes
  <1>5. Concluded'
    BY <1>1, <1>3 DEF TInv, Concluded
  <1> QED  BY <1>2, <1>4, <1>5 DEF TInv

\* Guacuco, and what others do to the appointments.
Outside == GuacucoConfirm \/ CancelledElsewhere

LEMMA OutsideIs ==
    ASSUME TInv, Outside
    PROVE  /\ UNCHANGED <<turn, thread, history, identity, executed, told>>
           /\ flying' \subseteq flying
           /\ status' \in [Appts -> {"pending", "confirmed", "gone"}]
  BY DEF Outside, GuacucoConfirm, CancelledElsewhere, TInv, Types

LEMMA OutsideTypes ==
    ASSUME TInv, Outside
    PROVE  TInv'
  <1>1. /\ UNCHANGED <<node, work, input, reply, draft, messages, routing, paused, crm,
                       meant, fresh, dangling>>
        /\ flying' \subseteq Appts
        /\ status' \in [Appts -> {"pending", "confirmed", "gone"}]
    BY OutsideIs DEF turn, thread, history, TInv, Types
  <1>2. Types'
    BY <1>1 DEF TInv, Types
  <1>3. Kinds'
    BY <1>1 DEF TInv, Kinds
  <1>4. resolveDispatchTarget(routing)' = resolveDispatchTarget(routing)
    BY <1>1 DEF resolveDispatchTarget
  <1>5. Concluded'
    BY <1>1, <1>4 DEF TInv, Concluded
  <1> QED  BY <1>2, <1>3, <1>5 DEF TInv

LEMMA StutterTypes ==
    ASSUME TInv, UNCHANGED vars
    PROVE  TInv'
  <1>1. /\ UNCHANGED <<node, work, input, reply, draft, messages, routing, paused, crm,
                       meant, fresh, dangling, flying, status>>
    BY DEF vars, turn, thread, history, guacuco
  <1>2. Types'
    BY <1>1 DEF TInv, Types
  <1>3. Kinds'
    BY <1>1 DEF TInv, Kinds
  <1>4. resolveDispatchTarget(routing)' = resolveDispatchTarget(routing)
    BY <1>1 DEF resolveDispatchTarget
  <1>5. Concluded'
    BY <1>1, <1>4 DEF TInv, Concluded
  <1> QED  BY <1>2, <1>3, <1>5 DEF TInv

\* The steps, one by one.
LEMMA Steps ==
    ASSUME [Next]_vars
    PROVE  \/ Arrive \/ SupervisorEntry \/ ClassifyIntent \/ Answers \/ SubgraphDispatch
           \/ Elsewhere \/ QueryTurn
           \/ ConfirmBootstrap \/ ConfirmAskSlot \/ ConfirmAskSlotResumed
           \/ ConfirmCommit \/ ConfirmAnswered \/ ConfirmSuccess
           \/ Finalize \/ Dies \/ Outside \/ UNCHANGED vars
  BY DEF Next, TurnStep, Answers, Outside

LEMMA TInvInit ==
    ASSUME SupervisorConstantsOK, Init
    PROVE  TInv
  <1>1. NoRouting \in Routings
    BY NoTapType DEF NoRouting, Routings
  <1>2. Types
    BY <1>1, IdleIsWork DEF Init, Types, Nodes, AllDrafts
  <1>3. Kinds
    BY DEF Init, Kinds, QueryNodes, ConfirmNodes, None
  <1>4. draft.kind = None
    BY DEF Init, NoDraft
  <1>5. Concluded
    BY <1>4 DEF Init, Concluded, None
  <1> QED  BY <1>2, <1>3, <1>5 DEF TInv

LEMMA TInvStep ==
    ASSUME SupervisorConstantsOK, ApptsAreNoTexts, TInv, [Next]_vars
    PROVE  TInv'
  BY Steps, ArriveTypes, EntryTypes, ClassifyTypes, AnswersTypes, DispatchTypes, ElsewhereTypes,
     QueryTurnTypes, BootstrapTypes, AskSlotTypes, AskSlotResumedTypes, CommitTypes,
     CommitAnsweredTypes, SuccessIs, FinalizeTypes, DiesTypes, OutsideTypes, StutterTypes

\* The types, the kinds of draft, and what a flow that is over has to say, in every state.
THEOREM TypesHold == Spec => []TInv
  <1>1. Init => TInv
    BY TInvInit, SupervisorConstantsOK
  <1>2. TInv /\ [Next]_vars => TInv'
    BY TInvStep, SupervisorConstantsOK, ApptsAreNoTexts
  <1> QED  BY <1>1, <1>2, PTL DEF Spec

\* Type correctness of the graph, for any appointments, SQL texts and users.
THEOREM TypeCorrect == Spec => []TypeOK
  <1>1. TInv => TypeOK
    <2> SUFFICES ASSUME TInv PROVE TypeOK
      OBVIOUS
    <2>1. draft.kind = "query" => draft \in QueryDrafts
      BY DraftOfKind, SupervisorConstantsOK DEF TInv, Types
    <2>2. QueryTypeOK
      BY <2>1 DEF TInv, Types, Works, QueryTypeOK
    <2> QED  BY <2>2 DEF TInv, Types, Routings, AllDrafts, TypeOK
  <1> QED  BY <1>1, TypesHold, PTL

-----------------------------------------------------------------------------
(* Flows: the active one is the draft's, and is left without a pause only by a turn that died. *)

Flow ==
    /\ routing.activeSubgraph = draft.kind
    /\ node \in Entrance \cup {"idle"} /\ paused = None /\ draft.kind # None => dangling
    /\ node \in QueryNodes \cup {"subgraph_finalize"} /\ draft.kind = "query" => fresh \/ dangling

ConfirmStep == \/ ConfirmBootstrap \/ ConfirmAskSlot \/ ConfirmAskSlotResumed
               \/ ConfirmCommit \/ ConfirmAnswered \/ ConfirmSuccess

LEMMA ConfirmStepIs ==
    ASSUME SupervisorConstantsOK, TInv, ConfirmStep
    PROVE  /\ node \in ConfirmNodes /\ draft \in ConfirmDrafts /\ draft' \in ConfirmDrafts
           /\ routing' \in {routing, Left(routing)} /\ dangling' = dangling
           /\ node' # "idle" \/ paused' = "confirm_ask_slot"
           /\ node' \in {"idle", "subgraph_finalize"} \cup ConfirmNodes
           /\ UNCHANGED <<identity, messages, confirmed, status>>
  <1>1. node \in ConfirmNodes
    BY DEF ConfirmStep, ConfirmBootstrap, ConfirmAskSlot, ConfirmAskSlotResumed, ConfirmCommit,
       ConfirmAnswered, ConfirmSuccess, ConfirmNodes
  <1>2. draft \in ConfirmDrafts /\ crm \subseteq Appts
    BY <1>1, DraftOfKind DEF TInv, Types, Kinds
  <1>3. dangling' = dangling /\ UNCHANGED <<identity, messages, confirmed, status>>
    BY DEF ConfirmStep, ConfirmBootstrap, ConfirmAskSlot, ConfirmAskSlotResumed, ConfirmCommit,
       ConfirmAnswered, ConfirmSuccess, FlowFrame
  <1>4. routing' \in {routing, Left(routing)}
    BY DEF ConfirmStep, ConfirmBootstrap, ConfirmAskSlot, ConfirmAskSlotResumed, ConfirmCommit,
       ConfirmAnswered, ConfirmSuccess, Interrupt
  <1>5. draft' \in ConfirmDrafts
    <2>1. CASE ConfirmBootstrap
      BY <1>2, <2>1, BootstrappedIs DEF ConfirmBootstrap
    <2>2. CASE ConfirmAskSlot
      BY <1>2, <2>2, FailedConfirmType DEF ConfirmAskSlot, Interrupt, ConfirmTexts
    <2>3. CASE ConfirmAskSlotResumed
      <3>1. reply \in Messages
        BY InboxType DEF TInv, Types
      <3> QED  BY <1>2, <2>3, <3>1, InterpretReplyIs DEF ConfirmAskSlotResumed
    <2>4. CASE ConfirmCommit
      BY <1>2, <2>4, FailedConfirmType DEF ConfirmCommit, ConfirmTexts
    <2>5. CASE ConfirmAnswered
      BY <1>2, <2>5, ConfirmCommittedIs DEF ConfirmAnswered
    <2>6. CASE ConfirmSuccess
      <3>1. Reply("response", draft.appt) \in
              [action : {None, "response", "error", "handed_off"},
               text : Appts \cup {Title, None} \cup ConfirmTexts]
        BY <1>2 DEF ConfirmDrafts, Reply
      <3> QED  BY <1>2, <2>6, <3>1 DEF ConfirmSuccess, ConfirmDrafts
    <2> QED  BY <2>1, <2>2, <2>3, <2>4, <2>5, <2>6 DEF ConfirmStep
  <1>6. node' # "idle" \/ paused' = "confirm_ask_slot"
    <2>1. CASE ConfirmBootstrap
      <3>1. Bootstrapped(draft).phase \in {"committing", "collecting", "failed"}
        BY <1>2, BootstrappedIs
      <3> QED  BY <2>1, <3>1 DEF ConfirmBootstrap, Goto, Leads, RouteAfterConfirmBootstrap, IsActiveDraft
    <2>2. CASE ConfirmAskSlot
      BY <2>2 DEF ConfirmAskSlot, Interrupt, Goto, Leads, RouteAfterConfirmAskSlot
    <2>3. CASE ConfirmAskSlotResumed
      BY <2>3 DEF ConfirmAskSlotResumed, Leads, RouteAfterConfirmAskSlot
    <2>4. CASE ConfirmCommit \/ ConfirmAnswered \/ ConfirmSuccess
      BY <2>4 DEF ConfirmCommit, ConfirmAnswered, ConfirmSuccess, Goto, Leads, RouteAfterConfirmCommit
    <2> QED  BY <2>1, <2>2, <2>3, <2>4 DEF ConfirmStep
  <1>7. node' \in {"idle", "subgraph_finalize"} \cup ConfirmNodes
    <2>1. CASE ConfirmBootstrap
      <3>1. Bootstrapped(draft).phase \in {"committing", "collecting", "failed"}
        BY <1>2, BootstrappedIs
      <3> QED  BY <2>1, <3>1 DEF ConfirmBootstrap, Goto, Leads, RouteAfterConfirmBootstrap,
                  IsActiveDraft, ConfirmNodes
    <2>2. CASE ConfirmAskSlot
      BY <2>2 DEF ConfirmAskSlot, Interrupt, EndTurn, Goto, Leads, RouteAfterConfirmAskSlot, ConfirmNodes
    <2>3. CASE ConfirmAskSlotResumed
      BY <2>3 DEF ConfirmAskSlotResumed, Leads, RouteAfterConfirmAskSlot, ConfirmNodes
    <2>4. CASE ConfirmCommit \/ ConfirmAnswered \/ ConfirmSuccess
      BY <2>4 DEF ConfirmCommit, ConfirmAnswered, ConfirmSuccess, Goto, Leads, RouteAfterConfirmCommit,
         ConfirmNodes
    <2> QED  BY <2>1, <2>2, <2>3, <2>4 DEF ConfirmStep
  <1> QED  BY <1>1, <1>2, <1>3, <1>4, <1>5, <1>6, <1>7

LEMMA EndGraphFlow ==
    ASSUME TInv, Flow, node \in Entrance, NEW o, EndGraph(o), UNCHANGED dangling
    PROVE  Flow'
  <1>1. /\ UNCHANGED <<draft, paused, dangling>> /\ routing' = Left(routing)
        /\ node' = "idle"
    BY EndTurnTypes DEF EndGraph, TInv
  <1>2. routing'.activeSubgraph = routing.activeSubgraph
    BY <1>1, LeftType DEF TInv, Types
  <1> QED  BY <1>1, <1>2 DEF Flow, QueryNodes

\* A step within the entrance that leaves the flow alone.
LEMMA EntranceFlow ==
    ASSUME TInv, Flow, node \in Entrance, node' \in Entrance, UNCHANGED <<draft, paused, dangling>>,
           routing'.activeSubgraph = routing.activeSubgraph
    PROVE  Flow'
  BY DEF Flow, QueryNodes, Entrance, Answering, ToolNodes

LEMMA FlowStep ==
    ASSUME SupervisorConstantsOK, ApptsAreNoTexts, TInv, Flow, [Next]_vars
    PROVE  Flow'
  <1>1. CASE Arrive
    <2>1. UNCHANGED <<draft, routing>>
      BY <1>1 DEF Arrive
    <2>2. \/ /\ node' = paused /\ paused # None /\ paused' = paused
          \/ node' = "supervisor_entry" /\ dangling'
          \/ node' = "supervisor_entry" /\ UNCHANGED <<paused, dangling>> /\ node = "idle"
      BY <1>1 DEF Arrive, Opened
    <2>3. paused \in {None, "elsewhere", "confirm_ask_slot"}
      BY DEF TInv, Types
    <2> QED  BY <2>1, <2>2, <2>3 DEF Flow, QueryNodes, Entrance, Answering, ToolNodes
  <1>2. CASE SupervisorEntry
    <2>0. node = "supervisor_entry" /\ input \in Inbox /\ routing \in Routings /\ UNCHANGED dangling
      BY <1>2 DEF SupervisorEntry, TInv, Types, Kinds
    <2>1. CASE EndGraph(Canned)
      BY <2>0, <2>1, EndGraphFlow DEF Entrance
    <2>2. CASE /\ \E s \in Shortcuts(input) : routing' = Routed(input, routing, s)
               /\ UNCHANGED <<draft, paused>>
               /\ Goto(supervisorEntryRouter(input, routing'))
      <3>1. routing'.activeSubgraph = routing.activeSubgraph
        BY <2>0, <2>2, RoutedType
      <3>2. node' \in Entrance
        BY <2>2 DEF Goto, Leads, supervisorEntryRouter, Entrance, Answering
      <3> QED  BY <2>0, <2>2, <3>1, <3>2, EntranceFlow DEF Entrance
    <2> QED  BY <1>2, <2>1, <2>2 DEF SupervisorEntry
  <1>3. CASE ClassifyIntent
    <2>1. routing \in Routings
      BY DEF TInv, Types
    <2>2. /\ routing'.activeSubgraph = routing.activeSubgraph /\ UNCHANGED <<draft, paused, dangling>>
          /\ node = "classify_intent"
      BY <1>3, <2>1 DEF ClassifyIntent, Routings
    <2>3. node' \in Entrance
      BY <1>3, ClassifiedTo DEF Entrance, Answering
    <2> QED  BY <2>2, <2>3, EntranceFlow DEF Entrance
  <1>4. CASE Answers
    BY <1>4, AnswersIs, EndGraphFlow DEF Answered, Entrance
  <1>5. CASE SubgraphDispatch
    <2> DEFINE t == resolveDispatchTarget(routing)
    <2>1. /\ t \in Flows /\ t # None /\ node = "subgraph_dispatch"
          /\ routing' = [routing EXCEPT !.activeSubgraph = t]
          /\ draft' = IF draft.kind = t THEN draft ELSE InitialDraft(t)
          /\ fresh' = (draft.kind # t)
          /\ node' = FirstNode(t)
          /\ UNCHANGED <<paused, dangling>>
      BY <1>5, DispatchIs
    <2>2. routing \in Routings /\ paused = None
      BY <2>1 DEF TInv, Types, Kinds, None
    <2> HIDE DEF t
    <2>3. routing'.activeSubgraph = t /\ draft'.kind = t
      BY <2>1, <2>2, InitialDraftType DEF Routings
    <2>4. node' \in {"query_classify", "confirm_bootstrap", "elsewhere"}
      BY <2>1, FirstNodeIs
    <2>5. fresh' \/ dangling
      BY <2>1, <2>2 DEF Flow, Entrance
    <2> QED  BY <2>1, <2>3, <2>4, <2>5 DEF Flow, Entrance, Answering, ToolNodes
  <1>6. CASE Elsewhere
    <2>1. draft.kind \in OtherFlows /\ routing \in Routings /\ draft \in OtherDrafts
      BY <1>6, DraftOfKind DEF Elsewhere, TInv, Types, Kinds
    <2>2. CASE Interrupt("elsewhere", "elsewhere")
      <3>1. /\ routing' = Left(routing) /\ draft' = draft /\ paused' = "elsewhere" /\ node' = "idle"
        BY <2>2 DEF Interrupt, EndTurn
      <3> QED  BY <2>1, <3>1, LeftType DEF Flow, QueryNodes, None
    <2>3. CASE /\ draft' = [draft EXCEPT !.terminalOutcome = Reply("response", "elsewhere")]
               /\ Leads("subgraph_finalize") /\ UNCHANGED routing
      <3>1. draft'.kind = draft.kind /\ node' = "subgraph_finalize" /\ draft.kind # "query"
        BY <2>1, <2>3, KindsApart DEF Leads, OtherDrafts
      <3> QED  BY <2>3, <3>1 DEF Flow, Entrance, Answering, ToolNodes
    <2> QED  BY <1>6, <2>2, <2>3 DEF Elsewhere
  <1>7. CASE QueryTurn
    <2>1. /\ node \in QueryNodes /\ draft \in QueryDrafts
          /\ GoesInside \/ GoesOn
          /\ UNCHANGED <<routing, paused, fresh, dangling>>
      BY <1>7, QueryStepIs DEF QueryTurn, history
    <2>2. /\ draft'.kind = draft.kind /\ draft.kind = "query"
          /\ node' \in QueryNodes \cup {"subgraph_finalize"}
      BY <2>1, KindsApart DEF GoesInside, GoesOn, QueryNodes
    <2> QED  BY <2>1, <2>2 DEF Flow, QueryNodes, Entrance, Answering, ToolNodes
  <1>8. CASE ConfirmStep
    <2>1. /\ routing'.activeSubgraph = routing.activeSubgraph
          /\ draft.kind = "confirm" /\ draft'.kind = "confirm"
          /\ node' # "idle" \/ paused' = "confirm_ask_slot"
          /\ node' \in {"idle", "subgraph_finalize"} \cup ConfirmNodes
      BY <1>8, ConfirmStepIs, KindsApart, LeftType DEF TInv, Types
    <2> QED  BY <2>1 DEF Flow, ConfirmNodes, Entrance, Answering, ToolNodes, None
  <1>9. CASE Finalize
    <2>1. routing'.activeSubgraph = None
      BY <1>9, ClearedType, LeftType DEF Finalize, TInv, Types
    <2>2. draft'.kind = None
      BY <1>9 DEF Finalize, NoDraft
    <2> QED  BY <2>1, <2>2 DEF Flow, None
  <1>10. CASE Dies
    <2>1. /\ routing'.activeSubgraph = routing.activeSubgraph /\ draft' = draft /\ node' = "idle"
          /\ dangling' = (dangling \/ routing.activeSubgraph # None)
      BY <1>10, LeftType DEF Dies, EndTurn, TInv, Types
    <2> QED  BY <2>1 DEF Flow, QueryNodes
  <1>11. CASE Outside \/ UNCHANGED vars
    <2>1. UNCHANGED <<node, routing, draft, paused, fresh, dangling>>
      BY <1>11, OutsideIs DEF vars, turn, thread, history
    <2> QED  BY <2>1 DEF Flow
  <1> QED  BY <1>1, <1>2, <1>3, <1>4, <1>5, <1>6, <1>7, <1>8, <1>9, <1>10, <1>11, Steps
              DEF ConfirmStep

LEMMA FlowInit ==
    ASSUME Init
    PROVE  Flow
  BY DEF Init, Flow, NoRouting, NoDraft, QueryNodes

\* The active flow is the draft's, in every state.
THEOREM FlowHolds == Spec => [](TInv /\ Flow)
  <1>1. Init => TInv /\ Flow
    BY TInvInit, FlowInit, SupervisorConstantsOK
  <1>2. TInv /\ Flow /\ [Next]_vars => TInv' /\ Flow'
    BY TInvStep, FlowStep, SupervisorConstantsOK, ApptsAreNoTexts
  <1> QED  BY <1>1, <1>2, PTL DEF Spec

\* Between turns a flow is active only while it waits for an answer, in the draft and in the
\* paused node, unless a turn died (FlowIsCoherent).
THEOREM FlowsAreCoherent == Spec => []FlowIsCoherent
  <1>1. TInv /\ Flow => FlowIsCoherent
    <2> SUFFICES ASSUME TInv, Flow, node = "idle" PROVE FlowIsCoherent
      BY DEF FlowIsCoherent
    <2>1. paused # None => FirstNode(draft.kind) \in {"elsewhere", "confirm_bootstrap"}
      <3>1. paused # None => draft.kind = "confirm" \/ draft.kind \in OtherFlows
        BY DEF TInv, Types, Kinds
      <3> QED  BY <3>1, FirstNodeIs, SupervisorConstantsOK DEF Flows
    <2> QED  BY <2>1 DEF Flow, FlowIsCoherent
  <1> QED  BY <1>1, FlowHolds, PTL

-----------------------------------------------------------------------------
(* What is told.                                                           *)

ToolTexts == AtomicTools \cup {"send_client_summary"}

LEMMA DraftSays ==
    ASSUME SupervisorConstantsOK, ApptsAreNoTexts, draft \in AllDrafts, draft.kind # None
    PROVE  /\ draft.terminalOutcome.action \in {None, "response", "error", "handed_off"}
           /\ draft.terminalOutcome.text \notin ToolTexts \cup {"unsupported", "placeholder"}
           /\ draft.kind # "confirm" => draft.terminalOutcome.text \notin Appts
  <1>1. CASE draft \in QueryDrafts
    <2>1. draft.terminalOutcome.text \in QueryTexts
      BY <1>1 DEF QueryDrafts
    <2>2. QueryTexts \cap (ToolTexts \cup {"unsupported", "placeholder"}) = {}
      BY DEF QueryTexts, ToolTexts, AtomicTools, None
    <2>3. QueryTexts \cap Appts = {}
      BY DEF ApptsAreNoTexts, Texts
    <2> QED  BY <1>1, <2>1, <2>2, <2>3 DEF QueryDrafts
  <1>2. CASE draft \in ConfirmDrafts
    <2>1. draft.terminalOutcome.text \in Appts \cup {Title, None} \cup ConfirmTexts
      BY <1>2 DEF ConfirmDrafts
    <2>2. (Appts \cup {Title, None} \cup ConfirmTexts)
             \cap (ToolTexts \cup {"unsupported", "placeholder"}) = {}
      BY DEF ApptsAreNoTexts, Texts, ToolTexts, AtomicTools, ConfirmTexts, Title, None
    <2> QED  BY <1>2, <2>1, <2>2, KindsApart DEF ConfirmDrafts
  <1>3. CASE draft \in OtherDrafts
    <2>1. draft.terminalOutcome \in {NoReply, Reply("response", "elsewhere")}
      BY <1>3 DEF OtherDrafts
    <2>2. {None, "elsewhere"} \cap (Appts \cup ToolTexts \cup {"unsupported", "placeholder"}) = {}
      BY DEF ApptsAreNoTexts, Texts, QueryTexts, ToolTexts, AtomicTools, None
    <2> QED  BY <2>1, <2>2 DEF Reply, NoReply
  <1> QED  BY <1>1, <1>2, <1>3 DEF AllDrafts, NoDraft

\* The fixed answers: of the entrance, of a pause, of a turn that dies.
Fixed == {Canned, Gone, Reply("handed_off", "human"), Reply("response", "social"),
          Reply("response", "forbidden"), Reply("error", "generic"),
          Reply("interrupt", "elsewhere"), Reply("interrupt", "which")}

ToolCall(t) == \E a \in {"response", "error"} : told' = Reply(a, t)

LEMMA ToldIs ==
    ASSUME TInv, [Next]_vars
    PROVE  \/ told' \in Fixed \cup {told, NoReply}
           \/ \E t \in AtomicTools : node = ToolNode(t) /\ ToolCall(t)
           \/ "send_client_summary" \in getAvailableTools /\ ToolCall("send_client_summary")
           \/ Finalize /\ told' = draft.terminalOutcome /\ draft.kind # None
  <1>1. CASE Arrive
    BY <1>1 DEF Arrive
  <1>2. CASE SupervisorEntry \/ ClassifyIntent \/ SubgraphDispatch
    BY <1>2 DEF SupervisorEntry, ClassifyIntent, SubgraphDispatch, EndGraph, EndTurn, Goto, Leads, Fixed
  <1>3. CASE SocialResponder \/ SubgraphPlaceholder \/ SendClientSummary
    BY <1>3 DEF SocialResponder, SubgraphPlaceholder, SendClientSummary, Answered, Ran, EndGraph,
       EndTurn, Fixed, ToolCall
  <1>4. CASE AtomicTool
    BY <1>4 DEF AtomicTool, Ran, Answered, EndGraph, EndTurn, ToolCall
  <1>5. CASE Elsewhere
    BY <1>5 DEF Elsewhere, Interrupt, EndTurn, Leads, Fixed
  <1>6. CASE QueryTurn
    BY <1>6 DEF QueryTurn
  <1>7. CASE ConfirmStep
    BY <1>7 DEF ConfirmStep, ConfirmBootstrap, ConfirmAskSlot, ConfirmAskSlotResumed, ConfirmCommit,
       ConfirmAnswered, ConfirmSuccess, Interrupt, EndTurn, Goto, Leads, Fixed
  <1>8. CASE Finalize
    <2>1. told' = FinalOutcome(draft)
      BY <1>8 DEF Finalize, EndTurn
    <2>2. draft.kind # None /\ draft.terminalOutcome # NoReply
      BY <1>8 DEF Finalize, TInv, Concluded
    <2> QED  BY <1>8, <2>1, <2>2 DEF FinalOutcome
  <1>9. CASE Dies
    BY <1>9 DEF Dies, EndTurn, Fixed
  <1>10. CASE Outside \/ UNCHANGED vars
    BY <1>10, OutsideIs DEF vars
  <1> QED  BY <1>1, <1>2, <1>3, <1>4, <1>5, <1>6, <1>7, <1>8, <1>9, <1>10, Steps
              DEF Answers, ConfirmStep

\* Every message gets something to read (NeverIgnored): no path of the graph reaches finalize
\* without a flow or without an answer of it.
THEOREM NobodyIsIgnored == Spec => []NeverIgnored
  <1>1. Init => NeverIgnored
    BY DEF Init, NeverIgnored, NoReply, Ignored, Reply, None
  <1>2. TInv /\ NeverIgnored /\ [Next]_vars => NeverIgnored'
    <2> SUFFICES ASSUME TInv, told # Ignored, [Next]_vars PROVE told' # Ignored
      BY DEF NeverIgnored
    <2>1. CASE told' \in Fixed \cup {told, NoReply}
      BY <2>1 DEF Fixed, Canned, Gone, NoReply, Ignored, Reply, None
    <2>2. CASE \E t : ToolCall(t)
      BY <2>2 DEF ToolCall, Ignored, Reply
    <2>3. CASE told' = draft.terminalOutcome /\ draft.kind # None
      <3>1. draft.terminalOutcome.action \in {None, "response", "error", "handed_off"}
        BY <2>3, DraftSays, SupervisorConstantsOK, ApptsAreNoTexts DEF TInv, Types
      <3> QED  BY <2>3, <3>1 DEF Ignored, Reply, None
    <2> QED  BY <2>1, <2>2, <2>3, ToldIs
  <1> QED  BY <1>1, <1>2, TypesHold, PTL DEF Spec

-----------------------------------------------------------------------------
(* Roles.                                                                  *)

\* The node of a tool runs only for a role that has it.
ToolsAllowed == \A t \in AtomicTools : node = ToolNode(t) => t \in getAvailableTools

LEMMA IdentityStays ==
    ASSUME SupervisorConstantsOK, TInv, [Next]_vars
    PROVE  identity' = identity
  <1>1. CASE ConfirmStep
    BY <1>1, ConfirmStepIs
  <1>2. CASE QueryTurn
    BY <1>2, QueryStepIs DEF QueryTurn
  <1>3. CASE Outside \/ UNCHANGED vars
    BY <1>3, OutsideIs DEF vars
  <1>4. CASE Answers
    BY <1>4, AnswersIs DEF Answered
  <1>5. CASE Arrive \/ SupervisorEntry \/ ClassifyIntent \/ SubgraphDispatch \/ Elsewhere
             \/ Finalize \/ Dies
    BY <1>5 DEF Arrive, SupervisorEntry, ClassifyIntent, SubgraphDispatch, Elsewhere, Finalize, Dies,
       FlowFrame
  <1> QED  BY <1>1, <1>2, <1>3, <1>4, <1>5, Steps DEF ConfirmStep

LEMMA EntryIsNoTool ==
    ASSUME SupervisorConstantsOK, TInv, SupervisorEntry
    PROVE  node' \in {"idle", "subgraph_dispatch", "classify_intent", "tool_send_client_summary",
                     "subgraph_placeholder"}
  BY DEF SupervisorEntry, EndGraph, EndTurn, Goto, Leads, supervisorEntryRouter

LEMMA ToolsAllowedStep ==
    ASSUME SupervisorConstantsOK, ApptsAreNoTexts, TInv, ToolsAllowed, [Next]_vars
    PROVE  ToolsAllowed'
  <1>1. getAvailableTools' = getAvailableTools
    BY IdentityStays DEF getAvailableTools
  <1>2. CASE ClassifyIntent
    BY <1>2, ClassifyTypes DEF ToolsAllowed
  <1>3. CASE node' = node
    BY <1>1, <1>3 DEF ToolsAllowed
  <1>4. CASE node' \notin ToolNodes
    BY <1>4 DEF ToolsAllowed, ToolNode, ToolNodes, AtomicTools
  <1>5. CASE Arrive
    <2>1. paused \in {None, "elsewhere", "confirm_ask_slot"}
      BY DEF TInv, Types
    <2> QED  BY <1>4, <1>5, <2>1 DEF Arrive, Opened, ToolNodes
  <1>6. CASE SupervisorEntry
    BY <1>4, <1>6, EntryIsNoTool DEF ToolNodes
  <1>7. CASE Answers \/ Finalize \/ Dies
    BY <1>4, <1>7, AnswersIs DEF Finalize, Dies, Answered, EndGraph, EndTurn, ToolNodes
  <1>8. CASE SubgraphDispatch
    BY <1>4, <1>8, DispatchIs, FirstNodeIs DEF ToolNodes
  <1>9. CASE Elsewhere
    BY <1>4, <1>9 DEF Elsewhere, Interrupt, EndTurn, Leads, ToolNodes
  <1>10. CASE QueryTurn
    BY <1>3, <1>4, <1>10, QueryStepIs DEF QueryTurn, GoesInside, GoesOn, ToolNodes
  <1>11. CASE ConfirmStep
    BY <1>4, <1>11, ConfirmStepIs DEF ConfirmNodes, ToolNodes
  <1>12. CASE Outside \/ UNCHANGED vars
    BY <1>3, <1>12, OutsideIs DEF vars, turn
  <1> QED  BY <1>2, <1>5, <1>6, <1>7, <1>8, <1>9, <1>10, <1>11, <1>12, Steps DEF ConfirmStep

\* No road to a tool asks Guacuco for one the user's role does not have (AskedIsAllowed).
THEOREM OnlyAllowedIsAsked == Spec => []AskedIsAllowed
  <1> DEFINE Inv == ToolsAllowed /\ AskedIsAllowed
  <1>1. Init => Inv
    <2> SUFFICES ASSUME Init PROVE Inv
      OBVIOUS
    <2>1. ToolsAllowed
      BY DEF Init, ToolsAllowed, ToolNode, AtomicTools
    <2>2. AskedIsAllowed
      BY DEF Init, AskedIsAllowed, NoReply, Reply, AtomicTools, None
    <2> QED  BY <2>1, <2>2
  <1>2. TInv /\ Inv /\ [Next]_vars => Inv'
    <2> SUFFICES ASSUME TInv, ToolsAllowed, AskedIsAllowed, [Next]_vars PROVE Inv'
      OBVIOUS
    <2>1. ToolsAllowed'
      BY ToolsAllowedStep, SupervisorConstantsOK, ApptsAreNoTexts
    <2>2. getAvailableTools' = getAvailableTools
      BY IdentityStays, SupervisorConstantsOK DEF getAvailableTools
    <2>3. ASSUME told' = told
         PROVE  AskedIsAllowed'
      BY <2>2, <2>3 DEF AskedIsAllowed
    <2>4. ASSUME told' \in Fixed \cup {NoReply}
         PROVE  AskedIsAllowed'
      <3>1. told'.text \notin AtomicTools \cup {"send_client_summary"}
        BY <2>4 DEF Fixed, Canned, Gone, NoReply, Reply, AtomicTools, None
      <3> QED  BY <3>1 DEF AskedIsAllowed
    <2>5. ASSUME \E t \in AtomicTools : node = ToolNode(t) /\ ToolCall(t)
         PROVE  AskedIsAllowed'
      BY <2>2, <2>5 DEF ToolsAllowed, ToolCall, Reply, AskedIsAllowed
    <2>6. ASSUME "send_client_summary" \in getAvailableTools /\ ToolCall("send_client_summary")
         PROVE  AskedIsAllowed'
      BY <2>2, <2>6 DEF ToolCall, Reply, AskedIsAllowed
    <2>7. ASSUME told' = draft.terminalOutcome /\ draft.kind # None
         PROVE  AskedIsAllowed'
      <3>1. told'.text \notin AtomicTools \cup {"send_client_summary"}
        BY <2>7, DraftSays, SupervisorConstantsOK, ApptsAreNoTexts DEF TInv, Types, ToolTexts
      <3> QED  BY <3>1 DEF AskedIsAllowed
    <2>8. AskedIsAllowed'
      BY <2>3, <2>4, <2>5, <2>6, <2>7, ToldIs
    <2> QED  BY <2>1, <2>8
  <1>3. Inv => AskedIsAllowed
    OBVIOUS
  <1> QED  BY <1>1, <1>2, <1>3, TypesHold, PTL DEF Spec

-----------------------------------------------------------------------------
(* What is confirmed.                                                      *)

Sure == {"ok", "APPOINTMENT_ALREADY_CONFIRMED"}

\* Guacuco says yes only of what it confirmed, and only to a turn that waits; success and the
\* answer kept in the draft rest on that.
Truth ==
    /\ \A a \in Appts : status[a] = "confirmed" => a \in confirmed
    /\ node # "guacuco" => answer = None
    /\ node = "guacuco" /\ answer \in Sure => draft.appt \in confirmed
    /\ node = "confirm_success" => draft.appt \in confirmed
    /\ draft.kind = "confirm" /\ draft.terminalOutcome.text \in Appts =>
          draft.terminalOutcome.text \in confirmed

LEMMA TextsAreApart ==
    ASSUME ApptsAreNoTexts
    PROVE  Appts \cap (ConfirmTexts \cup QueryTexts \cup {Title, "unsupported", "placeholder",
                      "human", "social", "elsewhere"} \cup ToolTexts) = {}
  BY DEF ApptsAreNoTexts, Texts, ToolTexts

\* Outside the flow of confirm.
LEMMA TruthElsewhere ==
    ASSUME Truth, node # "guacuco", node' \notin {"guacuco", "confirm_success"},
           answer' \in {answer, None}, UNCHANGED <<status, confirmed>>,
           draft' = draft \/ draft'.kind # "confirm" \/ draft'.terminalOutcome.text \notin Appts
    PROVE  Truth'
  BY DEF Truth

LEMMA ConfirmTruth ==
    ASSUME SupervisorConstantsOK, ApptsAreNoTexts, TInv, Truth, ConfirmStep
    PROVE  Truth'
  <1>1. /\ node \in ConfirmNodes /\ draft \in ConfirmDrafts /\ draft' \in ConfirmDrafts
        /\ UNCHANGED <<confirmed, status>>
    BY ConfirmStepIs
  <1>2. draft.kind = "confirm" /\ crm \subseteq Appts
    BY <1>1, KindsApart DEF TInv, Types
  <1>3. CASE ConfirmBootstrap
    <2>1. /\ draft'.terminalOutcome = draft.terminalOutcome
             \/ draft'.terminalOutcome.text = "no_upcomings"
          /\ draft'.phase \in {"committing", "collecting", "failed"}
      BY <1>1, <1>2, <1>3, BootstrappedIs DEF ConfirmBootstrap
    <2>2. "no_upcomings" \notin Appts
      BY TextsAreApart DEF ConfirmTexts
    <2>3. node' \in {"subgraph_finalize", "confirm_commit", "confirm_ask_slot"}
      BY <1>3, <2>1 DEF ConfirmBootstrap, Goto, Leads, RouteAfterConfirmBootstrap, IsActiveDraft
    <2>4. answer' = answer /\ node = "confirm_bootstrap"
      BY <1>3 DEF ConfirmBootstrap, Goto
    <2> QED  BY <1>1, <1>2, <2>1, <2>2, <2>3, <2>4 DEF Truth
  <1>4. CASE ConfirmAskSlot
    <2>1. /\ node = "confirm_ask_slot" /\ answer' \in {answer, None}
          /\ node' \in {"idle", "subgraph_finalize", "confirm_commit", "confirm_ask_slot"}
      BY <1>4 DEF ConfirmAskSlot, Interrupt, EndTurn, Goto, Leads, RouteAfterConfirmAskSlot
    <2>2. draft' = draft \/ draft' = FailedConfirm(draft, "handed_off", "which")
      BY <1>4 DEF ConfirmAskSlot, Interrupt
    <2>3. draft' = draft \/ draft'.terminalOutcome.text = "which"
      BY <1>1, <2>2, FailedConfirmType DEF ConfirmTexts, Reply
    <2>4. "which" \notin Appts
      BY TextsAreApart DEF ConfirmTexts
    <2> QED  BY <1>1, <2>1, <2>3, <2>4, TruthElsewhere
  <1>5. CASE ConfirmAskSlotResumed
    <2>1. reply \in Messages
      BY InboxType DEF TInv, Types
    <2>2. draft'.terminalOutcome = draft.terminalOutcome
      BY <1>1, <1>2, <1>5, <2>1, InterpretReplyIs DEF ConfirmAskSlotResumed
    <2>3. /\ node = "confirm_ask_slot" /\ answer' = answer
          /\ node' \in {"subgraph_finalize", "confirm_commit", "confirm_ask_slot"}
      BY <1>5 DEF ConfirmAskSlotResumed, Leads, RouteAfterConfirmAskSlot
    <2> QED  BY <1>1, <1>2, <2>2, <2>3 DEF Truth
  <1>6. CASE ConfirmCommit
    <2>1. node = "confirm_commit" /\ answer' = answer /\ answer = None
      BY <1>6 DEF ConfirmCommit, Goto, Truth
    <2>2. \/ draft' = FailedConfirm(draft, "error", "invariant") /\ node' = "subgraph_finalize"
          \/ draft' = draft /\ node' = "guacuco"
      BY <1>6 DEF ConfirmCommit, Goto, Leads
    <2>3. CASE draft' = FailedConfirm(draft, "error", "invariant") /\ node' = "subgraph_finalize"
      <3>1. draft'.terminalOutcome.text = "invariant"
        BY <1>1, <2>3, FailedConfirmType DEF ConfirmTexts, Reply
      <3>2. "invariant" \notin Appts
        BY TextsAreApart DEF ConfirmTexts
      <3> QED  BY <1>1, <2>1, <2>3, <3>1, <3>2, TruthElsewhere
    <2>4. CASE draft' = draft /\ node' = "guacuco"
      BY <1>1, <2>1, <2>4 DEF Truth, Sure, None
    <2> QED  BY <2>2, <2>3, <2>4
  <1>7. CASE ConfirmAnswered
    <2>1. PICK a \in {answer, None} : draft' = ConfirmCommitted(draft, a)
      BY <1>7 DEF ConfirmAnswered
    <2>2. /\ draft'.appt = draft.appt
          /\ \/ /\ draft'.phase = "done" /\ a \in Sure
                /\ draft'.terminalOutcome = draft.terminalOutcome
             \/ /\ draft'.phase = "failed"
                /\ draft'.terminalOutcome.text \in ConfirmTexts
      BY <1>1, <2>1, ConfirmCommittedIs DEF Sure
    <2>3. /\ node = "guacuco" /\ answer' = None
          /\ node' \in {"confirm_success", "subgraph_finalize"}
          /\ node' = "confirm_success" => draft'.phase = "done"
      BY <1>7 DEF ConfirmAnswered, Leads, RouteAfterConfirmCommit
    <2>4. a \in Sure => draft.appt \in confirmed
      BY <2>1, <2>3 DEF Truth, Sure, None
    <2>5. Appts \cap ConfirmTexts = {}
      BY TextsAreApart
    <2> QED  BY <1>1, <1>2, <2>2, <2>3, <2>4, <2>5 DEF Truth
  <1>8. CASE ConfirmSuccess
    <2>1. /\ draft'.terminalOutcome = Reply("response", draft.appt) /\ node = "confirm_success"
          /\ node' = "subgraph_finalize"
      BY <1>8, SuccessIs
    <2>2. draft'.terminalOutcome.text = draft.appt /\ answer' = answer
      BY <1>8, <2>1 DEF Reply, ConfirmSuccess, Goto
    <2> QED  BY <1>1, <2>1, <2>2 DEF Truth
  <1> QED  BY <1>3, <1>4, <1>5, <1>6, <1>7, <1>8 DEF ConfirmStep

LEMMA GuacucoTruth ==
    ASSUME SupervisorConstantsOK, TInv, Truth, GuacucoConfirm
    PROVE  Truth'
  <1>1. PICK a \in flying, res \in {"ok", "BUSINESS_MISMATCH", "OTHER",
                 "APPOINTMENT_ALREADY_CONFIRMED", "APPOINTMENT_NOT_FOUND"} :
          /\ res = "APPOINTMENT_ALREADY_CONFIRMED" => status[a] = "confirmed"
          /\ status' = IF res = "ok" THEN [status EXCEPT ![a] = "confirmed"] ELSE status
          /\ confirmed' = IF res = "ok" THEN confirmed \cup {a} ELSE confirmed
          /\ answer' = IF node = "guacuco" /\ draft.appt = a THEN res ELSE answer
    <2>1. \A a \in flying : status[a] \in {"pending", "confirmed", "gone"}
      BY DEF TInv, Types
    <2> QED  BY <2>1 DEF GuacucoConfirm
  <1>2. UNCHANGED <<node, draft>>
    BY OutsideIs DEF Outside, turn, thread
  <1>3. a \in Appts /\ status \in [Appts -> {"pending", "confirmed", "gone"}]
    BY DEF TInv, Types
  <1>4. \A b \in Appts : status'[b] = "confirmed" => b \in confirmed'
    BY <1>1, <1>3 DEF Truth
  <1>5. node = "guacuco" /\ answer' \in Sure => draft.appt \in confirmed'
    BY <1>1, <1>3 DEF Truth, Sure
  <1> QED  BY <1>1, <1>2, <1>4, <1>5 DEF Truth

LEMMA TruthStep ==
    ASSUME SupervisorConstantsOK, ApptsAreNoTexts, TInv, Truth, [Next]_vars
    PROVE  Truth'
  <1>1. CASE Arrive
    <2>1. UNCHANGED <<draft, answer, status, confirmed>> /\ node = "idle"
      BY <1>1 DEF Arrive, guacuco
    <2>2. node' \notin {"guacuco", "confirm_success"}
      <3>1. paused \in {None, "elsewhere", "confirm_ask_slot"}
        BY DEF TInv, Types
      <3> QED  BY <1>1, <3>1 DEF Arrive, Opened, None
    <2> QED  BY <2>1, <2>2, TruthElsewhere
  <1>2. CASE SupervisorEntry
    <2>1. /\ UNCHANGED <<draft, status, confirmed>> /\ answer' \in {answer, None}
          /\ node = "supervisor_entry"
      BY <1>2 DEF SupervisorEntry, EndGraph, EndTurn, Goto
    <2> QED  BY <1>2, <2>1, EntryIsNoTool, TruthElsewhere
  <1>3. CASE ClassifyIntent
    <2>1. UNCHANGED <<draft, answer, status, confirmed>> /\ node = "classify_intent"
      BY <1>3 DEF ClassifyIntent, Goto
    <2>2. node' \notin {"guacuco", "confirm_success"}
      BY <1>3, ClassifiedTo DEF ToolNodes
    <2> QED  BY <2>1, <2>2, TruthElsewhere
  <1>4. CASE Answers
    <2>1. /\ UNCHANGED <<draft, status, confirmed>> /\ answer' \in {answer, None}
          /\ node \in Answering /\ node' = "idle"
      BY <1>4, AnswersIs DEF Answered, EndGraph, EndTurn
    <2> QED  BY <2>1, TruthElsewhere DEF Answering, ToolNodes
  <1>5. CASE SubgraphDispatch
    <2> DEFINE t == resolveDispatchTarget(routing)
    <2>1. /\ t \in Flows /\ node = "subgraph_dispatch" /\ node' = FirstNode(t)
          /\ draft' = IF draft.kind = t THEN draft ELSE InitialDraft(t)
          /\ UNCHANGED <<answer, status, confirmed>>
      BY <1>5, DispatchIs
    <2> HIDE DEF t
    <2>2. node' \in {"query_classify", "confirm_bootstrap", "elsewhere"}
      BY <2>1, FirstNodeIs
    <2>3. InitialDraft(t).terminalOutcome = NoReply
      BY <2>1, InitialDraftType DEF TInv, Types
    <2>4. NoReply.text \notin Appts
      BY TextsAreApart DEF NoReply, Reply, QueryTexts
    <2> QED  BY <2>1, <2>2, <2>3, <2>4, TruthElsewhere
  <1>6. CASE Elsewhere
    <2>1. /\ node = "elsewhere" /\ answer' \in {answer, None} /\ UNCHANGED <<status, confirmed>>
          /\ node' \in {"idle", "subgraph_finalize"}
      BY <1>6 DEF Elsewhere, Interrupt, EndTurn, Leads
    <2>2. draft.kind \in OtherFlows /\ draft \in OtherDrafts
      BY <2>1, DraftOfKind DEF TInv, Types, Kinds
    <2>3. draft'.kind = draft.kind
      BY <1>6, <2>2 DEF Elsewhere, Interrupt, OtherDrafts
    <2> QED  BY <2>1, <2>2, <2>3, KindsApart, TruthElsewhere
  <1>7. CASE QueryTurn
    <2>1. /\ node \in QueryNodes /\ draft \in QueryDrafts
          /\ GoesInside \/ GoesOn
          /\ UNCHANGED <<answer, status, confirmed>>
      BY <1>7, QueryStepIs DEF QueryTurn, guacuco
    <2>2. draft'.kind # "confirm" /\ node' \in QueryNodes \cup {"subgraph_finalize"}
      BY <2>1, KindsApart DEF GoesInside, GoesOn, QueryNodes
    <2> QED  BY <2>1, <2>2, TruthElsewhere DEF QueryNodes
  <1>8. CASE ConfirmStep
    BY <1>8, ConfirmTruth
  <1>9. CASE Finalize
    <2>1. /\ node = "subgraph_finalize" /\ node' = "idle" /\ answer' = None
          /\ UNCHANGED <<status, confirmed>> /\ draft'.kind # "confirm"
      BY <1>9 DEF Finalize, EndTurn, NoDraft, None
    <2> QED  BY <2>1, TruthElsewhere
  <1>10. CASE Dies
    <2>1. /\ node' = "idle" /\ answer' = None /\ UNCHANGED <<draft, status, confirmed>>
      BY <1>10 DEF Dies, EndTurn
    <2> QED  BY <2>1 DEF Truth
  <1>11. CASE GuacucoConfirm
    BY <1>11, GuacucoTruth
  <1>12. CASE CancelledElsewhere
    <2>1. /\ UNCHANGED <<node, draft, answer, confirmed>>
          /\ \E a \in Appts : status' = [status EXCEPT ![a] = "gone"]
      BY <1>12 DEF CancelledElsewhere, turn, thread, Upcoming
    <2>2. \A b \in Appts : status'[b] = "confirmed" => status[b] = "confirmed"
      BY <2>1 DEF TInv, Types
    <2> QED  BY <2>1, <2>2 DEF Truth
  <1>13. CASE UNCHANGED vars
    <2>1. UNCHANGED <<node, draft, answer, status, confirmed>>
      BY <1>13 DEF vars, turn, thread, guacuco
    <2> QED  BY <2>1 DEF Truth
  <1> QED  BY <1>1, <1>2, <1>3, <1>4, <1>5, <1>6, <1>7, <1>8, <1>9, <1>10, <1>11, <1>12, <1>13,
              Steps DEF ConfirmStep, Outside

LEMMA ConfirmedGrows ==
    ASSUME SupervisorConstantsOK, TInv, [Next]_vars
    PROVE  confirmed \subseteq confirmed'
  <1>1. CASE ConfirmStep
    BY <1>1, ConfirmStepIs
  <1>2. CASE GuacucoConfirm
    BY <1>2 DEF GuacucoConfirm
  <1>3. CASE CancelledElsewhere \/ UNCHANGED vars \/ QueryTurn \/ Arrive
    BY <1>3 DEF CancelledElsewhere, vars, guacuco, QueryTurn, Arrive
  <1>4. CASE Answers
    BY <1>4, AnswersIs DEF Answered
  <1>5. CASE SupervisorEntry \/ ClassifyIntent \/ SubgraphDispatch \/ Elsewhere
             \/ Finalize \/ Dies
    BY <1>5 DEF SupervisorEntry, ClassifyIntent, SubgraphDispatch, Elsewhere, Finalize, Dies
  <1> QED  BY <1>1, <1>2, <1>3, <1>4, <1>5, Steps DEF ConfirmStep, Outside

\* "Confirmed" is told only of what Guacuco did confirm (ConfirmedIsTrue), however often the
\* request was sent, whatever answers were lost and whatever others cancelled.
THEOREM ToldIsConfirmed == Spec => []ConfirmedIsTrue
  <1> DEFINE Inv == Truth /\ ConfirmedIsTrue
  <1>1. Init => Inv
    <2> SUFFICES ASSUME Init PROVE Inv
      OBVIOUS
    <2>1. told.text \notin Appts
      BY TextsAreApart, ApptsAreNoTexts DEF Init, NoReply, Reply, QueryTexts
    <2>2. draft.kind # "confirm"
      BY DEF Init, NoDraft, None
    <2> QED  BY <2>1, <2>2 DEF Init, Truth, ConfirmedIsTrue
  <1>2. TInv /\ Inv /\ [Next]_vars => Inv'
    <2> SUFFICES ASSUME TInv, Truth, ConfirmedIsTrue, [Next]_vars PROVE ConfirmedIsTrue'
      BY TruthStep, SupervisorConstantsOK, ApptsAreNoTexts
    <2>1. confirmed \subseteq confirmed'
      BY ConfirmedGrows, SupervisorConstantsOK
    <2>2. CASE told' = told
      BY <2>1, <2>2 DEF ConfirmedIsTrue
    <2>3. CASE told' \in Fixed \cup {NoReply}
      <3>1. told'.text \in ConfirmTexts \cup QueryTexts \cup {"unsupported", "placeholder", "human",
                         "social", "elsewhere"}
        BY <2>3 DEF Fixed, Canned, Gone, NoReply, Reply, ConfirmTexts, QueryTexts
      <3> QED  BY <3>1, TextsAreApart, ApptsAreNoTexts DEF ConfirmedIsTrue
    <2>4. CASE \E t \in ToolTexts : ToolCall(t)
      <3>1. told'.text \in ToolTexts
        BY <2>4 DEF ToolCall, Reply
      <3> QED  BY <3>1, TextsAreApart, ApptsAreNoTexts DEF ConfirmedIsTrue
    <2>5. CASE told' = draft.terminalOutcome /\ draft.kind # None
      <3>1. draft.kind # "confirm" => draft.terminalOutcome.text \notin Appts
        BY <2>5, DraftSays, SupervisorConstantsOK, ApptsAreNoTexts DEF TInv, Types
      <3> QED  BY <2>1, <2>5, <3>1 DEF Truth, ConfirmedIsTrue
    <2> QED  BY <2>2, <2>3, <2>4, <2>5, ToldIs DEF ToolTexts
  <1>3. Inv => ConfirmedIsTrue
    OBVIOUS
  <1> QED  BY <1>1, <1>2, <1>3, TypesHold, PTL DEF Spec

-----------------------------------------------------------------------------
(* Who asked.                                                              *)

\* The draft that enters confirm is the one the message opened, and commit is entered with an
\* appointment the message pointed at or the only one; unless a turn died.
Asking ==
    ~dangling =>
        /\ node = "confirm_bootstrap" => meant = PointedAt /\ draft = InitialDraft("confirm")
        /\ node = "confirm_commit" => draft.appt \in meant \/ crm = {draft.appt}

LEMMA BootstrapAsks ==
    ASSUME SupervisorConstantsOK, ApptsAreNoTexts, TInv, Asking, ConfirmBootstrap
    PROVE  Asking'
  <1> DEFINE s == routing.buttonShortcut
  <1>1. /\ node = "confirm_bootstrap" /\ draft' = Bootstrapped(draft)
        /\ node' = RouteAfterConfirmBootstrap(draft')
        /\ UNCHANGED <<meant, dangling, crm>>
    BY DEF ConfirmBootstrap, Goto, Leads, FlowFrame
  <1>2. draft \in ConfirmDrafts /\ crm \subseteq Appts
    BY <1>1, DraftOfKind DEF TInv, Types, Kinds, ConfirmNodes
  <1>3. /\ draft'.phase \in {"committing", "collecting", "failed"}
        /\ draft'.phase = "committing" =>
              /\ draft'.appt \in crm
              /\ draft'.appt = draft.appt \/ crm = {draft'.appt}
    BY <1>1, <1>2, BootstrappedIs
  <1>4. /\ node' # "confirm_bootstrap"
        /\ node' = "confirm_commit" => draft'.phase = "committing"
    BY <1>1, <1>3 DEF RouteAfterConfirmBootstrap, IsActiveDraft
  <1>5. ASSUME ~dangling, draft'.phase = "committing"
        PROVE  draft'.appt \in meant \/ crm = {draft'.appt}
    <2>1. draft = Preseeded(initialConfirmDraftState, s) /\ meant = PointedAt
      BY <1>1, <1>5 DEF Asking, InitialDraft
    <2>2. CASE s.kind = "confirm"
      <3>1. draft.appt = s.value
        BY <2>1, <2>2 DEF Preseeded, initialConfirmDraftState
      <3>2. PointedAt = {s.value}
        BY <2>2 DEF PointedAt
      <3> QED  BY <1>3, <1>5, <2>1, <3>1, <3>2
    <2>3. CASE s.kind # "confirm"
      <3>1. draft.appt = None
        BY <2>1, <2>3 DEF Preseeded, initialConfirmDraftState
      <3>2. None \notin crm
        BY <1>2 DEF ApptsAreNoTexts, Texts, QueryTexts
      <3> QED  BY <1>3, <1>5, <3>1, <3>2
    <2> QED  BY <2>2, <2>3
  <1> QED  BY <1>1, <1>4, <1>5 DEF Asking

LEMMA DispatchAsks ==
    ASSUME SupervisorConstantsOK, TInv, Flow, SubgraphDispatch
    PROVE  Asking'
  <1> DEFINE t == resolveDispatchTarget(routing)
  <1>1. /\ t \in Flows /\ node = "subgraph_dispatch"
        /\ routing' = [routing EXCEPT !.activeSubgraph = t]
        /\ draft' = IF draft.kind = t THEN draft ELSE InitialDraft(t)
        /\ meant' = IF t = "confirm" /\ draft.kind # t THEN PointedAt ELSE {}
        /\ node' = FirstNode(t) /\ UNCHANGED <<crm, dangling>>
    BY DispatchIs
  <1>2. routing'.buttonShortcut = routing.buttonShortcut
    BY <1>1 DEF TInv, Types, Routings
  <1>3. paused = None
    BY <1>1 DEF TInv, Types, Kinds, None
  <1>4. ~dangling => draft.kind = None
    BY <1>1, <1>3 DEF Flow, Entrance
  <1> HIDE DEF t
  <1>5. /\ node' \in {"query_classify", "confirm_bootstrap", "elsewhere"}
        /\ node' = "confirm_bootstrap" => t = "confirm"
    <2>1. t \notin {"confirm"} => FirstNode(t) # "confirm_bootstrap"
      BY <1>1, KindsApart DEF FirstNode, Flows
    <2> QED  BY <1>1, <2>1, FirstNodeIs
  <1>6. InitialDraft("confirm")' = InitialDraft("confirm")
    BY <1>2 DEF InitialDraft
  <1>7. PointedAt' = PointedAt
    BY <1>1, <1>2 DEF PointedAt
  <1> QED  BY <1>1, <1>4, <1>5, <1>6, <1>7 DEF Asking, None

LEMMA ResumedAsks ==
    ASSUME SupervisorConstantsOK, TInv, ConfirmAskSlotResumed
    PROVE  Asking'
  <1>1. /\ node = "confirm_ask_slot"
        /\ draft' = [InterpretReply(draft, reply) EXCEPT !.attempts = @ + 1]
        /\ meant' = IF reply.action = "apt_pick" THEN {reply.appt} ELSE {}
        /\ node' = RouteAfterConfirmAskSlot(draft')
    BY DEF ConfirmAskSlotResumed, Leads
  <1>2. draft \in ConfirmDrafts /\ crm \subseteq Appts /\ reply \in Messages
    BY <1>1, DraftOfKind, InboxType DEF TInv, Types, Kinds, ConfirmNodes
  <1>3. draft.phase = "collecting"
    BY <1>1 DEF TInv, Concluded
  <1>4. draft'.phase = "committing" => reply.action = "apt_pick" /\ draft'.appt = reply.appt
    BY <1>1, <1>2, <1>3, InterpretReplyIs
  <1>5. node' # "confirm_bootstrap" /\ (node' = "confirm_commit" => draft'.phase = "committing")
    BY <1>1 DEF RouteAfterConfirmAskSlot
  <1> QED  BY <1>1, <1>4, <1>5 DEF Asking

LEMMA AskingStep ==
    ASSUME SupervisorConstantsOK, ApptsAreNoTexts, TInv, Flow, Asking, [Next]_vars
    PROVE  Asking'
  <1>1. CASE node' \notin {"confirm_bootstrap", "confirm_commit"}
    BY <1>1 DEF Asking
  <1>2. CASE Arrive
    <2>1. paused \in {None, "elsewhere", "confirm_ask_slot"}
      BY DEF TInv, Types
    <2> QED  BY <1>1, <1>2, <2>1 DEF Arrive, Opened
  <1>3. CASE SupervisorEntry
    BY <1>1, <1>3, EntryIsNoTool
  <1>4. CASE ClassifyIntent
    BY <1>1, <1>4, ClassifiedTo DEF ToolNodes
  <1>5. CASE Answers \/ Finalize \/ Dies
    BY <1>1, <1>5, AnswersIs DEF Finalize, Dies, Answered, EndGraph, EndTurn
  <1>6. CASE SubgraphDispatch
    BY <1>6, DispatchAsks
  <1>7. CASE Elsewhere
    BY <1>1, <1>7 DEF Elsewhere, Interrupt, EndTurn, Leads
  <1>8. CASE QueryTurn
    <2>1. node' \in QueryNodes \cup {"subgraph_finalize"}
      BY <1>8, QueryStepIs DEF QueryTurn, GoesInside, GoesOn, QueryNodes
    <2> QED  BY <1>1, <2>1 DEF QueryNodes
  <1>9. CASE ConfirmBootstrap
    BY <1>9, BootstrapAsks
  <1>10. CASE ConfirmAskSlot
    <2>1. draft \in ConfirmDrafts
      BY <1>10, ConfirmStepIs DEF ConfirmStep
    <2>2. FailedConfirm(draft, "handed_off", "which").phase = "failed"
      BY <2>1, FailedConfirmType DEF ConfirmTexts
    <2> QED  BY <1>1, <1>10, <2>2 DEF ConfirmAskSlot, Interrupt, EndTurn, Goto, Leads,
                RouteAfterConfirmAskSlot, IsActiveDraft
  <1>11. CASE ConfirmAskSlotResumed
    BY <1>11, ResumedAsks
  <1>12. CASE ConfirmCommit \/ ConfirmAnswered \/ ConfirmSuccess
    BY <1>1, <1>12 DEF ConfirmCommit, ConfirmAnswered, ConfirmSuccess, Goto, Leads,
       RouteAfterConfirmCommit
  <1>13. CASE Outside \/ UNCHANGED vars
    <2>1. UNCHANGED <<node, draft, meant, dangling, crm, routing>>
      BY <1>13, OutsideIs DEF vars, turn, thread, history
    <2>2. PointedAt' = PointedAt /\ InitialDraft("confirm")' = InitialDraft("confirm")
      BY <2>1 DEF PointedAt, InitialDraft
    <2> QED  BY <2>1, <2>2 DEF Asking
  <1> QED  BY <1>2, <1>3, <1>4, <1>5, <1>6, <1>7, <1>8, <1>9, <1>10, <1>11, <1>12, <1>13, Steps

\* Of several upcoming appointments, none is confirmed but the one that the turn's message
\* pointed at, except in a flow that outlived a turn that died (NeverOneAmongSeveral).  A reminder
\* tapped does not keep bootstrap from confirming another one when that is the only one left.
THEOREM NoneAmongSeveral == Spec => NeverOneAmongSeveral
  <1>1. Init => Asking
    BY DEF Init, Asking
  <1>2. TInv /\ Flow /\ Asking /\ [Next]_vars => Asking'
    BY AskingStep, SupervisorConstantsOK, ApptsAreNoTexts
  <1>3. Asking => [node = "confirm_commit" /\ node' = "guacuco" =>
                     dangling \/ draft.appt \in meant \/ crm = {draft.appt}]_vars
    BY DEF Asking
  <1> QED  BY <1>1, <1>2, <1>3, FlowHolds, PTL DEF Spec, NeverOneAmongSeveral

-----------------------------------------------------------------------------
(* What an answer is about.                                                *)

OldTap == node = "subgraph_placeholder" => input.type \in {"interactive", "template_button"}

LEMMA OldTapStep ==
    ASSUME SupervisorConstantsOK, ApptsAreNoTexts, TInv, OldTap, [Next]_vars
    PROVE  OldTap'
  <1>1. CASE node' # "subgraph_placeholder"
    BY <1>1 DEF OldTap
  <1>2. CASE Arrive
    <2>1. paused \in {None, "elsewhere", "confirm_ask_slot"}
      BY DEF TInv, Types
    <2> QED  BY <1>1, <1>2, <2>1 DEF Arrive, Opened
  <1>3. CASE SupervisorEntry
    <2>1. CASE EndGraph(Canned)
      BY <1>1, <2>1 DEF EndGraph, EndTurn
    <2>2. CASE /\ \E s \in Shortcuts(input) : routing' = Routed(input, routing, s)
               /\ Goto(supervisorEntryRouter(input, routing'))
      <3>1. input \in Inbox /\ routing \in Routings
        BY <1>3 DEF SupervisorEntry, TInv, Types, Kinds
      <3>2. node' = "subgraph_placeholder" => input.type \in {"interactive", "template_button"}
        BY <2>2, <3>1, EntryLeads DEF Goto, Leads
      <3> QED  BY <2>2, <3>2 DEF Goto, Leads, OldTap
    <2> QED  BY <1>3, <2>1, <2>2 DEF SupervisorEntry
  <1>4. CASE ClassifyIntent
    BY <1>1, <1>4, ClassifiedTo DEF ToolNodes
  <1>5. CASE Answers \/ Finalize \/ Dies
    BY <1>1, <1>5, AnswersIs DEF Finalize, Dies, Answered, EndGraph, EndTurn
  <1>6. CASE SubgraphDispatch
    <2>1. node' \in {"query_classify", "confirm_bootstrap", "elsewhere"}
      BY <1>6, DispatchIs, FirstNodeIs
    <2> QED  BY <1>1, <2>1
  <1>7. CASE Elsewhere
    BY <1>1, <1>7 DEF Elsewhere, Interrupt, EndTurn, Leads
  <1>8. CASE QueryTurn
    <2>1. node' \in QueryNodes \cup {"subgraph_finalize"}
      BY <1>8, QueryStepIs DEF QueryTurn, GoesInside, GoesOn, QueryNodes
    <2> QED  BY <1>1, <2>1 DEF QueryNodes
  <1>9. CASE ConfirmStep
    BY <1>1, <1>9, ConfirmStepIs DEF ConfirmNodes
  <1>10. CASE Outside \/ UNCHANGED vars
    <2>1. UNCHANGED <<node, input>>
      BY <1>10, OutsideIs DEF vars, turn
    <2> QED  BY <2>1 DEF OldTap
  <1> QED  BY <1>2, <1>3, <1>4, <1>5, <1>6, <1>7, <1>8, <1>9, <1>10, Steps DEF ConfirmStep

\* Only media is told to be unsupported, and only a tap to be of an old button.
LEMMA CannedIs ==
    ASSUME SupervisorConstantsOK, ApptsAreNoTexts, TInv, OldTap, [Next]_vars, node # "idle",
           told' \in {Canned, Gone}, node' = "idle"
    PROVE  /\ told' = Canned => input.type = "media"
           /\ told' = Gone => input.type \in {"interactive", "template_button"}
  <1>0. /\ Canned # Gone
        /\ \A a, t : t \notin {"unsupported", "placeholder"} => Reply(a, t) \notin {Canned, Gone}
    BY DEF Canned, Gone, Reply
  <1>1. CASE SupervisorEntry
    BY <1>0, <1>1 DEF SupervisorEntry, EndGraph, EndTurn, Goto, Leads, supervisorEntryRouter,
       detectUnsupportedContent
  <1>2. CASE SubgraphPlaceholder
    BY <1>0, <1>2 DEF SubgraphPlaceholder, Answered, EndGraph, EndTurn, OldTap
  <1>3. CASE SocialResponder
    BY <1>0, <1>3 DEF SocialResponder, Answered, EndGraph, EndTurn
  <1>4. CASE AtomicTool
    <2>1. "unsupported" \notin AtomicTools /\ "placeholder" \notin AtomicTools
      BY DEF AtomicTools
    <2> QED  BY <1>0, <1>4, <2>1 DEF AtomicTool, Ran, Answered, EndGraph, EndTurn
  <1>5. CASE SendClientSummary
    BY <1>0, <1>5 DEF SendClientSummary, Ran, Answered, EndGraph, EndTurn
  <1>6. CASE Elsewhere
    BY <1>0, <1>6 DEF Elsewhere, Interrupt, EndTurn, Leads
  <1>7. CASE ConfirmStep
    <2>1. node' = "idle" => \E n : Interrupt(n, "which")
      <3>1. CASE ConfirmBootstrap
        <4>1. node = "confirm_bootstrap" /\ paused' = paused
          BY <3>1 DEF ConfirmBootstrap
        <4>2. paused = None
          BY <4>1 DEF TInv, Types, Kinds, None
        <4> QED  BY <1>7, <4>1, <4>2, ConfirmStepIs DEF None
      <3>2. CASE ConfirmAskSlot
        BY <3>2 DEF ConfirmAskSlot, Goto, Leads, RouteAfterConfirmAskSlot
      <3>3. CASE ConfirmAskSlotResumed \/ ConfirmCommit \/ ConfirmAnswered \/ ConfirmSuccess
        BY <3>3 DEF ConfirmAskSlotResumed, ConfirmCommit, ConfirmAnswered, ConfirmSuccess, Goto,
           Leads, RouteAfterConfirmAskSlot, RouteAfterConfirmCommit
      <3> QED  BY <1>7, <3>1, <3>2, <3>3 DEF ConfirmStep
    <2> QED  BY <1>0, <2>1 DEF Interrupt, EndTurn
  <1>8. CASE Finalize
    <2>1. told' = draft.terminalOutcome /\ draft.kind # None /\ draft \in AllDrafts
      BY <1>8 DEF Finalize, EndTurn, FinalOutcome, TInv, Types, Concluded
    <2>2. told'.text \notin {"unsupported", "placeholder"}
      BY <2>1, DraftSays
    <2> QED  BY <2>2 DEF Canned, Gone, Reply
  <1>9. CASE Dies
    BY <1>0, <1>9 DEF Dies, EndTurn
  <1>10. CASE QueryTurn
    BY <1>10, QueryStepIs DEF QueryTurn, GoesInside, GoesOn, QueryNodes
  <1>11. CASE Arrive \/ Outside \/ UNCHANGED vars
    BY <1>11, OutsideIs DEF Arrive, vars, turn
  <1>12. CASE ClassifyIntent
    BY <1>12, ClassifiedTo DEF ToolNodes
  <1>13. CASE SubgraphDispatch
    <2>1. node' \in {"query_classify", "confirm_bootstrap", "elsewhere"}
      BY <1>13, DispatchIs, FirstNodeIs
    <2> QED  BY <2>1
  <1> QED  BY <1>1, <1>2, <1>3, <1>4, <1>5, <1>6, <1>7, <1>8, <1>9, <1>10, <1>11, <1>12, <1>13,
              Steps DEF ConfirmStep, Answers

\* What ends a turn is about its message, whatever the channels kept of the turns before
\* (AnswersThisMessage).
THEOREM AnswersAreOfTheMessage == Spec => AnswersThisMessage
  <1>1. Init => OldTap
    BY DEF Init, OldTap
  <1>2. TInv /\ OldTap /\ [Next]_vars => OldTap'
    BY OldTapStep, SupervisorConstantsOK, ApptsAreNoTexts
  <1>3. TInv /\ Flow /\ OldTap /\ [Next]_vars =>
          [node # "idle" /\ node' = "idle" =>
             /\ told' = Canned => input.type = "media"
             /\ told' = Gone => input.type \in {"interactive", "template_button"}
             /\ node = "subgraph_finalize" /\ draft.kind = "query" => fresh \/ dangling]_vars
    BY CannedIs, SupervisorConstantsOK, ApptsAreNoTexts DEF Flow
  <1> QED  BY <1>1, <1>2, <1>3, FlowHolds, PTL DEF Spec, AnswersThisMessage

-----------------------------------------------------------------------------
(* What query executes.                                                    *)

\* Where the pipeline is bounds what it has executed; the SQL about to be executed is validated.
Spent ==
    /\ node \notin {"query_fetch", "query_synthesize", "subgraph_finalize"} => executed = <<>>
    /\ executed \in Seq(Sqls)
    /\ node = "query_fetch" =>
         /\ work.at = "start" => executed = <<>>
         /\ work.at \in {"generate", "execute"} =>
              /\ work.why \in {"first", "drilldown"} => executed = <<>>
              /\ work.why = "error" => Len(executed) <= 1
              /\ work.why = "critique" => Len(executed) <= 2
         /\ work.at = "execute" => work.sql \in Sqls /\ validateSql(work.sql, resolveAllowedSchema)
         /\ work.at = "judge" => Len(executed) <= 2

\* A step that executes nothing.
LEMMA NothingSent ==
    ASSUME SupervisorConstantsOK, TInv, Spent, ExecutedWasValidated, [Next]_vars,
           executed' = executed \/ executed' = <<>>
    PROVE  executed' \in Seq(Sqls) /\ ExecutedWasValidated'
  <1>1. CASE executed' = executed
    <2>1. resolveAllowedSchema' = resolveAllowedSchema
      BY IdentityStays DEF resolveAllowedSchema
    <2> QED  BY <1>1, <2>1 DEF Spent, ExecutedWasValidated, validateSql
  <1>2. CASE executed' = <<>>
    BY <1>2 DEF ExecutedWasValidated
  <1> QED  BY <1>1, <1>2

\* A SQL that is executed.
LEMMA SentIs ==
    ASSUME SupervisorConstantsOK, TInv, Spent, ExecutedWasValidated, [Next]_vars,
           node = "query_fetch", work.at = "execute", Sent(work.sql)
    PROVE  /\ executed' \in Seq(Sqls) /\ ExecutedWasValidated'
           /\ work.why \in {"first", "drilldown"} => Len(executed') = 1
           /\ work.why = "error" => Len(executed') <= 2
           /\ work.why \in {"first", "drilldown", "error", "critique"}
  <1>1. /\ work.why \in {"first", "drilldown", "error", "critique"}
        /\ work.sql \in Sqls /\ validateSql(work.sql, resolveAllowedSchema)
        /\ executed \in Seq(Sqls)
    BY DEF TInv, Types, Works, Locals, Spent, None
  <1>2. Len(executed) <= 2 /\ (work.why \in {"first", "drilldown"} => Len(executed) = 0)
        /\ (work.why = "error" => Len(executed) <= 1)
    BY <1>1 DEF Spent
  <1>3. executed' = Append(executed, work.sql)
    BY <1>1, <1>2 DEF Sent
  <1>4. /\ executed' \in Seq(Sqls) /\ Len(executed') = Len(executed) + 1
        /\ \A i \in DOMAIN executed' :
             executed'[i] = work.sql \/ (i \in DOMAIN executed /\ executed'[i] = executed[i])
    BY <1>1, <1>3
  <1>5. resolveAllowedSchema' = resolveAllowedSchema
    BY IdentityStays DEF resolveAllowedSchema
  <1>6. \A i \in DOMAIN executed' : validateSql(executed'[i], resolveAllowedSchema)
    BY <1>1, <1>4 DEF ExecutedWasValidated
  <1>7. \A i \in DOMAIN executed' : validateSql(executed'[i], resolveAllowedSchema')
    BY <1>5, <1>6
  <1>8. ExecutedWasValidated'
    BY <1>1, <1>2, <1>4, <1>7 DEF ExecutedWasValidated, validateSql
  <1> QED  BY <1>1, <1>2, <1>4, <1>8

LEMMA QuerySpends ==
    ASSUME SupervisorConstantsOK, TInv, Spent, ExecutedWasValidated, QueryTurn, [Next]_vars
    PROVE  Spent' /\ ExecutedWasValidated'
  <1>0. /\ QueryStep /\ draft \in QueryDrafts /\ work \in Works /\ node \in QueryNodes
        /\ identity' = identity
    BY QueryStepIs DEF QueryTurn
  <1>1. resolveAllowedSchema' = resolveAllowedSchema
    BY <1>0 DEF resolveAllowedSchema
  <1>2. ASSUME GoesOn, executed' \in Seq(Sqls), node = "query_classify" => executed' = <<>>,
               node = "query_fetch" => node' \in {"query_synthesize", "subgraph_finalize"},
               node = "query_synthesize" => node' = "subgraph_finalize"
        PROVE  Spent'
    BY <1>0, <1>2, IdleIsWork DEF GoesOn, Spent, QueryNodes
  <1>3. CASE QueryClassify
    <2>1. GoesOn /\ node = "query_classify" /\ executed' = executed /\ executed = <<>>
      BY <1>0, <1>3, QueryClassifyIs DEF Spent
    <2> QED  BY <1>2, <2>1, NothingSent
  <1>4. CASE QueryFetch
    <2>1. /\ GoesOn /\ node = "query_fetch" /\ executed' = executed
          /\ node' \in {"query_synthesize", "subgraph_finalize"}
      BY <1>0, <1>4, QueryFetchIs
    <2> QED  BY <1>2, <2>1, NothingSent
  <1>5. ASSUME FreeformOver, node = "query_fetch", executed' \in Seq(Sqls)
        PROVE  Spent'
    BY <1>2, <1>5 DEF FreeformOver
  <1>6. CASE FreeformSchema \/ NotGenerated
    <2>1. /\ node = "query_fetch" /\ executed' = executed
          /\ \/ /\ GoesInside /\ work'.at = "generate" /\ work'.why \in {"first", "drilldown"}
                /\ work.at = "start" \/ (work.at = "generate" /\ work.why = "first")
             \/ FreeformOver
      BY <1>0, <1>6, FreeformSchemaIs, NotGeneratedIs
    <2>2. executed' \in Seq(Sqls) /\ ExecutedWasValidated'
      BY <2>1, NothingSent
    <2>3. CASE /\ GoesInside /\ work'.at = "generate" /\ work'.why \in {"first", "drilldown"}
               /\ work.at = "start" \/ (work.at = "generate" /\ work.why = "first")
      <3>1. executed' = <<>> /\ node' = node
        BY <2>1, <2>3 DEF Spent, GoesInside
      <3> QED  BY <2>1, <2>2, <2>3, <3>1 DEF Spent
    <2> QED  BY <1>5, <2>1, <2>2, <2>3
  <1>7. CASE Generated
    <2>1. /\ node = "query_fetch" /\ executed' = executed /\ work.at = "generate"
          /\ \/ /\ GoesInside /\ work'.at = "execute" /\ work'.why = work.why
                /\ work'.sql \in Sqls /\ validateSql(work'.sql, resolveAllowedSchema)
             \/ FreeformOver
      BY <1>0, <1>7, GeneratedIs
    <2>2. executed' \in Seq(Sqls) /\ ExecutedWasValidated'
      BY <2>1, NothingSent
    <2>3. CASE /\ GoesInside /\ work'.at = "execute" /\ work'.why = work.why
               /\ work'.sql \in Sqls /\ validateSql(work'.sql, resolveAllowedSchema)
      <3>1. validateSql(work'.sql, resolveAllowedSchema')
        BY <1>1, <2>3
      <3>2. validateSql(work.sql, resolveAllowedSchema)'
        BY <3>1 DEF validateSql
      <3> QED  BY <2>1, <2>2, <2>3, <3>2 DEF Spent, GoesInside
    <2> QED  BY <1>5, <2>1, <2>2, <2>3
  <1>8. CASE Executed
    <2>1. /\ node = "query_fetch" /\ work.at = "execute" /\ Sent(work.sql)
          /\ \/ GoesInside /\ work'.at = "judge" /\ work.why # "critique"
             \/ FreeformOver
      BY <1>0, <1>8, ExecutedIs
    <2>2. /\ executed' \in Seq(Sqls) /\ ExecutedWasValidated'
          /\ work.why \in {"first", "drilldown"} => Len(executed') = 1
          /\ work.why = "error" => Len(executed') <= 2
          /\ work.why \in {"first", "drilldown", "error", "critique"}
      BY <2>1, SentIs
    <2>3. work.why # "critique" => Len(executed') <= 2
      <3>1. CASE work.why \in {"first", "drilldown"}
        <4>1. Len(executed') = 1
          BY <2>2, <3>1
        <4> QED  BY <4>1
      <3>2. CASE work.why \in {"error", "critique"}
        BY <2>2, <3>2
      <3> QED  BY <2>2, <3>1, <3>2
    <2>4. CASE GoesInside /\ work'.at = "judge" /\ work.why # "critique"
      <3>1. node' = "query_fetch" /\ Len(executed') <= 2
        BY <2>1, <2>3, <2>4 DEF GoesInside
      <3> QED  BY <2>2, <2>4, <3>1 DEF Spent
    <2> QED  BY <1>5, <2>1, <2>2, <2>4
  <1>9. CASE ExecuteFailed
    <2>1. /\ node = "query_fetch" /\ work.at = "execute" /\ Sent(work.sql)
          /\ \/ /\ GoesInside /\ work.why \in {"first", "drilldown"}
                /\ work'.at = "generate" /\ work'.why = "error"
             \/ FreeformOver
      BY <1>0, <1>9, ExecuteFailedIs
    <2>2. /\ executed' \in Seq(Sqls) /\ ExecutedWasValidated'
          /\ work.why \in {"first", "drilldown"} => Len(executed') = 1
      BY <2>1, SentIs
    <2>3. CASE /\ GoesInside /\ work.why \in {"first", "drilldown"}
               /\ work'.at = "generate" /\ work'.why = "error"
      <3>1. Len(executed') = 1
        BY <2>2, <2>3
      <3>2. Len(executed') <= 1
        BY <3>1
      <3>3. node' = "query_fetch"
        BY <2>1, <2>3 DEF GoesInside
      <3> QED  BY <2>2, <2>3, <3>2, <3>3 DEF Spent
    <2> QED  BY <1>5, <2>1, <2>2, <2>3
  <1>10. CASE SqlJudged
    <2>1. /\ node = "query_fetch" /\ work.at = "judge" /\ executed' = executed
          /\ \/ GoesInside /\ work'.at = "generate" /\ work'.why = "critique"
             \/ FreeformOver
      BY <1>0, <1>10, SqlJudgedIs
    <2>2. executed' \in Seq(Sqls) /\ ExecutedWasValidated'
      BY <2>1, NothingSent
    <2>3. CASE GoesInside /\ work'.at = "generate" /\ work'.why = "critique"
      <3>1. node' = "query_fetch" /\ Len(executed') <= 2
        BY <1>0, <2>1, <2>3 DEF GoesInside, Spent
      <3> QED  BY <2>2, <2>3, <3>1 DEF Spent
    <2> QED  BY <1>5, <2>1, <2>2, <2>3
  <1>11. CASE SynthesizeStep
    <2>1. /\ node = "query_synthesize" /\ executed' = executed
          /\ GoesInside \/ (GoesOn /\ node' = "subgraph_finalize")
      BY <1>0, <1>11, SynthesizeStepIs
    <2>2. executed' \in Seq(Sqls) /\ ExecutedWasValidated'
      BY <2>1, NothingSent
    <2> QED  BY <1>2, <2>1, <2>2 DEF Spent, GoesInside
  <1> QED  BY <1>0, <1>3, <1>4, <1>6, <1>7, <1>8, <1>9, <1>10, <1>11 DEF QueryStep, SynthesizeStep

\* The nodes around the query: nothing has been executed when they run, or the turn is over.
LEMMA OthersSpend ==
    ASSUME SupervisorConstantsOK, ApptsAreNoTexts, TInv, Spent, [Next]_vars, ~QueryTurn
    PROVE  /\ executed' = executed \/ executed' = <<>>
           /\ Spent'
  <1>1. ASSUME executed' = <<>>, node' # "query_fetch"
        PROVE  Spent'
    BY <1>1 DEF Spent
  <1>2. ASSUME executed' = executed, executed = <<>>, node' # "query_fetch"
        PROVE  Spent'
    BY <1>2 DEF Spent
  <1>3. CASE Arrive
    <2>1. /\ executed' = executed /\ executed = <<>>
          /\ node' \in {"supervisor_entry", "elsewhere", "confirm_ask_slot"}
      BY <1>3 DEF Arrive, Opened, Spent, TInv, Types, None
    <2> QED  BY <1>2, <2>1
  <1>4. CASE SupervisorEntry
    <2>1. /\ executed' \in {executed, <<>>} /\ executed = <<>> /\ node' # "query_fetch"
      BY <1>4, EntryIsNoTool DEF SupervisorEntry, EndGraph, EndTurn, Goto, Leads, Spent
    <2> QED  BY <1>1, <2>1
  <1>5. CASE ClassifyIntent
    <2>1. executed' = executed /\ executed = <<>> /\ node' # "query_fetch"
      BY <1>5, ClassifiedTo DEF ClassifyIntent, Goto, Leads, Spent, ToolNodes
    <2> QED  BY <1>2, <2>1
  <1>6. CASE Answers \/ Finalize \/ Dies
    <2>1. executed' = <<>> /\ node' = "idle"
      BY <1>6, AnswersIs DEF Answered, EndGraph, EndTurn, Finalize, Dies
    <2> QED  BY <1>1, <2>1
  <1>7. CASE SubgraphDispatch
    <2>1. /\ executed' = executed /\ executed = <<>>
          /\ node' \in {"query_classify", "confirm_bootstrap", "elsewhere"}
      BY <1>7, DispatchIs, FirstNodeIs DEF Spent
    <2> QED  BY <1>2, <2>1
  <1>8. CASE Elsewhere
    <2>1. executed' \in {executed, <<>>} /\ executed = <<>> /\ node' # "query_fetch"
      BY <1>8 DEF Elsewhere, Interrupt, EndTurn, Leads, Spent
    <2> QED  BY <1>1, <2>1
  <1>9. CASE ConfirmStep
    <2>1. node \in ConfirmNodes /\ node' \in {"idle", "subgraph_finalize"} \cup ConfirmNodes
      BY <1>9, ConfirmStepIs
    <2>2. executed' \in {executed, <<>>}
      BY <1>9 DEF ConfirmStep, ConfirmBootstrap, ConfirmAskSlot, ConfirmAskSlotResumed,
         ConfirmCommit, ConfirmAnswered, ConfirmSuccess, Interrupt, EndTurn, Goto, Leads
    <2>3. executed = <<>> /\ node' # "query_fetch"
      BY <2>1 DEF Spent, ConfirmNodes
    <2> QED  BY <1>1, <2>2, <2>3
  <1>10. CASE Outside \/ UNCHANGED vars
    <2>1. UNCHANGED <<node, work, executed, identity>>
      BY <1>10, OutsideIs DEF vars, turn
    <2>2. resolveAllowedSchema' = resolveAllowedSchema
      BY <2>1 DEF resolveAllowedSchema
    <2>3. validateSql(work.sql, resolveAllowedSchema)' <=> validateSql(work.sql, resolveAllowedSchema)
      BY <2>1, <2>2 DEF validateSql
    <2> QED  BY <2>1, <2>3 DEF Spent
  <1> QED  BY <1>3, <1>4, <1>5, <1>6, <1>7, <1>8, <1>9, <1>10, Steps DEF ConfirmStep

\* Guacuco gets only SQL validated against the schema of the user's role, three times at most
\* (ExecutedWasValidated).
THEOREM OnlyValidatedRuns == Spec => []ExecutedWasValidated
  <1> DEFINE Inv == Spent /\ ExecutedWasValidated
  <1>1. Init => Inv
    BY DEF Init, Spent, ExecutedWasValidated
  <1>2. TInv /\ Inv /\ [Next]_vars => Inv'
    <2> SUFFICES ASSUME TInv, Spent, ExecutedWasValidated, [Next]_vars
                 PROVE  Spent' /\ ExecutedWasValidated'
      OBVIOUS
    <2>1. CASE QueryTurn
      BY <2>1, QuerySpends, SupervisorConstantsOK
    <2>2. CASE ~QueryTurn
      BY <2>2, OthersSpend, NothingSent, SupervisorConstantsOK, ApptsAreNoTexts
    <2> QED  BY <2>1, <2>2
  <1>3. Inv => ExecutedWasValidated
    OBVIOUS
  <1> QED  BY <1>1, <1>2, <1>3, TypesHold, PTL DEF Spec

-----------------------------------------------------------------------------
(* What query tells.                                                       *)

\* Rows come only of a free-form question, and a query that goes on has nothing to say yet.
Rows ==
    /\ node \in {"query_fetch", "query_synthesize"} => draft.terminalOutcome = NoReply
    /\ node = "query_fetch" /\ work.at # "start" => draft.intent = "freeform_sql"
    /\ node = "query_synthesize" /\ draft.intent \notin {"freeform_sql", "cannot_answer"} =>
          draft.raw.kind # "rows"

LEMMA QueryTells ==
    ASSUME SupervisorConstantsOK, TInv, Rows, OnlyApprovedTold, QueryTurn
    PROVE  Rows' /\ OnlyApprovedTold'
  <1>0. /\ QueryStep /\ draft \in QueryDrafts /\ work \in Works /\ node \in QueryNodes
        /\ draft.kind = "query"
    BY QueryStepIs DEF QueryTurn, QueryDrafts
  <1>1. ASSUME GoesInside, node = "query_fetch" => draft.intent = "freeform_sql"
        PROVE  Rows' /\ OnlyApprovedTold'
    BY <1>1 DEF GoesInside, Rows, OnlyApprovedTold
  <1>2. ASSUME GoesOn, node' = "query_synthesize" =>
                         \/ draft'.intent \in {"freeform_sql", "cannot_answer"}
                         \/ draft'.raw.kind # "rows"
        PROVE  Rows'
    BY <1>2 DEF GoesOn, Rows, Idle
  <1>3. ASSUME draft'.terminalOutcome.text # "unjudged"
        PROVE  OnlyApprovedTold'
    BY <1>3 DEF OnlyApprovedTold
  <1>4. NoReply.text # "unjudged"
    BY DEF NoReply, Reply, None
  <1>5. CASE QueryClassify
    <2>1. /\ GoesOn /\ draft'.raw = draft.raw /\ draft'.terminalOutcome = draft.terminalOutcome
          /\ node' = "query_synthesize" => draft'.intent = "cannot_answer"
      BY <1>0, <1>5, QueryClassifyIs
    <2>2. OnlyApprovedTold'
      BY <1>0, <2>1 DEF OnlyApprovedTold
    <2> QED  BY <1>2, <2>1, <2>2
  <1>6. CASE QueryFetch
    <2>1. /\ GoesOn
          /\ draft'.phase = "failed" \/ draft'.raw = Raw("data", NoSql)
          /\ \/ draft'.terminalOutcome = draft.terminalOutcome
             \/ draft'.terminalOutcome.text # "unjudged"
          /\ node = "query_fetch"
      BY <1>0, <1>6, QueryFetchIs
    <2>2. draft'.terminalOutcome.text # "unjudged"
      BY <1>4, <2>1 DEF Rows
    <2>3. node' = "query_synthesize" => draft'.raw.kind # "rows"
      BY <2>1 DEF GoesOn, Raw
    <2> QED  BY <1>2, <1>3, <2>1, <2>2, <2>3
  <1>7. CASE FreeformStep
    <2>1. /\ node = "query_fetch"
          /\ GoesInside \/ FreeformOver
      BY <1>0, <1>7, FreeformSchemaIs, NotGeneratedIs, GeneratedIs, ExecutedIs, ExecuteFailedIs,
         SqlJudgedIs DEF FreeformStep
    <2>2. draft.intent = "freeform_sql"
      <3>1. CASE FreeformSchema
        BY <3>1 DEF FreeformSchema
      <3>2. CASE NotGenerated \/ Generated \/ Executed \/ ExecuteFailed \/ SqlJudged
        BY <3>2 DEF NotGenerated, Generated, Executed, ExecuteFailed, SqlJudged, At, Rows
      <3> QED  BY <1>7, <3>1, <3>2 DEF FreeformStep
    <2>3. CASE GoesInside
      BY <1>1, <2>2, <2>3
    <2>4. CASE FreeformOver
      <3>1. draft'.terminalOutcome.text # "unjudged"
        BY <1>4, <2>1, <2>4 DEF FreeformOver, Rows
      <3> QED  BY <1>2, <1>3, <2>2, <2>4, <3>1 DEF FreeformOver
    <2> QED  BY <2>1, <2>3, <2>4
  <1>8. CASE SynthesizeStep
    <2>1. /\ node = "query_synthesize"
          /\ \/ GoesInside
             \/ /\ GoesOn /\ node' = "subgraph_finalize" /\ draft'.raw = draft.raw
                /\ draft'.terminalOutcome.text = "unjudged" =>
                      draft.intent # "cannot_answer" /\ ~NeedsJudge(draft)
      BY <1>0, <1>8, SynthesizeStepIs
    <2>2. CASE GoesInside
      BY <1>1, <2>1, <2>2
    <2>3. CASE /\ GoesOn /\ node' = "subgraph_finalize" /\ draft'.raw = draft.raw
               /\ draft'.terminalOutcome.text = "unjudged" =>
                      draft.intent # "cannot_answer" /\ ~NeedsJudge(draft)
      <3>1. draft.intent # "cannot_answer" /\ ~NeedsJudge(draft) =>
              ~(judge /\ draft.raw.kind = "rows")
        BY <2>1 DEF NeedsJudge, Rows
      <3>2. OnlyApprovedTold'
        BY <2>3, <3>1 DEF OnlyApprovedTold
      <3> QED  BY <1>2, <2>3, <3>2
    <2> QED  BY <2>1, <2>2, <2>3
  <1> QED  BY <1>0, <1>5, <1>6, <1>7, <1>8 DEF QueryStep, FreeformStep, SynthesizeStep

LEMMA OthersTell ==
    ASSUME SupervisorConstantsOK, ApptsAreNoTexts, TInv, Rows, OnlyApprovedTold, [Next]_vars,
           ~QueryTurn
    PROVE  Rows' /\ OnlyApprovedTold'
  <1>1. ASSUME node' \notin {"query_fetch", "query_synthesize"},
               \/ draft' = draft \/ draft'.kind # "query"
               \/ draft'.terminalOutcome.text # "unjudged"
        PROVE  Rows' /\ OnlyApprovedTold'
    BY <1>1 DEF Rows, OnlyApprovedTold
  <1>2. CASE Arrive
    BY <1>1, <1>2 DEF Arrive, Opened, TInv, Types, None
  <1>3. CASE SupervisorEntry
    BY <1>1, <1>3, EntryIsNoTool DEF SupervisorEntry, EndGraph
  <1>4. CASE ClassifyIntent
    BY <1>1, <1>4, ClassifiedTo DEF ClassifyIntent, ToolNodes
  <1>5. CASE Answers \/ Dies
    BY <1>1, <1>5, AnswersIs DEF Answered, EndGraph, EndTurn, Dies
  <1>6. CASE Finalize
    BY <1>1, <1>6 DEF Finalize, EndTurn, NoDraft, None
  <1>7. CASE SubgraphDispatch
    <2> DEFINE f == resolveDispatchTarget(routing)
    <2>1. /\ f \in Flows /\ node' = FirstNode(f)
          /\ draft' = IF draft.kind = f THEN draft ELSE InitialDraft(f)
      BY <1>7, DispatchIs
    <2> HIDE DEF f
    <2>2. node' \in {"query_classify", "confirm_bootstrap", "elsewhere"}
      BY <2>1, FirstNodeIs
    <2>3. InitialDraft(f).terminalOutcome.text # "unjudged"
      BY <2>1, InitialDraftType DEF TInv, Types, NoReply, Reply, None
    <2> QED  BY <1>1, <2>1, <2>2, <2>3
  <1>8. CASE Elsewhere
    <2>1. draft.kind \in OtherFlows /\ draft \in OtherDrafts
      BY <1>8, DraftOfKind DEF Elsewhere, TInv, Types, Kinds
    <2>2. draft'.kind = draft.kind /\ node' \in {"idle", "subgraph_finalize"}
      BY <1>8, <2>1 DEF Elsewhere, Interrupt, EndTurn, Leads, OtherDrafts
    <2> QED  BY <1>1, <2>1, <2>2, KindsApart
  <1>9. CASE ConfirmStep
    <2>1. /\ draft' \in ConfirmDrafts
          /\ node' \in {"idle", "subgraph_finalize"} \cup ConfirmNodes
      BY <1>9, ConfirmStepIs
    <2> QED  BY <1>1, <2>1, KindsApart DEF ConfirmNodes
  <1>10. CASE Outside \/ UNCHANGED vars
    <2>1. UNCHANGED <<node, work, draft>>
      BY <1>10, OutsideIs DEF vars, turn, thread
    <2> QED  BY <2>1 DEF Rows, OnlyApprovedTold
  <1> QED  BY <1>2, <1>3, <1>4, <1>5, <1>6, <1>7, <1>8, <1>9, <1>10, Steps DEF ConfirmStep

\* With the judge on, a text about rows goes out only approved (OnlyApprovedTold).
THEOREM OnlyApprovedIsTold == Spec => []OnlyApprovedTold
  <1> DEFINE Inv == Rows /\ OnlyApprovedTold
  <1>1. Init => Inv
    BY DEF Init, Rows, OnlyApprovedTold, NoDraft, None
  <1>2. TInv /\ Inv /\ [Next]_vars => Inv'
    BY QueryTells, OthersTell, SupervisorConstantsOK, ApptsAreNoTexts
  <1>3. Inv => OnlyApprovedTold
    OBVIOUS
  <1> QED  BY <1>1, <1>2, <1>3, TypesHold, PTL DEF Spec

-----------------------------------------------------------------------------
(* The turn ends.                                                          *)

LEMMA RankBounds ==
    ASSUME Types
    PROVE  Rank \in 0..18 /\ (node # "idle" => Rank > 0)
  <1>1. \A n \in QueryNodes : QueryRank(n, work) \in 1..15
    BY DEF QueryRank, QueryNodes
  <1> QED  BY <1>1 DEF Rank, QueryNodes

\* Where the turn stands once a node of query is over.
LEMMA OverRank ==
    ASSUME GoesOn
    PROVE  /\ node' = "query_fetch" => Rank' = 14
           /\ node' = "query_synthesize" => Rank' = 5
           /\ node' = "subgraph_finalize" => Rank' = 1
  BY DEF GoesOn, Rank, QueryRank, Idle

\* Inside query_fetch.
LEMMA FreeformShrinks ==
    ASSUME draft \in QueryDrafts, work \in Works, FreeformStep
    PROVE  Rank' < Rank
  <1>1. node = "query_fetch" /\ (GoesInside \/ FreeformOver)
    BY FreeformSchemaIs, NotGeneratedIs, GeneratedIs, ExecutedIs, ExecuteFailedIs, SqlJudgedIs
       DEF FreeformStep
  <1>2. Rank = QueryRank("query_fetch", work) /\ Rank \in 6..14
    BY <1>1 DEF Rank, QueryRank
  <1>3. CASE FreeformOver
    <2>1. Rank' \in {1, 5}
      BY <1>3, OverRank DEF FreeformOver
    <2> QED  BY <1>2, <2>1
  <1>4. CASE GoesInside /\ ~FreeformOver
    <2>1. Rank' = QueryRank("query_fetch", work')
      BY <1>1, <1>4 DEF GoesInside, Rank, QueryRank
    <2>2. CASE FreeformSchema
      <3>1. work.at = "start" /\ work'.at = "generate" /\ work'.why = "first"
        BY <1>4, <2>2, FreeformSchemaIs
      <3> QED  BY <1>2, <2>1, <3>1 DEF QueryRank
    <2>3. CASE NotGenerated
      <3>1. /\ work.at = "generate" /\ work.why = "first"
            /\ work'.at = "generate" /\ work'.why = "drilldown"
        BY <1>4, <2>3, NotGeneratedIs
      <3> QED  BY <1>2, <2>1, <3>1 DEF QueryRank
    <2>4. CASE Generated
      <3>1. /\ work.at = "generate" /\ work'.at = "execute" /\ work'.why = work.why
            /\ work.why \in {"first", "drilldown", "error", "critique"}
        BY <1>4, <2>4, GeneratedIs DEF Works, Locals, None
      <3> QED  BY <1>2, <2>1, <3>1 DEF QueryRank
    <2>5. CASE Executed
      <3>1. /\ work.at = "execute" /\ work'.at = "judge"
            /\ work.why \in {"first", "drilldown", "error"}
        BY <1>4, <2>5, ExecutedIs DEF Works, Locals, None
      <3> QED  BY <1>2, <2>1, <3>1 DEF QueryRank
    <2>6. CASE ExecuteFailed
      <3>1. /\ work.at = "execute" /\ work.why \in {"first", "drilldown"}
            /\ work'.at = "generate" /\ work'.why = "error"
        BY <1>4, <2>6, ExecuteFailedIs
      <3> QED  BY <1>2, <2>1, <3>1 DEF QueryRank
    <2>7. CASE SqlJudged
      <3>1. work.at = "judge" /\ work'.at = "generate" /\ work'.why = "critique"
        BY <1>4, <2>7, SqlJudgedIs
      <3> QED  BY <1>2, <2>1, <3>1 DEF QueryRank
    <2> QED  BY <2>2, <2>3, <2>4, <2>5, <2>6, <2>7 DEF FreeformStep
  <1> QED  BY <1>1, <1>3, <1>4

\* Inside query_synthesize.
LEMMA SynthesizeShrinks ==
    ASSUME work \in Works, SynthesizeStep
    PROVE  Rank' < Rank
  <1>1. node = "query_synthesize" /\ Rank = QueryRank("query_synthesize", work) /\ Rank \in 2..5
    BY DEF SynthesizeStep, Synthesize, TextJudged, TextRetried, RetryJudged, At, Rank, QueryRank
  <1>2. ASSUME NEW t, Synthesized(t) PROVE Rank' < Rank
    <2>1. Rank' = 1
      BY <1>2 DEF Synthesized, Leave, Rank
    <2> QED  BY <1>1, <2>1
  <1>3. ASSUME NEW a \in {"judge_text", "retry_text", "judge_retry"}, Inside([work EXCEPT !.at = a])
        PROVE  Rank' = CASE a = "judge_text" -> 4 [] a = "retry_text" -> 3 [] OTHER -> 2
    <2>1. work'.at = a /\ node' = "query_synthesize"
      BY <1>1, <1>3 DEF Inside, Works, Locals
    <2> QED  BY <2>1 DEF Rank, QueryRank
  <1>4. CASE Inside([work EXCEPT !.at = "judge_text"]) /\ work.at = "start"
    <2>1. Rank' = 4 /\ Rank = 5
      BY <1>1, <1>3, <1>4 DEF QueryRank
    <2> QED  BY <2>1
  <1>5. CASE Inside([work EXCEPT !.at = "retry_text"]) /\ work.at = "judge_text"
    <2>1. Rank' = 3 /\ Rank = 4
      BY <1>1, <1>3, <1>5 DEF QueryRank
    <2> QED  BY <2>1
  <1>6. CASE Inside([work EXCEPT !.at = "judge_retry"]) /\ work.at = "retry_text"
    <2>1. Rank' = 2 /\ Rank = 3
      BY <1>1, <1>3, <1>6 DEF QueryRank
    <2> QED  BY <2>1
  <1>7. CASE Synthesize
    BY <1>2, <1>4, <1>7 DEF Synthesize, At
  <1>8. CASE TextJudged
    BY <1>2, <1>5, <1>8 DEF TextJudged, At
  <1>9. CASE TextRetried
    BY <1>2, <1>6, <1>9 DEF TextRetried, At
  <1>10. CASE RetryJudged
    BY <1>2, <1>10 DEF RetryJudged
  <1> QED  BY <1>7, <1>8, <1>9, <1>10 DEF SynthesizeStep

LEMMA QueryShrinks ==
    ASSUME SupervisorConstantsOK, TInv, QueryTurn
    PROVE  Rank' < Rank
  <1>0. QueryStep /\ draft \in QueryDrafts /\ work \in Works
    BY QueryStepIs DEF QueryTurn
  <1>1. CASE QueryClassify
    <2>1. Rank = 15 /\ GoesOn
      BY <1>0, <1>1, QueryClassifyIs DEF Rank, QueryRank
    <2>2. Rank' \in {1, 5, 14}
      BY <2>1, OverRank DEF GoesOn
    <2> QED  BY <2>1, <2>2
  <1>2. CASE QueryFetch
    <2>1. Rank = 14
      BY <1>2 DEF QueryFetch, At, Rank, QueryRank
    <2>2. Rank' \in {1, 5}
      BY <1>0, <1>2, QueryFetchIs, OverRank
    <2> QED  BY <2>1, <2>2
  <1> QED  BY <1>0, <1>1, <1>2, FreeformShrinks, SynthesizeShrinks
           DEF QueryStep, FreeformStep, SynthesizeStep

LEMMA ConfirmShrinks ==
    ASSUME SupervisorConstantsOK, TInv, ConfirmStep
    PROVE  Rank' < Rank
  <1>0. draft \in ConfirmDrafts /\ node \in ConfirmNodes
    BY ConfirmStepIs
  <1>1. ASSUME node' = "idle" PROVE Rank' < Rank
    <2>1. Rank' = 0
      BY <1>1 DEF Rank
    <2> QED  BY <1>0, <2>1, RankBounds DEF TInv, ConfirmNodes
  <1>2. ASSUME node' = "subgraph_finalize" PROVE Rank' < Rank
    <2>1. Rank' = 1 /\ Rank >= 2
      BY <1>0, <1>2 DEF Rank, ConfirmNodes
    <2>2. Rank \in 0..18
      BY RankBounds DEF TInv
    <2> QED  BY <2>1, <2>2
  <1>3. CASE ConfirmBootstrap
    <2>1. node' \in {"idle", "subgraph_finalize"} \cup ConfirmNodes
      BY <1>3, ConfirmStepIs
    <2>2. Rank = 6 /\ node' = RouteAfterConfirmBootstrap(draft')
      BY <1>3 DEF ConfirmBootstrap, Goto, Leads, Rank
    <2>3. draft'.phase \in {"committing", "collecting", "failed"}
      BY <1>0, <1>3 DEF ConfirmBootstrap, Bootstrapped, FailedConfirm, ConfirmDrafts
    <2>4. node' \in {"subgraph_finalize", "confirm_commit", "confirm_ask_slot"}
      BY <2>2, <2>3 DEF RouteAfterConfirmBootstrap, IsActiveDraft
    <2>5. Rank' \in {1, 2, 4, 5}
      BY <2>4 DEF Rank
    <2> QED  BY <2>2, <2>5
  <1>4. CASE ConfirmAskSlot
    <2>1. CASE /\ draft' = FailedConfirm(draft, "handed_off", "which")
               /\ Goto(RouteAfterConfirmAskSlot(draft'))
      <3>1. draft'.phase = "failed"
        BY <1>0, <2>1 DEF FailedConfirm, ConfirmDrafts
      <3> QED  BY <1>2, <2>1, <3>1 DEF Goto, Leads, RouteAfterConfirmAskSlot, IsActiveDraft
    <2>2. CASE Interrupt("confirm_ask_slot", "which")
      BY <1>1, <2>2 DEF Interrupt, EndTurn
    <2> QED  BY <1>4, <2>1, <2>2 DEF ConfirmAskSlot
  <1>5. CASE ConfirmAskSlotResumed
    <2>1. Rank = 5 /\ reply' = NoMsg
      BY <1>5 DEF ConfirmAskSlotResumed, Rank
    <2>2. node' \in {"subgraph_finalize", "confirm_commit", "confirm_ask_slot"}
      BY <1>5 DEF ConfirmAskSlotResumed, Leads, RouteAfterConfirmAskSlot
    <2>3. Rank' \in {1, 2, 4}
      BY <2>1, <2>2 DEF Rank
    <2> QED  BY <2>1, <2>3
  <1>6. CASE ConfirmCommit
    <2>1. Rank = 4 /\ node' \in {"subgraph_finalize", "guacuco"}
      BY <1>6 DEF ConfirmCommit, Goto, Leads, Rank
    <2>2. Rank' \in {1, 3}
      BY <2>1 DEF Rank
    <2> QED  BY <2>1, <2>2
  <1>7. CASE ConfirmAnswered
    <2>1. Rank = 3 /\ node' \in {"subgraph_finalize", "confirm_success"}
      BY <1>7 DEF ConfirmAnswered, Leads, RouteAfterConfirmCommit, Rank
    <2>2. Rank' \in {1, 2}
      BY <2>1 DEF Rank
    <2> QED  BY <2>1, <2>2
  <1>8. CASE ConfirmSuccess
    BY <1>2, <1>8 DEF ConfirmSuccess, Goto, Leads
  <1> QED  BY <1>3, <1>4, <1>5, <1>6, <1>7, <1>8 DEF ConfirmStep

\* The nodes before the flows, and finalize.
LEMMA OthersShrink ==
    ASSUME SupervisorConstantsOK, TInv, node # "idle",
           SupervisorEntry \/ ClassifyIntent \/ Answers \/ SubgraphDispatch \/ Elsewhere
             \/ Finalize \/ Dies
    PROVE  Rank' < Rank
  <1>0. Rank \in 1..18
    BY RankBounds DEF TInv
  <1>1. ASSUME node' = "idle" PROVE Rank' < Rank
    <2>1. Rank' = 0
      BY <1>1 DEF Rank
    <2> QED  BY <1>0, <2>1
  <1>2. CASE SupervisorEntry
    <2>1. Rank = 18
      BY <1>2 DEF SupervisorEntry, Rank
    <2>2. node' \in {"idle", "subgraph_dispatch", "classify_intent", "tool_send_client_summary",
                     "subgraph_placeholder"}
      BY <1>2, EntryIsNoTool
    <2>3. Rank' \in {0, 16, 17, 1}
      BY <2>2 DEF Rank
    <2> QED  BY <2>1, <2>3
  <1>3. CASE ClassifyIntent
    <2>1. Rank = 17
      BY <1>3 DEF ClassifyIntent, Rank
    <2>2. node' \in ToolNodes \cup {"subgraph_dispatch", "social_responder"}
      BY <1>3, ClassifiedTo
    <2>3. Rank' \in {16, 1}
      BY <2>2 DEF Rank, ToolNodes
    <2> QED  BY <2>1, <2>3
  <1>4. CASE Answers \/ Finalize \/ Dies
    BY <1>1, <1>4, AnswersIs DEF Answered, EndGraph, EndTurn, Finalize, Dies
  <1>5. CASE SubgraphDispatch
    <2>1. Rank = 16 /\ node' \in {"query_classify", "confirm_bootstrap", "elsewhere"}
      BY <1>5, DispatchIs, FirstNodeIs DEF Rank
    <2>2. Rank' \in {15, 6, 2}
      BY <2>1 DEF Rank, QueryRank
    <2> QED  BY <2>1, <2>2
  <1>6. CASE Elsewhere
    <2>1. Rank = 2
      BY <1>6 DEF Elsewhere, Rank
    <2>2. node' \in {"idle", "subgraph_finalize"}
      BY <1>6 DEF Elsewhere, Interrupt, EndTurn, Leads
    <2>3. Rank' \in {0, 1}
      BY <2>2 DEF Rank
    <2> QED  BY <2>1, <2>3
  <1> QED  BY <1>2, <1>3, <1>4, <1>5, <1>6

\* Every node, call to the LLM and SQL of a turn brings it nearer its end, whatever the judge says,
\* whatever fails or dies: no turn takes more than eighteen steps.
THEOREM TurnsShrink == Spec => TurnShrinks /\ [](Rank \in 0..18)
  <1>1. TInv /\ [Next]_vars => [node # "idle" => Rank' < Rank \/ UNCHANGED <<turn, draft>>]_vars
    <2> SUFFICES ASSUME TInv, Next, node # "idle"
                 PROVE  Rank' < Rank \/ UNCHANGED <<turn, draft>>
      OBVIOUS
    <2>1. CASE Outside \/ UNCHANGED vars
      BY <2>1, OutsideIs DEF vars, turn, thread
    <2>2. CASE Arrive
      BY <2>2 DEF Arrive
    <2> QED  BY <2>1, <2>2, Steps, QueryShrinks, ConfirmShrinks, OthersShrink, SupervisorConstantsOK
             DEF ConfirmStep
  <1>2. TInv => Rank \in 0..18
    BY RankBounds DEF TInv
  <1> QED  BY <1>1, <1>2, TypesHold, PTL DEF Spec, TurnShrinks

=============================================================================
