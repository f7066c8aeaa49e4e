------------------------------- MODULE Query -------------------------------
(***************************************************************************)
(* The query subgraph: classify the question, fetch what answers it, put  *)
(* it in words.  One turn, no interrupt: three nodes, checkpointed one by  *)
(* one, and inside the last two a chain of calls to the LLM and to Guacuco *)
(* whose locals (work) die with the turn.  A SQL text is what              *)
(* sqlValidator's layers read in it; rows are known by the SQL that        *)
(* brought them; a reply by where its text comes from.  LLM calls never    *)
(* throw: a failed one is an empty answer.                                 *)
(***************************************************************************)
EXTENDS Naturals, Sequences, FiniteSets

CONSTANTS
    Sqls,           \* the SQL texts the LLM may write
    Identities,     \* [profileType, roleId] of the users
    judge           \* QUERY_JUDGE_ENABLED

Schemas == {"front_sche_client", "front_sche", "front_sche_professional", "front_sche_admin"}
NoSql == [id |-> "none"]
None  == "none"

ASSUME JudgeOK == judge \in BOOLEAN

ASSUME SqlsOK ==
    \A s \in Sqls :
        /\ s.reads \subseteq Schemas \cup {"public"}
        /\ {s.select, s.forbidden, s.bare, s.dangerous} \subseteq BOOLEAN
        /\ s # NoSql

VARIABLES
    node,           \* the node the turn is at, "idle" between turns
    identity,
    draft,          \* subgraphState, as checkpointed: here, when its kind is "query"
    work,           \* the locals of the node that runs
    messages,       \* the last turns: "plain", or with a figure in a reply of them
    executed        \* history: the first SQL sent to Guacuco in this turn

queryVars == <<node, identity, draft, work, messages, executed>>

-----------------------------------------------------------------------------
\* "lookup": service_prices, service_list, my_upcoming; "platform_onboarding": platform_commercial too.
Intents == {"lookup", "staff_schedule_day", "freeform_sql", "platform_onboarding",
            "cannot_answer"}
STAFF_ONLY_INTENTS == {"staff_schedule_day", "platform_onboarding"}

Reply(a, t) == [action |-> a, text |-> t]
NoReply == Reply(None, None)

\* rawResult: an error of the freeform pipeline, rows and the SQL that brought them, or
\* other data.
Raw(kind, sql) == [kind |-> kind, of |-> sql]
NoRaw == Raw(None, NoSql)
FreeformErrors == {"cannot_answer", "empty_sql", "unsafe_sql", "execute_failed",
                   "schema_unavailable", "role_unavailable"}

initialQueryDraftState ==
    [kind |-> "query", phase |-> "classifying", intent |-> None, raw |-> NoRaw,
     generatedSql |-> NoSql, terminalOutcome |-> NoReply]

QueryTexts == {None, "forbidden", "fetch_error", "escalated", "fixed", "details", "declined",
               "unjudged", "approved"}

QueryDrafts ==
    [kind : {"query"}, phase : {"classifying", "fetching", "synthesizing", "done", "failed"},
     intent : Intents \cup {None},
     raw : [kind : FreeformErrors \cup {None, "data", "rows", "no_rows"}, of : Sqls \cup {NoSql}],
     generatedSql : Sqls \cup {NoSql},
     terminalOutcome : [action : {None, "response", "error", "handed_off"}, text : QueryTexts]]

\* Where the running node is, and its locals: the SQL written last, and the SQL whose
\* rows are held.
Locals == [at : {"start", "generate", "execute", "judge", "judge_text", "retry_text",
                 "judge_retry"},
           why : {None, "first", "drilldown", "error", "critique"},
           sql : Sqls \cup {NoSql}, held : Sqls \cup {NoSql}]
Idle == [at |-> "start", why |-> None, sql |-> NoSql, held |-> NoSql]

IsActiveDraft(d) == d.phase # "failed" /\ d.terminalOutcome = NoReply

At(n, w) == node = n /\ draft.kind = "query" /\ work.at = w

\* The node goes on inside.
Inside(w) == work' = w /\ UNCHANGED <<node, draft>>

\* The node returned draft d and the edge leads to node n.
Leave(d, n) == draft' = d /\ node' = n /\ work' = Idle

-----------------------------------------------------------------------------
(* query_classify.                                                         *)

\* normalize: what the LLM may make of the question; no role of a client reaches the
\* staff's intents.
Classified ==
    IF identity.profileType = "staff" THEN Intents ELSE Intents \ STAFF_ONLY_INTENTS

RouteAfterQueryClassify(d) ==
    CASE ~IsActiveDraft(d)                             -> "subgraph_finalize"
      [] IsActiveDraft(d) /\ d.phase = "fetching"      -> "query_fetch"
      [] IsActiveDraft(d) /\ d.phase = "synthesizing"  -> "query_synthesize"

\* A question is never blank here: classify_intent answered it before.
QueryClassify ==
    /\ At("query_classify", "start")
    /\ \E i \in Classified :
         LET d == [draft EXCEPT !.intent = i,
                                !.phase = IF i = "cannot_answer" THEN "synthesizing" ELSE "fetching"]
         IN Leave(d, RouteAfterQueryClassify(d))
    /\ UNCHANGED <<identity, messages, executed>>

-----------------------------------------------------------------------------
(* query_fetch.                                                            *)

RouteAfterQueryFetch(d) ==
    IF IsActiveDraft(d) /\ d.phase = "synthesizing" THEN "query_synthesize"
    ELSE "subgraph_finalize"

Fetched(d) == Leave(d, RouteAfterQueryFetch(d))

WithRaw(d, raw) == [d EXCEPT !.raw = raw, !.phase = "synthesizing"]
FailedQuery(d, o) == [d EXCEPT !.phase = "failed", !.terminalOutcome = o]

\* The catalog, the appointments, the staff's agenda from Guacuco, the platform's pages: what
\* each intent may bring, if not a failed call or no page at all.
FetchedFor(d) ==
    LET found == WithRaw(d, Raw("data", NoSql)) IN
    CASE d.intent \in STAFF_ONLY_INTENTS /\ identity.profileType # "staff" ->
           {FailedQuery(d, Reply("response", "forbidden"))}
      [] d.intent = "staff_schedule_day" /\ identity.profileType = "staff" ->
           {found, FailedQuery(d, Reply("error", "fetch_error"))}
      [] d.intent = "platform_onboarding" /\ identity.profileType = "staff" ->
           {found, FailedQuery(d, Reply("handed_off", "escalated"))}
      [] OTHER -> {found}

QueryFetch ==
    /\ At("query_fetch", "start")
    /\ draft.intent # "freeform_sql"
    /\ \E d \in FetchedFor(draft) : Fetched(d)
    /\ UNCHANGED <<identity, messages, executed>>

-----------------------------------------------------------------------------
(* runFreeformSql.                                                         *)

resolveAllowedSchema ==
    CASE identity.profileType = "client" -> "front_sche_client"
      [] identity.profileType = "staff" /\ identity.roleId = None -> None
      [] identity.profileType = "staff" /\ identity.roleId = "professional" ->
           "front_sche_professional"
      [] identity.profileType = "staff" /\ identity.roleId = "admin" -> "front_sche_admin"
      [] OTHER -> "front_sche"

\* Its layers: a SELECT, no second statement or forbidden word, only the role's schema, no
\* bare table, no dangerous function.
validateSql(s, schema) ==
    s.select /\ ~s.forbidden /\ s.reads \subseteq {schema} /\ ~s.bare /\ ~s.dangerous

\* Whether the schema's text is had: from the cache, or from Guacuco table by table.
loadSchemaText == BOOLEAN

FreeformSchema ==
    /\ At("query_fetch", "start")
    /\ draft.intent = "freeform_sql"
    /\ IF resolveAllowedSchema = None THEN Fetched(WithRaw(draft, Raw("role_unavailable", NoSql)))
       ELSE \E loaded \in loadSchemaText :
              IF loaded THEN Inside([Idle EXCEPT !.at = "generate", !.why = "first"])
              ELSE Fetched(WithRaw(draft, Raw("schema_unavailable", NoSql)))
    /\ UNCHANGED <<identity, messages, executed>>

\* historyLooksLikeDrilldown.
LooksLikeDrilldown == messages = "figures"

\* The pipeline ends with error e, the SQL it had written kept in the draft.
FreeformError(e, s) ==
    Fetched([WithRaw(draft, Raw(e, NoSql)) EXCEPT !.generatedSql = s])

\* The pipeline ends with rows, some or none, truncated to what the prompt holds.
FreeformRows(w) ==
    \E kind \in {"rows", "no_rows"} :
        Fetched([WithRaw(draft, Raw(kind, w.held)) EXCEPT !.generatedSql = w.sql])

\* generateSql declines, or says yes without a SQL.
NotGenerated ==
    /\ At("query_fetch", "generate")
    /\ CASE work.why = "first" /\ LooksLikeDrilldown ->
              Inside([work EXCEPT !.why = "drilldown"]) \/ FreeformError("empty_sql", NoSql)
         [] work.why \in {"first", "drilldown"} /\ ~(work.why = "first" /\ LooksLikeDrilldown) ->
              \E e \in {"cannot_answer", "empty_sql"} : FreeformError(e, NoSql)
         [] work.why = "error" -> FreeformError("execute_failed", work.sql)
         [] work.why = "critique" -> FreeformRows(work)
    /\ UNCHANGED <<identity, messages, executed>>

\* executeQuery leaves; the history holds the first four.
Sent(s) == executed' = IF Len(executed) < 4 THEN Append(executed, s) ELSE executed

\* Mutant: the SQL written after the judge's critique is not validated again.
GeneratedTrusting ==
    /\ At("query_fetch", "generate")
    /\ \E s \in Sqls :
         CASE validateSql(s, resolveAllowedSchema) \/ work.why = "critique" ->
                Inside([work EXCEPT !.at = "execute", !.sql = s])
           [] OTHER -> FreeformError("unsafe_sql", s)
    /\ UNCHANGED <<identity, messages, executed>>

\* generateSql, validateSql: a SQL that passes is executed, one that does not ends the
\* pipeline or, after a critique, is dropped.
Generated ==
    /\ At("query_fetch", "generate")
    /\ \E s \in Sqls :
         CASE validateSql(s, resolveAllowedSchema) ->
                Inside([work EXCEPT !.at = "execute", !.sql = s])
           [] ~validateSql(s, resolveAllowedSchema) /\ work.why # "critique" ->
                FreeformError("unsafe_sql", s)
           [] OTHER -> FreeformRows([work EXCEPT !.sql = work.held])
    /\ UNCHANGED <<identity, messages, executed>>

\* executeQuery brings rows: they go to the judge, once.
Executed ==
    /\ At("query_fetch", "execute")
    /\ Sent(work.sql)
    /\ LET w == [work EXCEPT !.held = work.sql] IN
         IF judge /\ work.why # "critique" THEN Inside([w EXCEPT !.at = "judge"])
         ELSE FreeformRows(w)
    /\ UNCHANGED <<identity, messages>>

\* executeQuery throws: the first time, the LLM corrects its SQL; after a critique, the rows
\* already held do.
ExecuteFailed ==
    /\ At("query_fetch", "execute")
    /\ Sent(work.sql)
    /\ CASE work.why \in {"first", "drilldown"} ->
              Inside([work EXCEPT !.at = "generate", !.why = "error"])
         [] work.why = "error"    -> FreeformError("execute_failed", work.sql)
         [] work.why = "critique" -> FreeformRows([work EXCEPT !.sql = work.held])
    /\ UNCHANGED <<identity, messages>>

\* QueryJudge.validateSql, whose own failure counts as either, by QUERY_JUDGE_FAIL_MODE.
SqlJudged ==
    /\ At("query_fetch", "judge")
    /\ \/ FreeformRows(work)
       \/ Inside([work EXCEPT !.at = "generate", !.why = "critique"])
    /\ UNCHANGED <<identity, messages, executed>>

-----------------------------------------------------------------------------
(* query_synthesize.                                                       *)

Synthesized(text) ==
    Leave([draft EXCEPT !.phase = "done", !.terminalOutcome = Reply("response", text)],
          "subgraph_finalize")

\* deterministicFallback: formatRowsAsDetails of the rows, or a fixed text.
Fallback(d) ==
    IF d.intent = "freeform_sql" /\ d.raw.kind \in {"rows", "no_rows"} THEN "details" ELSE "fixed"

\* Only rows executed for a question of free form are judged.
NeedsJudge(d) == judge /\ d.intent = "freeform_sql" /\ d.raw.kind = "rows"

\* What the LLM wrote: from the data, or, of a question it cannot answer, from none.
Written(d) == IF d.intent = "cannot_answer" THEN "declined" ELSE "unjudged"

Synthesize ==
    /\ At("query_synthesize", "start")
    /\ IF draft.intent = "freeform_sql" /\ draft.raw.kind \in FreeformErrors
       THEN Synthesized("fixed")
       ELSE \/ Synthesized(Fallback(draft))
            \/ IF NeedsJudge(draft) THEN Inside([work EXCEPT !.at = "judge_text"])
               ELSE Synthesized(Written(draft))
    /\ UNCHANGED <<identity, messages, executed>>

\* QueryJudge.validateSynthesis.
TextJudged ==
    /\ At("query_synthesize", "judge_text")
    /\ Synthesized("approved") \/ Inside([work EXCEPT !.at = "retry_text"])
    /\ UNCHANGED <<identity, messages, executed>>

\* Mutant: the text written after the critique goes out unjudged, as the SQL does.
TextRetriedTrusting ==
    /\ At("query_synthesize", "retry_text")
    /\ Synthesized(Fallback(draft)) \/ Synthesized("unjudged")
    /\ UNCHANGED <<identity, messages, executed>>

TextRetried ==
    /\ At("query_synthesize", "retry_text")
    /\ Synthesized(Fallback(draft)) \/ Inside([work EXCEPT !.at = "judge_retry"])
    /\ UNCHANGED <<identity, messages, executed>>

RetryJudged ==
    /\ At("query_synthesize", "judge_retry")
    /\ Synthesized("approved") \/ Synthesized(Fallback(draft))
    /\ UNCHANGED <<identity, messages, executed>>

-----------------------------------------------------------------------------
QueryStep ==
    \/ QueryClassify \/ QueryFetch
    \/ FreeformSchema \/ NotGenerated \/ Generated \/ Executed \/ ExecuteFailed \/ SqlJudged
    \/ Synthesize \/ TextJudged \/ TextRetried \/ RetryJudged

-----------------------------------------------------------------------------
(* Properties.                                                             *)

QueryTypeOK ==
    /\ draft.kind = "query" => draft \in QueryDrafts
    /\ work \in Locals
    /\ messages \in {"plain", "figures"}

\* runFreeformSql, regenerateAndExecuteWithCritique: whichever of the three roads a SQL comes
\* by (the first, the correction of an error, the answer to a critique), Guacuco gets it only
\* validated against the schema of the user's role, and never more than three.
ExecutedWasValidated ==
    /\ Len(executed) <= 3
    /\ \A i \in DOMAIN executed : validateSql(executed[i], resolveAllowedSchema)

\* synthesizeResponse: with the judge on, a text about rows goes out only approved, the
\* second one too; else the rows themselves do.  Rows may be left in the draft by a turn that
\* died; no text is made of them.
OnlyApprovedTold ==
    draft.kind = "query" /\ draft.terminalOutcome.text = "unjudged" =>
        ~(judge /\ draft.raw.kind = "rows")

=============================================================================
