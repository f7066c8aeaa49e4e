------------------------------ MODULE Pregraph ------------------------------
(***************************************************************************)
(* The pregraph pipeline around the graph, for one conversation thread:    *)
(* dedup, identity, takeover gate, rate limit, graph, dispatch, and the    *)
(* post-turn task that escalates to a human, which the turn does not wait  *)
(* for.  The graph is what it returns: an outcome, or an exception.        *)
(*                                                                         *)
(* External: the webhook's sender, Redis (each command is atomic), Guacuco *)
(* (the support mode of the conversation) and its staff.                   *)
(***************************************************************************)
EXTENDS Naturals

CONSTANTS
    Turns,          \* bound: turns and post-turn tasks at once
    Messages,       \* message ids
    FAILS_THRESHOLD,    \* TAKEOVER_FAILS_THRESHOLD
    RATE_MAX,           \* RATE_LIMIT_MAX_PER_MINUTE
    MaxEvents,      \* bound: redeliveries, reactivations
    MaxFaults       \* bound: failed calls, exceptions, crashes

NoMessage == "no message"

ASSUME ConstantsOK ==
    /\ FAILS_THRESHOLD \in Nat \ {0} /\ RATE_MAX \in Nat \ {0}
    /\ MaxEvents \in Nat /\ MaxFaults \in Nat
    /\ NoMessage \notin Messages

VARIABLES
    turns,      \* where each turn is, with what it holds
    seen,       \* Redis: dedup keys
    mirror,     \* Redis: takeover:active
    fails,      \* Redis: takeover:fails, with its TTL
    rate,       \* Redis: the rate limit counter of the minute, with its TTL
    support,    \* Guacuco: support_mode of the conversation
    replies,    \* history: the answers each message got
    promised,   \* history: a human was promised and not called yet
    errors,     \* history: error messages in a row the user got
    called,     \* history: Guacuco was ever asked for a human
    events, faults

redis   == <<seen, mirror, fails, rate>>
history == <<replies, promised, errors, called>>
bounds  == <<events, faults>>
vars    == <<turns, redis, support, history, bounds>>

Actions == {"response", "awaiting_user", "handed_off", "error", "ignored", "rate_limited",
            "welcome", "takeover"}
Foreground == {"dedup", "identity", "sync", "gate", "rate", "rate_expire", "graph",
               "dispatch", "catch"}
Background == {"trigger", "mirror", "reset", "bump", "bump_expire"}
TurnRecords == [at : {"idle"} \cup Foreground \cup Background, msg : Messages \cup {NoMessage},
                saw : {"absent", "active", "inactive"}, action : Actions, alone : BOOLEAN]
Counters == [count : Nat, ttl : BOOLEAN]

Idle    == [at |-> "idle", msg |-> NoMessage, saw |-> "absent",
            action |-> "ignored", alone |-> FALSE]
NoKey   == [count |-> 0, ttl |-> FALSE]

Init ==
    /\ turns = [t \in Turns |-> Idle]
    /\ seen = {} /\ mirror = FALSE /\ fails = NoKey /\ rate = NoKey
    /\ support = FALSE
    /\ replies = [m \in Messages |-> 0]
    /\ promised = FALSE /\ errors = 0 /\ called = FALSE
    /\ events = 0 /\ faults = 0

At(t, place) == turns[t].at = place
To(t, place) == turns' = [turns EXCEPT ![t].at = place]
Return(t)    == turns' = [turns EXCEPT ![t] = Idle]
With(t, place, action) == turns' = [turns EXCEPT ![t].at = place, ![t].action = action]

Fault == faults < MaxFaults /\ faults' = faults + 1 /\ UNCHANGED events

-----------------------------------------------------------------------------
(* The turn, up to the graph.                                              *)

\* The webhook hands over a message, new or redelivered, while others of the thread
\* may be in process.  (alone is history: no other turn ran beside this one so far.)
Receive(t) ==
    LET beside == \E u \in Turns : turns[u].at \in Foreground IN
    /\ At(t, "idle")
    /\ \E m \in Messages :
         /\ turns' = [u \in Turns |->
              IF u = t THEN [Idle EXCEPT !.at = "dedup", !.msg = m, !.alone = ~beside]
              ELSE [turns[u] EXCEPT !.alone = FALSE]]
         /\ IF m \in seen \/ \E u \in Turns : turns[u].msg = m
            THEN events < MaxEvents /\ events' = events + 1
            ELSE UNCHANGED events
    /\ UNCHANGED <<redis, support, history, faults>>

\* Mutant: the message id is registered on nothing.
IsDuplicateUnset(t) ==
    /\ At(t, "dedup")
    /\ IF turns[t].msg \in seen THEN Return(t) ELSE To(t, "identity")
    /\ UNCHANGED <<redis, support, history, bounds>>

\* SET NX.
IsDuplicate(t) ==
    /\ At(t, "dedup")
    /\ IF turns[t].msg \in seen THEN Return(t) ELSE To(t, "identity")
    /\ seen' = seen \cup {turns[t].msg}
    /\ UNCHANGED <<mirror, fails, rate, support, history, bounds>>

\* Mutant: the optional field is kept as it came.
ResolveIdentityRaw(t) ==
    /\ At(t, "identity")
    /\ \E saw \in {"undefined", IF support THEN "active" ELSE "inactive"} :
         turns' = [turns EXCEPT ![t].at = "sync", ![t].saw = saw]
    /\ UNCHANGED <<redis, support, history, bounds>>

\* resolveIdentity: an unknown client, an incomplete identity or the line of the
\* other role are skipped in silence, a new staff member is welcomed; the support
\* mode is in the answer, or is not (the field is optional).
ResolveIdentity(t) ==
    /\ At(t, "identity")
    /\ \/ Return(t)
       \/ With(t, "dispatch", "welcome")
       \/ \E saw \in {"absent", IF support THEN "active" ELSE "inactive"} :
            turns' = [turns EXCEPT ![t].at = "sync", ![t].saw = saw]
    /\ UNCHANGED <<redis, support, history, bounds>>

\* Mutant: the mirror lost by Redis is not set again.
SyncOnlyClears(t) ==
    /\ At(t, "sync")
    /\ mirror' = (mirror /\ turns[t].saw # "inactive")
    /\ To(t, "gate")
    /\ UNCHANGED <<seen, fails, rate, support, history, bounds>>

SyncTakeoverMirror(t) ==
    /\ At(t, "sync")
    /\ mirror' = CASE turns[t].saw = "active"   -> TRUE
                   [] turns[t].saw = "inactive" -> FALSE
                   [] OTHER                     -> mirror
    /\ To(t, "gate")
    /\ UNCHANGED <<seen, fails, rate, support, history, bounds>>

\* isHumanControlled: the bot is mute.
TakeoverGate(t) ==
    /\ At(t, "gate")
    /\ IF mirror THEN Return(t) ELSE To(t, "rate")
    /\ UNCHANGED <<redis, support, history, bounds>>

\* checkLimit: INCR, then EXPIRE of a new key.  (Counted to one over the limit.)
CheckLimit(t) ==
    /\ At(t, "rate")
    /\ rate' = IF rate.count > RATE_MAX THEN rate ELSE [rate EXCEPT !.count = @ + 1]
    /\ IF rate.count = 0 THEN To(t, "rate_expire")
       ELSE IF rate.count + 1 <= RATE_MAX THEN To(t, "graph")
       ELSE With(t, "dispatch", "rate_limited")
    /\ UNCHANGED <<seen, mirror, fails, support, history, bounds>>

CheckLimitExpire(t) ==
    /\ At(t, "rate_expire")
    /\ rate' = [rate EXCEPT !.ttl = rate.count > 0]
    /\ To(t, "graph")
    /\ UNCHANGED <<seen, mirror, fails, support, history, bounds>>

\* graph.invoke, outcomeFromResult: "takeover" is an answer that also asks for a
\* human (explicit request, frustration).
GraphInvoke(t) ==
    /\ At(t, "graph")
    /\ \E action \in Actions \ {"rate_limited", "welcome"} : With(t, "dispatch", action)
    /\ UNCHANGED <<redis, support, history, bounds>>

-----------------------------------------------------------------------------
(* The answer and the post-turn task.                                      *)

\* Mutant: an abandoned flow is a failure like any other.
PostTurnCounted(action) ==
    CASE action = "takeover"                      -> "trigger"
      [] action \in {"error", "handed_off"}       -> "bump"
      [] action \in {"response", "awaiting_user"} -> "reset"
      [] OTHER                                    -> "idle"

\* Where handleTakeoverAfterTurn starts.
PostTurn(action) ==
    CASE action \in {"takeover", "handed_off"}    -> "trigger"
      [] action = "error"                         -> "bump"
      [] action \in {"response", "awaiting_user"} -> "reset"
      [] OTHER                                    -> "idle"

\* The user gets the answer, n copies of it; nothing is sent for "ignored".
Shown(t, action, n) ==
    /\ replies' = IF action = "ignored" THEN replies
                  ELSE [replies EXCEPT ![turns[t].msg] = @ + n]
    /\ promised' = (promised \/ action \in {"handed_off", "takeover"})
    /\ errors' = CASE action = "error"                        -> errors + 1
                   [] action \in {"ignored", "rate_limited"}  -> errors
                   [] OTHER                                   -> 0
    /\ UNCHANGED called

\* dispatch, and the turn goes on as its post-turn task.  A send whose answer was
\* lost is sent again.
Dispatch(t) ==
    LET action == turns[t].action
        next   == PostTurn(action)
    IN
    /\ At(t, "dispatch")
    /\ \/ Shown(t, action, 1) /\ UNCHANGED bounds
       \/ action # "ignored" /\ Shown(t, action, 2) /\ Fault
    /\ IF next = "idle" THEN Return(t)
       ELSE turns' = [turns EXCEPT ![t] = [Idle EXCEPT !.at = next]]
    /\ UNCHANGED <<redis, support>>

\* The channel refused the message, or took it and did not say so.
DispatchFails(t) ==
    /\ At(t, "dispatch")
    /\ turns[t].action # "ignored"
    /\ Fault
    /\ To(t, "catch")
    /\ \/ Shown(t, turns[t].action, 1)
       \/ UNCHANGED history
    /\ UNCHANGED <<redis, support>>

\* runWithGlobalCatch: the technical problem is told, if the channel takes it; the
\* post-turn task is not run.
GlobalCatch(t) ==
    /\ At(t, "catch")
    /\ \/ Shown(t, "error", 1) /\ UNCHANGED bounds
       \/ Fault /\ UNCHANGED history
    /\ Return(t)
    /\ UNCHANGED <<redis, support>>

\* Guacuco, Redis, the checkpointer or the graph throws before the answer.
Throws(t) ==
    /\ turns[t].at \in Foreground \ {"dispatch", "catch"}
    /\ Fault
    /\ To(t, "catch")
    /\ UNCHANGED <<redis, support, history>>

\* Mutant: the mirror is set before Guacuco answers.
TriggerMirrorFirst(t) ==
    /\ At(t, "trigger")
    /\ mirror' = TRUE
    /\ \/ /\ To(t, "mirror") /\ UNCHANGED bounds
          /\ support' = TRUE /\ called' = TRUE /\ promised' = FALSE
       \/ /\ To(t, "reset") /\ Fault /\ UNCHANGED <<support, called, promised>>
    /\ UNCHANGED <<seen, fails, rate, replies, errors>>

\* TakeoverNotifier.trigger, the PATCH: answered, lost, or applied unanswered.
Trigger(t) ==
    /\ At(t, "trigger")
    /\ \/ /\ To(t, "mirror") /\ UNCHANGED bounds
          /\ support' = TRUE /\ called' = TRUE /\ promised' = FALSE
       \/ /\ To(t, "reset") /\ Fault
          /\ support' = TRUE /\ called' = TRUE /\ promised' = FALSE
       \/ /\ To(t, "reset") /\ Fault /\ UNCHANGED <<support, called, promised>>
    /\ UNCHANGED <<redis, replies, errors>>

MirrorActive(t) ==
    /\ At(t, "mirror")
    /\ To(t, "reset")
    /\ \/ mirror' = TRUE /\ UNCHANGED bounds
       \/ Fault /\ UNCHANGED mirror
    /\ UNCHANGED <<seen, fails, rate, support, history>>

\* resetFailures: DEL.
ResetFailures(t) ==
    /\ At(t, "reset")
    /\ fails' = NoKey
    /\ Return(t)
    /\ UNCHANGED <<seen, mirror, rate, support, history, bounds>>

\* Mutant: EXPIRE only when the threshold is far.
BumpFailuresForever(t) ==
    /\ At(t, "bump")
    /\ fails' = [fails EXCEPT !.count = @ + 1]
    /\ IF fails.count + 1 >= FAILS_THRESHOLD THEN To(t, "trigger") ELSE Return(t)
    /\ UNCHANGED <<seen, mirror, rate, support, history, bounds>>

\* Mutant: the threshold is passed instead of reached.
BumpFailuresLate(t) ==
    /\ At(t, "bump")
    /\ fails' = [fails EXCEPT !.count = @ + 1]
    /\ IF fails.count = 0 THEN To(t, "bump_expire")
       ELSE IF fails.count >= FAILS_THRESHOLD THEN To(t, "trigger")
       ELSE Return(t)
    /\ UNCHANGED <<seen, mirror, rate, support, history, bounds>>

\* bumpFailures: INCR, then EXPIRE of a new key, then the threshold.
BumpFailures(t) ==
    /\ At(t, "bump")
    /\ fails' = [fails EXCEPT !.count = @ + 1]
    /\ IF fails.count = 0 THEN To(t, "bump_expire")
       ELSE IF fails.count + 1 >= FAILS_THRESHOLD THEN To(t, "trigger")
       ELSE Return(t)
    /\ UNCHANGED <<seen, mirror, rate, support, history, bounds>>

BumpFailuresExpire(t) ==
    /\ At(t, "bump_expire")
    /\ fails' = [fails EXCEPT !.ttl = fails.count > 0]
    /\ IF FAILS_THRESHOLD = 1 THEN To(t, "trigger") ELSE Return(t)
    /\ UNCHANGED <<seen, mirror, rate, support, history, bounds>>

\* Redis fails in the post-turn task: swallowAsync ends it.
SwallowAsync(t) ==
    /\ turns[t].at \in {"reset", "bump", "bump_expire"}
    /\ Fault
    /\ Return(t)
    /\ UNCHANGED <<redis, support, history>>

-----------------------------------------------------------------------------
(* The environment.                                                        *)

\* The staff gives the conversation back to the bot in the dashboard.
Reactivate ==
    /\ support
    /\ events < MaxEvents /\ events' = events + 1
    /\ support' = FALSE
    /\ UNCHANGED <<turns, redis, history, faults>>

\* Hours after it was last set; a gate reads it at once after the sync.
MirrorExpires ==
    /\ mirror /\ \A t \in Turns : ~At(t, "gate")
    /\ mirror' = FALSE
    /\ UNCHANGED <<turns, seen, fails, rate, support, history, bounds>>

RateExpires ==
    /\ rate.ttl
    /\ rate' = NoKey
    /\ UNCHANGED <<turns, seen, mirror, fails, support, history, bounds>>

FailsExpire ==
    /\ fails.ttl
    /\ fails' = NoKey
    /\ UNCHANGED <<turns, seen, mirror, rate, support, history, bounds>>

\* The process restarts: every turn and task is gone, Redis stays.
Restart ==
    /\ \E t \in Turns : ~At(t, "idle")
    /\ Fault
    /\ turns' = [t \in Turns |-> Idle]
    /\ UNCHANGED <<redis, support, history>>

-----------------------------------------------------------------------------
TurnStep(t) ==
    \/ IsDuplicate(t) \/ ResolveIdentity(t) \/ SyncTakeoverMirror(t) \/ TakeoverGate(t)
    \/ CheckLimit(t) \/ CheckLimitExpire(t) \/ GraphInvoke(t) \/ Dispatch(t) \/ GlobalCatch(t)
    \/ Trigger(t) \/ MirrorActive(t) \/ ResetFailures(t) \/ BumpFailures(t)
    \/ BumpFailuresExpire(t)

Next ==
    \/ \E t \in Turns : Receive(t) \/ TurnStep(t) \/ DispatchFails(t) \/ Throws(t)
                        \/ SwallowAsync(t)
    \/ Reactivate \/ MirrorExpires \/ RateExpires \/ FailsExpire \/ Restart

Spec == Init /\ [][Next]_vars

\* The event loop carries on every turn and every post-turn task.
FairSpec == Spec /\ \A t \in Turns : WF_vars(TurnStep(t))

-----------------------------------------------------------------------------
(* Properties.                                                             *)

\* Every variable keeps its type.
TypeOK ==
    /\ turns \in [Turns -> TurnRecords]
    /\ seen \subseteq Messages
    /\ mirror \in BOOLEAN /\ support \in BOOLEAN
    /\ fails \in Counters /\ rate \in Counters
    /\ replies \in [Messages -> Nat]
    /\ promised \in BOOLEAN /\ called \in BOOLEAN /\ errors \in Nat
    /\ events \in 0..MaxEvents /\ faults \in 0..MaxFaults

\* Dedup: a message is answered once, redelivered and processed twice at once or not;
\* each failed send may add a copy of the answer or the apology of the global catch.
AnsweredOnce == \A m \in Messages : replies[m] <= 1 + faults

\* The takeover gate: when the identity says a human has the conversation, the turn goes
\* no further, whatever the tasks of earlier turns do to the mirror meanwhile and even if
\* Redis lost it, as long as no other turn of the thread runs beside it.
Passing(t) == turns[t].at \in {"rate", "rate_expire", "graph", "dispatch"}
SilentUnderTakeover ==
    \A t \in Turns : Passing(t) /\ turns[t].alone => turns[t].saw # "active"

\* What pipeline.ts:250 says of every turn: if a human took the conversation, the bot is
\* mute.  (Another turn, older, may clear the mirror between this one's sync and gate.)
BotIsMute == \A t \in Turns : Passing(t) => turns[t].saw # "active"

\* TakeoverNotifier: the bot is never silenced for a conversation that Guacuco was not
\* told about ("bot sigue atendiendo" when the call fails).
MuteNeedsCall == mirror => called

\* Redis keys have a TTL (REGLAS, prohibited: keys without TTL): a counter without it is
\* about to get it, unless a call failed or the process died between INCR and EXPIRE.
CountersExpire ==
    faults = 0 =>
        /\ rate.count > 0 /\ ~rate.ttl => \E t \in Turns : At(t, "rate_expire")
        /\ fails.count > 0 /\ ~fails.ttl => \E t \in Turns : At(t, "bump_expire")

\* handleTakeoverAfterTurn: whoever was promised a human gets one, if the call does not
\* fail and the process does not die.
PromiseKept == promised ~> ~promised \/ faults > 0

\* Layer B: after FAILS_THRESHOLD error messages in a row, once their tasks are done, a
\* human was called (the count starts again with each call).
ErrorsEscalate ==
    (\A t \in Turns : At(t, "idle")) => errors < FAILS_THRESHOLD \/ called

\* The promise between the answer and the call (PromiseKept without its "eventually"): the
\* one promised a human is the concern of a task that is about to call, unless a call failed
\* or the process died.
PromiseIsCarried == promised => faults > 0 \/ \E t \in Turns : At(t, "trigger")

\* bumpFailures: the counter does not stay at the threshold by itself.  The turn that
\* brought it there, or a later one, is on its way through the call to the reset.
ThresholdIsCarried ==
    faults = 0 /\ fails.count >= FAILS_THRESHOLD =>
        \E t \in Turns : turns[t].at \in {"bump_expire", "trigger", "mirror", "reset"}

\* The steps a turn and its post-turn task have left, at most.
Left(t) ==
    CASE At(t, "dedup")       -> 13 [] At(t, "identity") -> 12 [] At(t, "sync")    -> 11
      [] At(t, "gate")        -> 10 [] At(t, "rate")     -> 9  [] At(t, "graph")   -> 7
      [] At(t, "rate_expire") -> 8  [] At(t, "dispatch") -> 6
      [] turns[t].at \in {"catch", "bump"} -> 5
      [] At(t, "bump_expire") -> 4  [] At(t, "trigger")  -> 3  [] At(t, "mirror")  -> 2
      [] At(t, "reset")       -> 1  [] OTHER             -> 0

\* No turn goes round: each of its steps brings it nearer its end, and nothing else (the
\* other turns, the faults, the environment) takes it back.
TurnShrinks ==
    [][\A t \in Turns : /\ TurnStep(t) => Left(t)' < Left(t)
                        /\ ~At(t, "idle") => Left(t)' <= Left(t)]_vars

=============================================================================
