--------------------------- MODULE PregraphProofs ---------------------------
(***************************************************************************)
(* Theorems about Pregraph, for any number of turns at once, any messages  *)
(* and limits, and any number of faults: types, the single answer, the     *)
(* silence under a takeover, the TTL of the counters.                      *)
(***************************************************************************)
EXTENDS Pregraph, FiniteSetTheorems, TLAPS

Places == {"idle"} \cup Foreground \cup Background

-----------------------------------------------------------------------------
(* What a step does to the turn that takes it.                             *)

\* Turn t alone changes: it is at place p, with what r holds.
Becomes(t, r) ==
    /\ turns' \in [Turns -> TurnRecords] /\ turns'[t] = r
    /\ \A u \in Turns \ {t} : turns'[u] = turns[u]

LEMMA IdleType == Idle \in TurnRecords /\ Idle.at = "idle" /\ Idle.saw = "absent"
                  /\ Idle.msg = NoMessage
  BY DEF Idle, TurnRecords, Actions

LEMMA ToIs ==
    ASSUME TypeOK, NEW t \in Turns, NEW p \in Places, To(t, p)
    PROVE  /\ Becomes(t, turns'[t])
           /\ turns'[t].at = p /\ turns'[t].msg = turns[t].msg /\ turns'[t].saw = turns[t].saw
           /\ turns'[t].alone = turns[t].alone
  BY DEF TypeOK, To, Becomes, TurnRecords, Places

LEMMA WithIs ==
    ASSUME TypeOK, NEW t \in Turns, NEW p \in Places, NEW a \in Actions, With(t, p, a)
    PROVE  /\ Becomes(t, turns'[t])
           /\ turns'[t].at = p /\ turns'[t].msg = turns[t].msg /\ turns'[t].saw = turns[t].saw
           /\ turns'[t].alone = turns[t].alone
  BY DEF TypeOK, With, Becomes, TurnRecords, Places

LEMMA ReturnIs ==
    ASSUME TypeOK, NEW t \in Turns, Return(t)
    PROVE  Becomes(t, Idle)
  BY IdleType DEF TypeOK, Return, Becomes

\* The turn ends and its post-turn task starts.
LEMMA SpawnIs ==
    ASSUME TypeOK, NEW t \in Turns, NEW p \in Background,
           turns' = [turns EXCEPT ![t] = [Idle EXCEPT !.at = p]]
    PROVE  /\ Becomes(t, turns'[t])
           /\ turns'[t].at = p /\ turns'[t].saw = "absent" /\ turns'[t].msg = NoMessage
  <1>1. [Idle EXCEPT !.at = p] \in TurnRecords
    BY IdleType DEF TurnRecords
  <1>2. /\ [Idle EXCEPT !.at = p].at = p /\ [Idle EXCEPT !.at = p].saw = "absent"
        /\ [Idle EXCEPT !.at = p].msg = NoMessage
    BY IdleType DEF TurnRecords
  <1> QED  BY <1>1, <1>2 DEF TypeOK, Becomes

LEMMA ReceiveIs ==
    ASSUME TypeOK, NEW t \in Turns, Receive(t)
    PROVE  /\ turns' \in [Turns -> TurnRecords]
           /\ turns[t].at = "idle"
           /\ turns'[t].at = "dedup" /\ turns'[t].saw = "absent" /\ turns'[t].msg \in Messages
           /\ turns'[t].alone => \A u \in Turns : turns[u].at \notin Foreground
           /\ \A u \in Turns \ {t} :
                /\ turns'[u].at = turns[u].at /\ turns'[u].msg = turns[u].msg
                /\ turns'[u].saw = turns[u].saw /\ turns'[u].alone = FALSE
  <1> DEFINE beside == \E u \in Turns : turns[u].at \in Foreground
  <1>1. PICK m \in Messages :
          turns' = [u \in Turns |->
              IF u = t THEN [Idle EXCEPT !.at = "dedup", !.msg = m, !.alone = ~beside]
              ELSE [turns[u] EXCEPT !.alone = FALSE]]
    BY DEF Receive
  <1> HIDE DEF beside
  <1>2. ASSUME NEW b \in BOOLEAN
        PROVE  LET r == [Idle EXCEPT !.at = "dedup", !.msg = m, !.alone = b] IN
                 /\ r \in TurnRecords
                 /\ r.at = "dedup" /\ r.msg = m /\ r.saw = "absent" /\ r.alone = b
    BY IdleType DEF TurnRecords, Foreground
  <1>3. beside \in BOOLEAN
    BY DEF beside
  <1>4. \A u \in Turns : [turns[u] EXCEPT !.alone = FALSE] \in TurnRecords
    BY DEF TypeOK, TurnRecords
  <1>5. turns' \in [Turns -> TurnRecords]
    BY <1>1, <1>2, <1>3, <1>4
  <1>6. turns[t].at = "idle"
    BY DEF Receive, At
  <1>7. /\ turns'[t].at = "dedup" /\ turns'[t].saw = "absent" /\ turns'[t].msg \in Messages
        /\ turns'[t].alone = ~beside
    BY <1>1, <1>2, <1>3
  <1>8. \A u \in Turns \ {t} : turns'[u] = [turns[u] EXCEPT !.alone = FALSE]
    BY <1>1
  <1>9. \A u \in Turns \ {t} :
                /\ turns'[u].at = turns[u].at /\ turns'[u].msg = turns[u].msg
                /\ turns'[u].saw = turns[u].saw /\ turns'[u].alone = FALSE
    BY <1>8 DEF TypeOK, TurnRecords
  <1>10. ~beside => \A u \in Turns : turns[u].at \notin Foreground
    BY DEF beside
  <1> QED  BY <1>5, <1>6, <1>7, <1>9, <1>10

\* A turn goes on with its message, in the foreground only if it was there, or is over.
GoesOn(t) ==
    /\ Becomes(t, turns'[t])
    /\ turns'[t].msg = turns[t].msg /\ turns'[t].alone = turns[t].alone
    /\ turns'[t].at \in Foreground => turns[t].at \in Foreground
    /\ turns'[t].at # "dedup"
GoesOnSeeing(t) == GoesOn(t) /\ turns'[t].saw = turns[t].saw
Ends(t) == Becomes(t, Idle)

\* The steps of a turn but its arrival, its answer and its look at the support mode.
Steps(t) ==
    \/ IsDuplicate(t) \/ SyncTakeoverMirror(t) \/ TakeoverGate(t)
    \/ CheckLimit(t) \/ CheckLimitExpire(t) \/ GraphInvoke(t)
    \/ Trigger(t) \/ MirrorActive(t) \/ ResetFailures(t) \/ BumpFailures(t)
    \/ BumpFailuresExpire(t) \/ Throws(t) \/ SwallowAsync(t)

LEMMA StepsGoOn ==
    ASSUME TypeOK, NEW t \in Turns, Steps(t)
    PROVE  GoesOnSeeing(t) \/ Ends(t)
  <1>1. ASSUME NEW p \in Places \ {"dedup"}, To(t, p), p \in Foreground => turns[t].at \in Foreground
        PROVE  GoesOnSeeing(t)
    BY <1>1, ToIs DEF GoesOnSeeing, GoesOn
  <1>2. ASSUME NEW p \in Foreground \ {"dedup"}, NEW a \in Actions, With(t, p, a),
               turns[t].at \in Foreground
        PROVE  GoesOnSeeing(t)
    <2>1. p \in Places
      BY DEF Places
    <2> QED  BY <1>2, <2>1, WithIs DEF GoesOnSeeing, GoesOn
  <1>3. CASE Return(t)
    BY <1>3, ReturnIs DEF Ends
  <1>4. CASE \E p \in Background : To(t, p)
    BY <1>1, <1>4 DEF Places, Background, Foreground
  <1>5. CASE /\ turns[t].at \in Foreground
             /\ \E p \in Foreground \ {"dedup"} : To(t, p) \/ \E a \in Actions : With(t, p, a)
    BY <1>1, <1>2, <1>5 DEF Places
  <1>6. CASE IsDuplicate(t) \/ SyncTakeoverMirror(t) \/ TakeoverGate(t) \/ CheckLimit(t)
             \/ CheckLimitExpire(t) \/ GraphInvoke(t) \/ Throws(t)
    BY <1>3, <1>5, <1>6 DEF IsDuplicate, SyncTakeoverMirror, TakeoverGate, CheckLimit,
       CheckLimitExpire, GraphInvoke, Throws, Foreground, Actions, At
  <1>7. CASE Trigger(t) \/ MirrorActive(t) \/ ResetFailures(t) \/ BumpFailures(t)
             \/ BumpFailuresExpire(t) \/ SwallowAsync(t)
    BY <1>3, <1>4, <1>7 DEF Trigger, MirrorActive, ResetFailures, BumpFailures,
       BumpFailuresExpire, SwallowAsync, Background
  <1> QED  BY <1>6, <1>7 DEF Steps

\* The identity comes with the support mode, or without it.
LEMMA LooksGoesOn ==
    ASSUME TypeOK, NEW t \in Turns, ResolveIdentity(t)
    PROVE  \/ Ends(t)
           \/ GoesOnSeeing(t) /\ turns'[t].at = "dispatch"
           \/ GoesOn(t) /\ turns'[t].at = "sync" /\ (turns'[t].saw = "active" => support)
  <1>1. turns[t].at \in Foreground
    BY DEF ResolveIdentity, At, Foreground
  <1>2. CASE Return(t)
    BY <1>2, ReturnIs DEF Ends
  <1>3. CASE With(t, "dispatch", "welcome")
    BY <1>1, <1>3, WithIs DEF GoesOnSeeing, GoesOn, Places, Foreground, Actions
  <1>4. CASE \E saw \in {"absent", IF support THEN "active" ELSE "inactive"} :
               turns' = [turns EXCEPT ![t].at = "sync", ![t].saw = saw]
    <2>1. PICK saw \in {"absent", "active", "inactive"} :
            /\ turns' = [turns EXCEPT ![t].at = "sync", ![t].saw = saw]
            /\ saw = "active" => support
      BY <1>4
    <2>2. turns' = [turns EXCEPT ![t] = [turns[t] EXCEPT !.at = "sync", !.saw = saw]]
      BY <2>1
    <2>3. LET r == [turns[t] EXCEPT !.at = "sync", !.saw = saw] IN
            /\ r \in TurnRecords
            /\ r.at = "sync" /\ r.saw = saw /\ r.msg = turns[t].msg /\ r.alone = turns[t].alone
      BY DEF TypeOK, TurnRecords, Foreground
    <2> QED  BY <1>1, <2>1, <2>2, <2>3 DEF TypeOK, GoesOn, Becomes
  <1> QED  BY <1>2, <1>3, <1>4 DEF ResolveIdentity

\* The answer is out, or refused: the turn is over, or its post-turn task starts, or the
\* global catch.
LEMMA AnswersIs ==
    ASSUME TypeOK, NEW t \in Turns
    PROVE  /\ Dispatch(t) => \/ Ends(t)
                             \/ /\ Becomes(t, turns'[t]) /\ turns'[t].at \in Background \ {"mirror"}
                                /\ turns'[t].saw = "absent" /\ turns'[t].msg = NoMessage
           /\ DispatchFails(t) => GoesOnSeeing(t) /\ turns'[t].at = "catch"
           /\ GlobalCatch(t) => Ends(t)
  <1>1. CASE Dispatch(t)
    <2>1. Return(t) => Ends(t)
      BY ReturnIs DEF Ends
    <2>2. \A p \in Background \ {"mirror"} :
             turns' = [turns EXCEPT ![t] = [Idle EXCEPT !.at = p]] =>
               /\ Becomes(t, turns'[t]) /\ turns'[t].at = p
               /\ turns'[t].saw = "absent" /\ turns'[t].msg = NoMessage
      BY SpawnIs
    <2>3. PostTurn(turns[t].action) \in (Background \ {"mirror"}) \cup {"idle"}
      BY DEF PostTurn, Background
    <2>4. Ends(t) \/ (/\ Becomes(t, turns'[t]) /\ turns'[t].at \in Background \ {"mirror"}
                      /\ turns'[t].saw = "absent" /\ turns'[t].msg = NoMessage)
      BY <1>1, <2>1, <2>2, <2>3 DEF Dispatch
    <2>5. ~DispatchFails(t) /\ ~GlobalCatch(t)
      <3>1. DispatchFails(t) => turns'[t].at = "catch"
        BY ToIs DEF DispatchFails, Places, Foreground
      <3>2. turns'[t].at # "catch"
        BY <2>4, IdleType DEF Ends, Becomes, Background
      <3> QED  BY <1>1, <3>1, <3>2 DEF Dispatch, GlobalCatch, At
    <2> QED  BY <2>4, <2>5
  <1>2. DispatchFails(t) => GoesOnSeeing(t) /\ turns'[t].at = "catch"
    BY ToIs DEF DispatchFails, At, GoesOnSeeing, GoesOn, Places, Foreground
  <1>3. GlobalCatch(t) => Ends(t)
    BY ReturnIs DEF GlobalCatch, Ends
  <1> QED  BY <1>1, <1>2, <1>3

-----------------------------------------------------------------------------
(* Types.                                                                  *)

\* A turn has a message as long as it may be answered.
Types == TypeOK /\ \A t \in Turns : turns[t].at \in Foreground => turns[t].msg \in Messages

LEMMA NoKeyType == NoKey \in Counters /\ NoKey.count = 0 /\ NoKey.ttl = FALSE
  BY DEF NoKey, Counters

LEMMA InitTypes == Init => Types
  <1> SUFFICES ASSUME Init PROVE Types
    OBVIOUS
  <1>1. turns \in [Turns -> TurnRecords] /\ \A t \in Turns : turns[t].at \notin Foreground
    BY IdleType DEF Init, Foreground
  <1>2. events \in 0..MaxEvents /\ faults \in 0..MaxFaults
    BY ConstantsOK DEF ConstantsOK, Init
  <1>3. fails \in Counters /\ rate \in Counters
    BY NoKeyType DEF Init
  <1> QED  BY <1>1, <1>2, <1>3 DEF Init, Types, TypeOK

\* The turns of the next state, by what one of them did.
LEMMA TurnsTypes ==
    ASSUME Types, NEW t \in Turns, GoesOn(t) \/ Ends(t)
    PROVE  /\ turns' \in [Turns -> TurnRecords]
           /\ \A u \in Turns : turns'[u].at \in Foreground => turns'[u].msg \in Messages
  BY IdleType DEF Types, TypeOK, GoesOn, Ends, Becomes, Foreground

LEMMA EventType ==
    ASSUME TypeOK, (events < MaxEvents /\ events' = events + 1) \/ UNCHANGED events
    PROVE  events' \in 0..MaxEvents
  BY ConstantsOK DEF ConstantsOK, TypeOK

LEMMA BoundsType ==
    ASSUME TypeOK, Fault \/ UNCHANGED bounds
    PROVE  events' \in 0..MaxEvents /\ faults' \in 0..MaxFaults
  BY ConstantsOK DEF ConstantsOK, TypeOK, Fault, bounds

LEMMA ShownType ==
    ASSUME TypeOK, NEW t \in Turns, NEW a, NEW n \in Nat, Shown(t, a, n), turns[t].msg \in Messages
    PROVE  /\ replies' \in [Messages -> Nat] /\ promised' \in BOOLEAN /\ errors' \in Nat
           /\ called' \in BOOLEAN
  BY DEF TypeOK, Shown

LEMMA StepsTypes ==
    ASSUME Types, NEW t \in Turns, Steps(t) \/ ResolveIdentity(t)
    PROVE  Types'
  <1>1. GoesOn(t) \/ Ends(t)
    BY StepsGoOn, LooksGoesOn DEF Types, GoesOnSeeing
  <1>2. /\ turns' \in [Turns -> TurnRecords]
        /\ \A u \in Turns : turns'[u].at \in Foreground => turns'[u].msg \in Messages
    BY <1>1, TurnsTypes
  <1>3. events' \in 0..MaxEvents /\ faults' \in 0..MaxFaults
    BY BoundsType DEF Types, Steps, IsDuplicate, SyncTakeoverMirror, TakeoverGate, CheckLimit,
       CheckLimitExpire, GraphInvoke, Trigger, MirrorActive, ResetFailures, BumpFailures,
       BumpFailuresExpire, Throws, SwallowAsync, ResolveIdentity
  <1>4. seen' \subseteq Messages
    <2>1. CASE IsDuplicate(t)
      BY <2>1 DEF IsDuplicate, At, Types, TypeOK, Foreground
    <2> QED
      BY <2>1 DEF Types, TypeOK, Steps, SyncTakeoverMirror, TakeoverGate, CheckLimit,
       CheckLimitExpire, GraphInvoke, Trigger, MirrorActive, ResetFailures, BumpFailures,
       BumpFailuresExpire, Throws, SwallowAsync, ResolveIdentity, redis
  <1>5. fails' \in Counters /\ rate' \in Counters
    <2>1. fails \in Counters /\ rate \in Counters /\ NoKey \in Counters
      BY NoKeyType DEF Types, TypeOK
    <2>2. /\ \A c \in Counters : [c EXCEPT !.count = @ + 1] \in Counters
          /\ \A c \in Counters, b \in BOOLEAN : [c EXCEPT !.ttl = b] \in Counters
      BY DEF Counters
    <2>3. (rate.count > 0) \in BOOLEAN /\ (fails.count > 0) \in BOOLEAN
      OBVIOUS
    <2> QED
      BY <2>1, <2>2, <2>3 DEF Steps, IsDuplicate, SyncTakeoverMirror, TakeoverGate, CheckLimit,
       CheckLimitExpire, GraphInvoke, Trigger, MirrorActive, ResetFailures, BumpFailures,
       BumpFailuresExpire, Throws, SwallowAsync, ResolveIdentity, redis
  <1>6. mirror' \in BOOLEAN /\ support' \in BOOLEAN
    BY DEF Types, TypeOK, Steps, IsDuplicate, SyncTakeoverMirror, TakeoverGate, CheckLimit,
       CheckLimitExpire, GraphInvoke, Trigger, MirrorActive, ResetFailures, BumpFailures,
       BumpFailuresExpire, Throws, SwallowAsync, ResolveIdentity, redis
  <1>7. /\ replies' \in [Messages -> Nat]
        /\ promised' \in BOOLEAN /\ called' \in BOOLEAN /\ errors' \in Nat
    BY DEF Types, TypeOK, Steps, IsDuplicate, SyncTakeoverMirror, TakeoverGate, CheckLimit,
       CheckLimitExpire, GraphInvoke, Trigger, MirrorActive, ResetFailures, BumpFailures,
       BumpFailuresExpire, Throws, SwallowAsync, ResolveIdentity, history
  <1> QED  BY <1>2, <1>3, <1>4, <1>5, <1>6, <1>7 DEF Types, TypeOK

LEMMA AnswersTypes ==
    ASSUME Types, NEW t \in Turns, Dispatch(t) \/ DispatchFails(t) \/ GlobalCatch(t)
    PROVE  Types'
  <1>1. /\ turns' \in [Turns -> TurnRecords]
        /\ \A u \in Turns : turns'[u].at \in Foreground => turns'[u].msg \in Messages
    BY AnswersIs, TurnsTypes DEF Types, TypeOK, GoesOnSeeing, Becomes, Foreground, Background
  <1>2. turns[t].msg \in Messages
    BY DEF Types, Dispatch, DispatchFails, GlobalCatch, At, Foreground
  <1>3. UNCHANGED <<redis, support>>
    BY DEF Dispatch, DispatchFails, GlobalCatch
  <1>4. (\E n \in {1, 2} : \E a : Shown(t, a, n)) \/ UNCHANGED history
    BY DEF Dispatch, DispatchFails, GlobalCatch
  <1>5. /\ replies' \in [Messages -> Nat]
        /\ promised' \in BOOLEAN /\ called' \in BOOLEAN /\ errors' \in Nat
    BY <1>2, <1>4, ShownType DEF Types, TypeOK, history
  <1>6. events' \in 0..MaxEvents /\ faults' \in 0..MaxFaults
    BY BoundsType DEF Types, Dispatch, DispatchFails, GlobalCatch
  <1> QED  BY <1>1, <1>3, <1>5, <1>6 DEF Types, TypeOK, redis

LEMMA ReceiveTypes ==
    ASSUME Types, NEW t \in Turns, Receive(t)
    PROVE  Types'
  <1>1. /\ turns' \in [Turns -> TurnRecords]
        /\ \A u \in Turns : turns'[u].at \in Foreground => turns'[u].msg \in Messages
    BY ReceiveIs DEF Types
  <1>2. UNCHANGED <<redis, support, history, faults>> /\ events' \in 0..MaxEvents
    BY EventType DEF Types, Receive
  <1> QED  BY <1>1, <1>2 DEF Types, TypeOK, redis, history

Outside == Reactivate \/ MirrorExpires \/ RateExpires \/ FailsExpire \/ Restart

LEMMA OutsideTypes == Types /\ (Outside \/ UNCHANGED vars) => Types'
  <1> SUFFICES ASSUME Types, Outside \/ UNCHANGED vars PROVE Types'
    OBVIOUS
  <1>1. CASE Restart
    BY <1>1, IdleType, BoundsType DEF Restart, Types, TypeOK, redis, history, Foreground
  <1>2. CASE Reactivate
    BY <1>2, EventType DEF Reactivate, Types, TypeOK, redis, history
  <1>3. CASE MirrorExpires
    BY <1>3 DEF MirrorExpires, Types, TypeOK, history, bounds
  <1>4. CASE RateExpires \/ FailsExpire
    BY <1>4, NoKeyType DEF RateExpires, FailsExpire, Types, TypeOK, history, bounds
  <1>5. CASE UNCHANGED vars
    BY <1>5 DEF vars, Types, TypeOK, redis, history, bounds
  <1> QED  BY <1>1, <1>2, <1>3, <1>4, <1>5 DEF Outside

\* Every step is one of these.
LEMMA NextCases ==
    ASSUME [Next]_vars
    PROVE  \/ \E t \in Turns : Receive(t) \/ Steps(t) \/ ResolveIdentity(t)
                               \/ Dispatch(t) \/ DispatchFails(t) \/ GlobalCatch(t)
           \/ Outside \/ UNCHANGED vars
  BY DEF Next, TurnStep, Steps, Outside

LEMMA TypesStep == Types /\ [Next]_vars => Types'
  BY NextCases, ReceiveTypes, StepsTypes, AnswersTypes, OutsideTypes

\* A turn that may be answered has a message to answer.
THEOREM TypesHold == Spec => []Types
  BY InitTypes, TypesStep, PTL DEF Spec

\* Every variable keeps its type, however many turns, events and faults.
THEOREM TypeCorrect == Spec => []TypeOK
  <1>1. Types => TypeOK
    BY DEF Types
  <1> QED  BY <1>1, TypesHold, PTL

-----------------------------------------------------------------------------
(* The mute.                                                               *)

\* Who knows of a takeover, knows of one that Guacuco was asked for.
CalledInv ==
    /\ mirror \/ support => called
    /\ \A t \in Turns : turns[t].saw = "active" \/ turns[t].at = "mirror" => called

LEMMA InitCalled == Init => CalledInv
  BY IdleType DEF Init, CalledInv

\* called only grows.
LEMMA CalledGrows ==
    ASSUME Types, [Next]_vars, called
    PROVE  called'
  BY NextCases DEF Receive, Steps, IsDuplicate, SyncTakeoverMirror, TakeoverGate, CheckLimit,
     CheckLimitExpire, GraphInvoke, Trigger, MirrorActive, ResetFailures, BumpFailures,
     BumpFailuresExpire, Throws, SwallowAsync, ResolveIdentity, Dispatch, DispatchFails,
     GlobalCatch, Shown, Outside, Reactivate, MirrorExpires, RateExpires, FailsExpire, Restart,
     history, vars

LEMMA CalledStep == Types /\ CalledInv /\ [Next]_vars => CalledInv'
  <1> SUFFICES ASSUME Types, CalledInv, [Next]_vars, ~called PROVE CalledInv'
    BY CalledGrows, IdleType DEF CalledInv
  <1>1. /\ ~mirror /\ ~support
        /\ \A t \in Turns : turns[t].saw # "active" /\ turns[t].at # "mirror"
    BY DEF CalledInv
  <1>2. ASSUME NEW t \in Turns, Receive(t)
        PROVE  CalledInv'
    BY <1>1, <1>2, ReceiveIs DEF Types, CalledInv, Receive, redis, history
  <1>3. ASSUME NEW t \in Turns, Steps(t)
        PROVE  CalledInv'
    <2>1. GoesOnSeeing(t) \/ Ends(t)
      BY <1>3, StepsGoOn DEF Types
    <2>2. CASE Trigger(t)
      <3>1. CASE called'
        BY <3>1 DEF CalledInv
      <3>2. CASE ~called'
        <4>1. To(t, "reset") /\ UNCHANGED <<redis, support, called>>
          BY <1>1, <2>2, <3>2 DEF Trigger
        <4>2. turns'[t].at = "reset"
          BY <4>1, ToIs DEF Types, Places, Background
        <4> QED  BY <1>1, <2>1, <4>1, <4>2, IdleType DEF redis, CalledInv, GoesOnSeeing, GoesOn, Ends, Becomes
      <3> QED  BY <3>1, <3>2
    <2>3. CASE ~Trigger(t)
      <3>1. turns'[t].at # "mirror"
        <4>1. \A p \in Places : To(t, p) => turns'[t].at = p
          BY ToIs DEF Types
        <4>2. \A p \in Places, a \in Actions : With(t, p, a) => turns'[t].at = p
          BY WithIs DEF Types
        <4>3. Return(t) => turns'[t].at = "idle"
          BY ReturnIs, IdleType DEF Types, Becomes
        <4>4. CASE IsDuplicate(t) \/ SyncTakeoverMirror(t) \/ TakeoverGate(t) \/ CheckLimit(t)
          BY <4>1, <4>2, <4>3, <4>4 DEF IsDuplicate, SyncTakeoverMirror, TakeoverGate, CheckLimit,
             Places, Foreground, Actions
        <4>5. CASE CheckLimitExpire(t) \/ Throws(t) \/ MirrorActive(t)
          BY <4>1, <4>5 DEF CheckLimitExpire, Throws, MirrorActive, Places, Foreground, Background
        <4>6. CASE GraphInvoke(t)
          <5>1. PICK a \in Actions : With(t, "dispatch", a)
            BY <4>6 DEF GraphInvoke
          <5> QED  BY <4>2, <5>1 DEF Places, Foreground
        <4>7. CASE ResetFailures(t) \/ BumpFailures(t) \/ BumpFailuresExpire(t) \/ SwallowAsync(t)
          BY <4>1, <4>3, <4>7 DEF ResetFailures, BumpFailures, BumpFailuresExpire, SwallowAsync,
             Places, Background
        <4> QED  BY <1>3, <2>3, <4>4, <4>5, <4>6, <4>7 DEF Steps
      <3>2. ~mirror' /\ UNCHANGED <<support, called>>
        <4>1. CASE SyncTakeoverMirror(t)
          BY <1>1, <4>1 DEF SyncTakeoverMirror, history
        <4>2. CASE ~SyncTakeoverMirror(t)
          BY <1>1, <1>3, <2>3, <4>2 DEF Steps, IsDuplicate, TakeoverGate, CheckLimit,
             CheckLimitExpire, GraphInvoke, MirrorActive, ResetFailures, BumpFailures,
             BumpFailuresExpire, Throws, SwallowAsync, At, redis, history
        <4> QED  BY <4>1, <4>2
      <3> QED  BY <1>1, <2>1, <3>1, <3>2, IdleType DEF CalledInv, GoesOnSeeing, GoesOn, Ends, Becomes
    <2> QED  BY <2>2, <2>3
  <1>4. ASSUME NEW t \in Turns, ResolveIdentity(t)
        PROVE  CalledInv'
    <2>1. UNCHANGED <<redis, support, history>>
      BY <1>4 DEF ResolveIdentity
    <2> QED  BY <1>1, <1>4, <2>1, LooksGoesOn, IdleType
             DEF Types, redis, history, CalledInv, GoesOnSeeing, GoesOn, Ends, Becomes
  <1>5. ASSUME NEW t \in Turns, Dispatch(t) \/ DispatchFails(t) \/ GlobalCatch(t)
        PROVE  CalledInv'
    <2>1. UNCHANGED <<redis, support, called>>
      BY <1>5 DEF Dispatch, DispatchFails, GlobalCatch, Shown, history
    <2> QED  BY <1>1, <1>5, <2>1, AnswersIs, IdleType
             DEF Types, redis, CalledInv, GoesOnSeeing, GoesOn, Ends, Becomes
  <1>6. CASE Outside \/ UNCHANGED vars
    BY <1>1, <1>6, IdleType DEF Outside, Reactivate, MirrorExpires, RateExpires, FailsExpire, Restart,
       redis, history, vars, CalledInv
  <1> QED  BY <1>2, <1>3, <1>4, <1>5, <1>6, NextCases

\* The bot is never silenced for a conversation that Guacuco was not told about.
THEOREM MutedWasCalled == Spec => []MuteNeedsCall
  <1>1. CalledInv => MuteNeedsCall
    BY DEF CalledInv, MuteNeedsCall
  <1> QED  BY <1>1, InitTypes, TypesStep, InitCalled, CalledStep, PTL DEF Spec

-----------------------------------------------------------------------------
(* One answer.                                                             *)

\* A turn that may still answer its message, and those that may still apologise for one.
Live(t)     == turns[t].at \in Foreground \ {"dedup", "catch"}
Catching(m) == {t \in Turns : turns[t].at = "catch" /\ turns[t].msg = m}
Open(m)     == m \notin seen \/ \E t \in Turns : Live(t) /\ turns[t].msg = m

LiveSeen == \A t \in Turns : Live(t) => turns[t].msg \in seen
OneLive  == \A t, u \in Turns : Live(t) /\ Live(u) /\ turns[t].msg = turns[u].msg => t = u
\* The answers got and those that may come are paid for by the faults, but one.
Paid(m)  == /\ IsFiniteSet(Catching(m))
            /\ replies[m] + Cardinality(Catching(m)) + (IF Open(m) THEN 1 ELSE 0) <= 1 + faults
AnsweredInv == LiveSeen /\ OneLive /\ \A m \in Messages : Paid(m)

LEMMA InitAnswered == Init => AnsweredInv
  <1> SUFFICES ASSUME Init PROVE AnsweredInv
    OBVIOUS
  <1>1. \A t \in Turns : ~Live(t) /\ turns[t].at # "catch"
    BY IdleType DEF Init, Live, Foreground
  <1>2. ASSUME NEW m \in Messages PROVE Paid(m)
    <2>1. Catching(m) = {}
      BY <1>1 DEF Catching
    <2> QED  BY <2>1, FS_EmptySet DEF Init, Paid
  <1> QED  BY <1>1, <1>2 DEF AnsweredInv, LiveSeen, OneLive

LEMMA Numbers ==
    ASSUME Types, AnsweredInv, NEW m \in Messages
    PROVE  /\ replies[m] \in Nat /\ faults \in Nat /\ Cardinality(Catching(m)) \in Nat
           /\ IsFiniteSet(Catching(m))
  BY FS_CardinalityType DEF Types, TypeOK, AnsweredInv, Paid

\* The books of a message balance when nobody new may answer it or apologise.
LEMMA QuietPaid ==
    ASSUME Types, AnsweredInv, Fault \/ UNCHANGED faults, NEW m \in Messages,
           replies'[m] = replies[m], Catching(m)' \subseteq Catching(m), Open(m)' => Open(m)
    PROVE  Paid(m)'
  <1>1. /\ IsFiniteSet(Catching(m)')
        /\ Cardinality(Catching(m)') <= Cardinality(Catching(m)) /\ Cardinality(Catching(m)') \in Nat
    BY Numbers, FS_Subset, FS_CardinalityType
  <1>2. faults' \in Nat /\ faults' >= faults
    BY DEF Types, TypeOK, Fault
  <1>3. replies[m] + Cardinality(Catching(m)) + (IF Open(m) THEN 1 ELSE 0) <= 1 + faults
    BY DEF AnsweredInv, Paid
  <1>4. (IF Open(m)' THEN 1 ELSE 0) <= (IF Open(m) THEN 1 ELSE 0)
    OBVIOUS
  <1>5. replies'[m] + Cardinality(Catching(m)') + (IF Open(m)' THEN 1 ELSE 0) <= 1 + faults'
    BY Numbers, <1>1, <1>2, <1>3, <1>4
  <1> QED  BY <1>1, <1>5 DEF Paid

LEMMA QuietAnswered ==
    ASSUME Types, AnsweredInv, Fault \/ UNCHANGED faults, UNCHANGED <<seen, replies>>,
           \A t \in Turns : /\ Live(t)' => Live(t) /\ turns'[t].msg = turns[t].msg
                            /\ turns'[t].at = "catch" =>
                                 turns[t].at = "catch" /\ turns'[t].msg = turns[t].msg
    PROVE  AnsweredInv'
  <1>1. LiveSeen' /\ OneLive'
    BY DEF AnsweredInv, LiveSeen, OneLive
  <1>2. ASSUME NEW m \in Messages PROVE Paid(m)'
    <2>1. Catching(m)' \subseteq Catching(m)
      BY DEF Catching
    <2>2. Open(m)' => Open(m)
      BY DEF Open
    <2> QED  BY <2>1, <2>2, QuietPaid
  <1> QED  BY <1>1, <1>2 DEF AnsweredInv

\* SET NX: of the turns that hold a message, one goes on.
LEMMA DuplicateAnswered ==
    ASSUME Types, AnsweredInv, NEW t \in Turns, IsDuplicate(t)
    PROVE  AnsweredInv'
  <1> DEFINE m == turns[t].msg
  <1>1. m \in Messages /\ turns[t].at = "dedup" /\ ~Live(t)
    BY DEF IsDuplicate, At, Types, Foreground, Live
  <1>2. seen' = seen \cup {m} /\ UNCHANGED <<replies, faults>>
    BY DEF IsDuplicate, history, bounds
  <1>3. CASE m \in seen
    <2>1. Return(t)
      BY <1>3 DEF IsDuplicate
    <2>2. turns'[t] = Idle /\ \A u \in Turns \ {t} : turns'[u] = turns[u]
      BY <2>1, ReturnIs DEF Types, Becomes
    <2> QED  BY <1>2, <1>3, <2>2, IdleType, QuietAnswered DEF Live, Foreground
  <1>4. CASE m \notin seen
    <2>1. To(t, "identity")
      BY <1>4 DEF IsDuplicate
    <2>2. /\ turns'[t].msg = m /\ turns'[t].at = "identity"
          /\ \A u \in Turns \ {t} : turns'[u] = turns[u]
      BY <2>1, ToIs DEF Types, Becomes, Places, Foreground
    <2>3. \A u \in Turns \ {t} : (Live(u)' <=> Live(u)) /\ (Live(u) => turns[u].msg # m)
      BY <1>4, <2>2 DEF Live, AnsweredInv, LiveSeen
    <2>4. LiveSeen'
      BY <1>2, <2>2, <2>3 DEF AnsweredInv, LiveSeen
    <2>5. OneLive'
      BY <2>2, <2>3 DEF AnsweredInv, OneLive
    <2>6. ASSUME NEW n \in Messages PROVE Paid(n)'
      <3>1. Catching(n)' = Catching(n)
        BY <1>1, <2>2 DEF Catching
      <3>2. Open(n)' => Open(n)
        BY <1>2, <1>4, <2>2, <2>3 DEF Open
      <3> QED  BY <1>2, <3>1, <3>2, QuietPaid
    <2> QED  BY <2>4, <2>5, <2>6 DEF AnsweredInv
  <1> QED  BY <1>3, <1>4

\* A call fails before the answer: the apology is one more, and so are the faults.
LEMMA ThrowsAnswered ==
    ASSUME Types, AnsweredInv, NEW t \in Turns, Throws(t)
    PROVE  AnsweredInv'
  <1> DEFINE m == turns[t].msg
  <1>1. m \in Messages /\ turns[t].at # "catch"
    BY DEF Throws, Types
  <1>2. faults' = faults + 1 /\ UNCHANGED <<seen, replies>>
    BY DEF Throws, Fault, redis, history
  <1>3. /\ turns'[t].msg = m /\ turns'[t].at = "catch"
        /\ \A u \in Turns \ {t} : turns'[u] = turns[u]
    BY ToIs DEF Throws, Types, Becomes, Places, Foreground
  <1>4. ~Live(t)' /\ \A u \in Turns \ {t} : Live(u)' <=> Live(u)
    BY <1>3 DEF Live
  <1>5. LiveSeen' /\ OneLive'
    BY <1>2, <1>3, <1>4 DEF AnsweredInv, LiveSeen, OneLive
  <1>6. ASSUME NEW n \in Messages PROVE Paid(n)'
    <2>1. Open(n)' => Open(n)
      BY <1>2, <1>3, <1>4 DEF Open
    <2>2. CASE n # m
      <3>1. Catching(n)' \subseteq Catching(n)
        BY <1>3, <2>2 DEF Catching
      <3>2. Fault
        BY DEF Throws
      <3> QED  BY <1>2, <2>1, <3>1, <3>2, QuietPaid
    <2>3. CASE n = m
      <3>1. Catching(n)' = Catching(n) \cup {t}
        BY <1>3, <2>3 DEF Catching
      <3>2. IsFiniteSet(Catching(n)') /\ Cardinality(Catching(n)') <= Cardinality(Catching(n)) + 1
            /\ Cardinality(Catching(n)') \in Nat
        <4>1. IsFiniteSet(Catching(n)) /\ Cardinality(Catching(n)) \in Nat
          BY Numbers
        <4> QED  BY <3>1, <4>1, FS_AddElement
      <3>3. replies[n] + Cardinality(Catching(n)) + (IF Open(n) THEN 1 ELSE 0) <= 1 + faults
        BY DEF AnsweredInv, Paid
      <3>4. (IF Open(n)' THEN 1 ELSE 0) <= (IF Open(n) THEN 1 ELSE 0)
        BY <2>1
      <3>5. replies'[n] + Cardinality(Catching(n)') + (IF Open(n)' THEN 1 ELSE 0) <= 1 + faults'
        BY Numbers, <1>2, <3>2, <3>3, <3>4
      <3> QED  BY <3>2, <3>5 DEF Paid
    <2> QED  BY <2>2, <2>3
  <1> QED  BY <1>5, <1>6 DEF AnsweredInv

\* A message gets n answers at most, and the turn is over for it, or catches.
LEMMA ShownPaid ==
    ASSUME Types, AnsweredInv, NEW t \in Turns, NEW m \in Messages, turns[t].msg = m,
           replies' \in {replies, [replies EXCEPT ![m] = @ + 1]}
             \/ (faults' = faults + 1 /\ replies' = [replies EXCEPT ![m] = @ + 2]),
           UNCHANGED seen, Fault \/ UNCHANGED faults, Live(t) => m \in seen,
           \A u \in Turns \ {t} : turns'[u] = turns[u],
           Live(t) \/ turns[t].at = "catch",
           ~Live(t)',
           turns'[t].at = "catch" => /\ turns'[t].msg = m /\ faults' = faults + 1 /\ Live(t)
                                     /\ replies' \in {replies, [replies EXCEPT ![m] = @ + 1]}
    PROVE  AnsweredInv'
  <1>1. \A u \in Turns \ {t} : Live(u)' <=> Live(u)
    BY DEF Live
  <1>2. LiveSeen' /\ OneLive'
    BY <1>1 DEF AnsweredInv, LiveSeen, OneLive
  <1>3. replies \in [Messages -> Nat]
    BY DEF Types, TypeOK
  <1>4. ASSUME NEW n \in Messages, n # m PROVE Paid(n)'
    <2>1. Catching(n)' \subseteq Catching(n)
      BY <1>4 DEF Catching
    <2>2. Open(n)' => Open(n)
      BY <1>1 DEF Open
    <2>3. replies'[n] = replies[n]
      BY <1>3, <1>4
    <2> QED  BY <2>1, <2>2, <2>3, QuietPaid
  <1>5. Paid(m)'
    <2>1. replies[m] + Cardinality(Catching(m)) + (IF Open(m) THEN 1 ELSE 0) <= 1 + faults
      BY DEF AnsweredInv, Paid
    <2>2. faults' \in Nat /\ faults' >= faults
      BY DEF Types, TypeOK, Fault
    <2>3. CASE Live(t)
      <3>1. Open(m) /\ ~Open(m)'
        BY <1>1, <2>3 DEF Open, AnsweredInv, OneLive
      <3>2. CASE turns'[t].at # "catch"
        <4>1. Catching(m)' = Catching(m)
          BY <2>3, <3>2 DEF Catching, Live
        <4>2. replies'[m] <= replies[m] + 1 \/ (replies'[m] <= replies[m] + 2 /\ faults' = faults + 1)
          BY <1>3
        <4>3. replies'[m] \in Nat
          BY <1>3
        <4>4. replies'[m] + Cardinality(Catching(m)') + 0 <= 1 + faults'
          BY Numbers, <2>1, <2>2, <3>1, <4>1, <4>2, <4>3
        <4> QED  BY <3>1, <4>1, <4>4, Numbers DEF Paid
      <3>3. CASE turns'[t].at = "catch"
        <4>1. Catching(m)' = Catching(m) \cup {t}
          BY <3>3 DEF Catching
        <4>2. IsFiniteSet(Catching(m)') /\ Cardinality(Catching(m)') <= Cardinality(Catching(m)) + 1
              /\ Cardinality(Catching(m)') \in Nat
          BY <4>1, Numbers, FS_AddElement, FS_CardinalityType
        <4>3. replies'[m] <= replies[m] + 1 /\ replies'[m] \in Nat /\ faults' = faults + 1
          BY <1>3, <3>3
        <4>4. replies'[m] + Cardinality(Catching(m)') + 0 <= 1 + faults'
          BY Numbers, <2>1, <3>1, <4>2, <4>3
        <4> QED  BY <3>1, <4>2, <4>4 DEF Paid
      <3> QED  BY <3>2, <3>3
    <2>4. CASE ~Live(t)
      <3>1. turns[t].at = "catch" /\ turns'[t].at # "catch"
        BY <2>4
      <3>2. Catching(m)' = Catching(m) \ {t} /\ t \in Catching(m)
        BY <3>1 DEF Catching
      <3>3. IsFiniteSet(Catching(m)') /\ Cardinality(Catching(m)') = Cardinality(Catching(m)) - 1
            /\ Cardinality(Catching(m)') \in Nat
        BY <3>2, Numbers, FS_RemoveElement, FS_CardinalityType
      <3>4. Open(m)' => Open(m)
        BY <1>1 DEF Open
      <3>5. replies'[m] \in Nat
            /\ (replies'[m] <= replies[m] + 1 \/ (replies'[m] <= replies[m] + 2 /\ faults' = faults + 1))
        BY <1>3
      <3>6. (IF Open(m)' THEN 1 ELSE 0) <= (IF Open(m) THEN 1 ELSE 0)
        BY <3>4
      <3>7. replies'[m] + Cardinality(Catching(m)') + (IF Open(m)' THEN 1 ELSE 0) <= 1 + faults'
        BY Numbers, <2>1, <2>2, <3>3, <3>5, <3>6
      <3> QED  BY <3>3, <3>7 DEF Paid
    <2> QED  BY <2>3, <2>4
  <1> QED  BY <1>2, <1>4, <1>5 DEF AnsweredInv

LEMMA AnswersAnswered ==
    ASSUME Types, AnsweredInv, NEW t \in Turns, Dispatch(t) \/ DispatchFails(t)
    PROVE  AnsweredInv'
  <1> DEFINE m == turns[t].msg
  <1>1. m \in Messages /\ Live(t) /\ m \in seen
    BY DEF Dispatch, DispatchFails, At, Types, Foreground, Live, AnsweredInv, LiveSeen
  <1>2. UNCHANGED seen /\ (Fault \/ UNCHANGED faults)
    BY DEF Dispatch, DispatchFails, redis, bounds
  <1>3. \A u \in Turns \ {t} : turns'[u] = turns[u]
    BY AnswersIs DEF Types, GoesOnSeeing, GoesOn, Ends, Becomes
  <1>4. CASE Dispatch(t)
    <2>1. turns'[t].at \in Background \cup {"idle"}
      BY <1>4, AnswersIs, IdleType DEF Types, Ends, Becomes
    <2>2. \/ replies' \in {replies, [replies EXCEPT ![m] = @ + 1]}
          \/ faults' = faults + 1 /\ replies' = [replies EXCEPT ![m] = @ + 2]
      BY <1>4 DEF Dispatch, Shown, Fault
    <2>3. ~Live(t)' /\ turns'[t].at # "catch"
      BY <2>1 DEF Live, Foreground, Background
    <2> HIDE DEF m
    <2> QED  BY <1>1, <1>2, <1>3, <2>2, <2>3, ShownPaid DEF m
  <1>5. CASE DispatchFails(t)
    <2>1. turns'[t].msg = m /\ turns'[t].at = "catch" /\ faults' = faults + 1
      BY <1>5, ToIs DEF Types, DispatchFails, Fault, Places, Foreground
    <2>2. replies' \in {replies, [replies EXCEPT ![m] = @ + 1]}
      BY <1>5 DEF DispatchFails, Shown, history
    <2>3. ~Live(t)'
      BY <2>1 DEF Live
    <2> HIDE DEF m
    <2> QED  BY <1>1, <1>2, <1>3, <2>1, <2>2, <2>3, ShownPaid DEF m
  <1> QED  BY <1>4, <1>5

LEMMA CatchAnswered ==
    ASSUME Types, AnsweredInv, NEW t \in Turns, GlobalCatch(t)
    PROVE  AnsweredInv'
  <1> DEFINE m == turns[t].msg
  <1>1. m \in Messages /\ turns[t].at = "catch" /\ ~Live(t)
    BY DEF GlobalCatch, At, Types, Foreground, Live
  <1>2. UNCHANGED seen /\ (Fault \/ UNCHANGED faults)
    BY DEF GlobalCatch, redis, bounds
  <1>3. turns'[t] = Idle /\ \A u \in Turns \ {t} : turns'[u] = turns[u]
    BY ReturnIs DEF GlobalCatch, Types, Becomes
  <1>4. replies' \in {replies, [replies EXCEPT ![m] = @ + 1]}
    BY DEF GlobalCatch, Shown, history
  <1>5. ~Live(t)' /\ turns'[t].at # "catch"
    BY <1>3, IdleType DEF Live, Foreground
  <1> HIDE DEF m
  <1> QED  BY <1>1, <1>2, <1>3, <1>4, <1>5, ShownPaid DEF m

LEMMA AnsweredStep == Types /\ AnsweredInv /\ [Next]_vars => AnsweredInv'
  <1> SUFFICES ASSUME Types, AnsweredInv, [Next]_vars PROVE AnsweredInv'
    OBVIOUS
  <1>1. ASSUME NEW t \in Turns, Receive(t)
        PROVE  AnsweredInv'
    BY <1>1, ReceiveIs, QuietAnswered DEF Types, Receive, redis, history, Live, Foreground
  <1>2. ASSUME NEW t \in Turns, Steps(t) \/ ResolveIdentity(t), ~IsDuplicate(t), ~Throws(t)
        PROVE  AnsweredInv'
    <2>1. GoesOn(t) \/ Ends(t)
      BY <1>2, StepsGoOn, LooksGoesOn DEF Types, GoesOnSeeing
    <2>2. UNCHANGED <<seen, replies>> /\ (Fault \/ UNCHANGED faults)
      BY <1>2 DEF Steps, SyncTakeoverMirror, TakeoverGate, CheckLimit, CheckLimitExpire, GraphInvoke,
         Trigger, MirrorActive, ResetFailures, BumpFailures, BumpFailuresExpire,
         SwallowAsync, ResolveIdentity, redis, history, bounds
    <2>3. turns[t].at # "dedup"
      BY <1>2 DEF Steps, SyncTakeoverMirror, TakeoverGate, CheckLimit, CheckLimitExpire, GraphInvoke,
         Trigger, MirrorActive, ResetFailures, BumpFailures, BumpFailuresExpire,
         SwallowAsync, ResolveIdentity, At
    <2>4. turns'[t].at # "catch"
      <3>1. \A p \in Places : To(t, p) => turns'[t].at = p
        BY ToIs DEF Types
      <3>2. \A p \in Places, a \in Actions : With(t, p, a) => turns'[t].at = p
        BY WithIs DEF Types
      <3>3. Return(t) => turns'[t].at = "idle"
        BY ReturnIs, IdleType DEF Types, Becomes
      <3>4. CASE SyncTakeoverMirror(t) \/ TakeoverGate(t) \/ CheckLimit(t) \/ CheckLimitExpire(t)
        BY <3>1, <3>2, <3>3, <3>4 DEF SyncTakeoverMirror, TakeoverGate, CheckLimit, CheckLimitExpire,
           Places, Foreground, Actions
      <3>5. CASE GraphInvoke(t)
        <4>1. PICK a \in Actions : With(t, "dispatch", a)
          BY <3>5 DEF GraphInvoke
        <4> QED  BY <3>2, <4>1 DEF Places, Foreground
      <3>6. CASE Trigger(t) \/ MirrorActive(t) \/ ResetFailures(t) \/ BumpFailures(t)
                 \/ BumpFailuresExpire(t) \/ SwallowAsync(t)
        BY <3>1, <3>3, <3>6 DEF Trigger, MirrorActive, ResetFailures, BumpFailures,
           BumpFailuresExpire, SwallowAsync, Places, Background
      <3>7. CASE ResolveIdentity(t)
        BY <3>7, LooksGoesOn, IdleType DEF Types, Ends, Becomes
      <3> QED  BY <1>2, <3>4, <3>5, <3>6, <3>7 DEF Steps
    <2>5. \A u \in Turns \ {t} : turns'[u] = turns[u]
      BY <2>1 DEF GoesOn, Ends, Becomes
    <2>6. Live(t)' => Live(t) /\ turns'[t].msg = turns[t].msg
      <3>1. CASE Ends(t)
        BY <3>1, IdleType DEF Ends, Becomes, Live, Foreground
      <3>2. CASE GoesOn(t)
        <4>1. turns[t].at # "catch"
          BY <1>2, <3>2 DEF Steps, SyncTakeoverMirror, TakeoverGate, CheckLimit, CheckLimitExpire,
             GraphInvoke, Trigger, MirrorActive, ResetFailures, BumpFailures, BumpFailuresExpire,
             SwallowAsync, ResolveIdentity, At
        <4> QED  BY <2>3, <3>2, <4>1 DEF GoesOn, Live
      <3> QED  BY <2>1, <3>1, <3>2
    <2>7. \A u \in Turns \ {t} : Live(u)' => Live(u)
      BY <2>5 DEF Live
    <2> QED  BY <2>2, <2>4, <2>5, <2>6, <2>7, QuietAnswered
  <1>3. CASE Outside \/ UNCHANGED vars
    <2>1. UNCHANGED <<seen, replies>> /\ (Fault \/ UNCHANGED faults)
      BY <1>3 DEF Outside, Reactivate, MirrorExpires, RateExpires, FailsExpire, Restart, redis,
         history, bounds, vars
    <2>2. UNCHANGED turns \/ turns' = [t \in Turns |-> Idle]
      BY <1>3 DEF Outside, Reactivate, MirrorExpires, RateExpires, FailsExpire, Restart, vars
    <2> QED  BY <2>1, <2>2, QuietAnswered, IdleType DEF Live, Foreground
  <1> QED  BY <1>1, <1>2, <1>3, NextCases, DuplicateAnswered, ThrowsAnswered, AnswersAnswered,
             CatchAnswered

\* However often a message is delivered, and to however many turns at once, it gets one
\* answer, and one more for each failed call at most.
THEOREM AnsweredOncePerMessage == Spec => []AnsweredOnce
  <1>1. Types /\ AnsweredInv => AnsweredOnce
    <2> SUFFICES ASSUME Types, AnsweredInv, NEW m \in Messages PROVE replies[m] <= 1 + faults
      BY DEF AnsweredOnce
    <2>1. replies[m] + Cardinality(Catching(m)) + (IF Open(m) THEN 1 ELSE 0) <= 1 + faults
      BY DEF AnsweredInv, Paid
    <2> QED  BY <2>1, Numbers
  <1> QED  BY <1>1, InitTypes, TypesStep, InitAnswered, AnsweredStep, PTL DEF Spec

-----------------------------------------------------------------------------
(* The silence under a takeover.                                           *)

\* Whoever is alone since its message came is the only turn of the thread, and what it saw of
\* a takeover it finds in the mirror at the gate.
StillAlone  == \A t \in Turns : turns[t].alone /\ turns[t].at \in Foreground =>
                  \A u \in Turns \ {t} : turns[u].at \notin Foreground
NotYetSeen  == \A t \in Turns : turns[t].at \in {"dedup", "identity"} => turns[t].saw = "absent"
MirrorHolds == \A t \in Turns : turns[t].at = "gate" /\ turns[t].alone /\ turns[t].saw = "active"
                                  => mirror
SilentInv   == StillAlone /\ NotYetSeen /\ MirrorHolds /\ SilentUnderTakeover

LEMMA InitSilent == Init => SilentInv
  BY IdleType DEF Init, SilentInv, StillAlone, NotYetSeen, MirrorHolds, SilentUnderTakeover, Passing,
     Foreground

\* The invariant for the turn that moved; the others are where they were.
SilentOne(t) ==
    /\ turns[t].at \in {"dedup", "identity"} => turns[t].saw = "absent"
    /\ turns[t].at = "gate" /\ turns[t].alone /\ turns[t].saw = "active" => mirror
    /\ Passing(t) /\ turns[t].alone => turns[t].saw # "active"

LEMMA OneIsEnough ==
    ASSUME SilentInv, NEW t \in Turns, GoesOn(t) \/ Ends(t), SilentOne(t)',
           mirror' = mirror \/ turns[t].at \in Foreground
    PROVE  SilentInv'
  <1>1. \A u \in Turns \ {t} : turns'[u] = turns[u]
    BY DEF GoesOn, Ends, Becomes
  <1>2. /\ turns'[t].at \in Foreground => turns[t].at \in Foreground /\ turns'[t].alone = turns[t].alone
    BY IdleType DEF GoesOn, Ends, Becomes, Foreground
  <1>3. StillAlone'
    BY <1>1, <1>2 DEF SilentInv, StillAlone
  <1>4. ASSUME NEW u \in Turns \ {t}, turns'[u].at = "gate", turns'[u].alone, turns'[u].saw = "active"
        PROVE  mirror'
    BY <1>1, <1>4 DEF SilentInv, StillAlone, MirrorHolds, Foreground
  <1>5. NotYetSeen' /\ MirrorHolds' /\ SilentUnderTakeover'
    BY <1>1, <1>4 DEF SilentInv, NotYetSeen, MirrorHolds, SilentUnderTakeover, SilentOne, Passing
  <1> QED  BY <1>3, <1>5 DEF SilentInv

\* The turns of the post-turn task, over, or caught, are not concerned.
LEMMA AwaySilent ==
    ASSUME TypeOK, NEW t \in Turns, Becomes(t, turns'[t]) \/ Ends(t),
           turns'[t].at \notin {"dedup", "identity", "gate", "rate", "rate_expire", "graph", "dispatch"}
             \/ Ends(t)
    PROVE  SilentOne(t)'
  BY IdleType DEF SilentOne, Passing, Ends, Becomes

LEMMA ForegroundSilent ==
    ASSUME Types, SilentInv, NEW t \in Turns,
           \/ IsDuplicate(t) \/ SyncTakeoverMirror(t) \/ TakeoverGate(t) \/ CheckLimit(t)
           \/ CheckLimitExpire(t) \/ GraphInvoke(t) \/ Throws(t) \/ ResolveIdentity(t)
    PROVE  SilentInv'
  <1>1. \A p \in Places : To(t, p) => /\ turns'[t].at = p /\ turns'[t].saw = turns[t].saw
                                      /\ turns'[t].alone = turns[t].alone
    BY ToIs DEF Types
  <1>2. \A p \in Places, a \in Actions : With(t, p, a) =>
           turns'[t].at = p /\ turns'[t].saw = turns[t].saw /\ turns'[t].alone = turns[t].alone
    BY WithIs DEF Types
  <1>3. Return(t) => Ends(t)
    BY ReturnIs DEF Types, Ends
  <1>4. GoesOn(t) \/ Ends(t)
    BY StepsGoOn, LooksGoesOn DEF Types, GoesOnSeeing, Steps
  <1>5. Ends(t) => SilentOne(t)'
    BY AwaySilent DEF Types
  <1>6. SilentOne(t)
    BY DEF SilentInv, NotYetSeen, MirrorHolds, SilentUnderTakeover, SilentOne
  <1>7. Foreground \subseteq Places
    BY DEF Places
  <1>8. SilentOne(t)'
    <2>1. CASE IsDuplicate(t)
      BY <1>1, <1>3, <1>5, <1>6, <1>7, <2>1 DEF IsDuplicate, At, Foreground, SilentOne, Passing
    <2>2. CASE SyncTakeoverMirror(t)
      BY <1>1, <1>7, <2>2 DEF SyncTakeoverMirror, Foreground, SilentOne, Passing
    <2>3. CASE TakeoverGate(t)
      BY <1>1, <1>3, <1>5, <1>6, <1>7, <2>3 DEF TakeoverGate, At, Foreground, SilentOne, Passing
    <2>4. CASE CheckLimit(t)
      BY <1>1, <1>2, <1>6, <1>7, <2>4 DEF CheckLimit, At, Foreground, SilentOne, Passing, Actions
    <2>5. CASE CheckLimitExpire(t)
      BY <1>1, <1>6, <1>7, <2>5 DEF CheckLimitExpire, At, Foreground, SilentOne, Passing
    <2>6. CASE GraphInvoke(t)
      <3>1. PICK a \in Actions : With(t, "dispatch", a)
        BY <2>6 DEF GraphInvoke
      <3> QED  BY <1>2, <1>6, <1>7, <2>6, <3>1 DEF GraphInvoke, At, Foreground, SilentOne, Passing
    <2>7. CASE Throws(t)
      BY <1>1, <1>7, <2>7 DEF Throws, Foreground, SilentOne, Passing
    <2>8. CASE ResolveIdentity(t)
      BY <1>5, <1>6, <2>8, LooksGoesOn
         DEF Types, GoesOnSeeing, GoesOn, ResolveIdentity, At, SilentOne, Passing
    <2> QED  BY <2>1, <2>2, <2>3, <2>4, <2>5, <2>6, <2>7, <2>8
  <1>9. mirror' = mirror \/ turns[t].at \in Foreground
    BY DEF IsDuplicate, SyncTakeoverMirror, TakeoverGate, CheckLimit, CheckLimitExpire, GraphInvoke,
       Throws, ResolveIdentity, At, Foreground, redis
  <1> QED  BY <1>4, <1>8, <1>9, OneIsEnough

\* The post-turn task, which the next turns do not wait for, sets the mirror and never clears it.
LEMMA BackgroundSilent ==
    ASSUME Types, SilentInv, NEW t \in Turns,
           \/ Trigger(t) \/ MirrorActive(t) \/ ResetFailures(t) \/ BumpFailures(t)
           \/ BumpFailuresExpire(t) \/ SwallowAsync(t)
    PROVE  SilentInv'
  <1>1. turns[t].at \notin Foreground
    BY DEF Trigger, MirrorActive, ResetFailures, BumpFailures, BumpFailuresExpire, SwallowAsync, At,
       Foreground
  <1>2. GoesOn(t) \/ Ends(t)
    BY StepsGoOn DEF Types, GoesOnSeeing, Steps
  <1>3. mirror => mirror'
    BY DEF Trigger, MirrorActive, ResetFailures, BumpFailures, BumpFailuresExpire, SwallowAsync, redis
  <1>4. \A u \in Turns \ {t} : turns'[u] = turns[u]
    BY <1>2 DEF GoesOn, Ends, Becomes
  <1>5. turns'[t].at \notin Foreground
    BY <1>1, <1>2, IdleType DEF GoesOn, Ends, Becomes, Foreground
  <1>6. StillAlone'
    BY <1>4, <1>5 DEF SilentInv, StillAlone
  <1>7. NotYetSeen' /\ MirrorHolds' /\ SilentUnderTakeover'
    BY <1>3, <1>4, <1>5 DEF SilentInv, NotYetSeen, MirrorHolds, SilentUnderTakeover, Passing, Foreground
  <1> QED  BY <1>6, <1>7 DEF SilentInv

LEMMA AnswersSilent ==
    ASSUME Types, SilentInv, NEW t \in Turns, Dispatch(t) \/ DispatchFails(t) \/ GlobalCatch(t)
    PROVE  SilentInv'
  <1>1. /\ \A u \in Turns \ {t} : turns'[u] = turns[u]
        /\ turns'[t].at \notin {"dedup", "identity", "gate", "rate", "rate_expire", "graph", "dispatch"}
        /\ turns'[t].at \in Foreground => turns[t].at \in Foreground /\ turns'[t].alone = turns[t].alone
    BY AnswersIs, IdleType DEF Types, GoesOnSeeing, GoesOn, Ends, Becomes, Foreground, Background
  <1>2. UNCHANGED mirror
    BY DEF Dispatch, DispatchFails, GlobalCatch, redis
  <1>3. StillAlone'
    BY <1>1 DEF SilentInv, StillAlone
  <1>4. NotYetSeen' /\ MirrorHolds' /\ SilentUnderTakeover'
    BY <1>1, <1>2 DEF SilentInv, NotYetSeen, MirrorHolds, SilentUnderTakeover, Passing
  <1> QED  BY <1>3, <1>4 DEF SilentInv

LEMMA ReceiveSilent ==
    ASSUME Types, SilentInv, NEW t \in Turns, Receive(t)
    PROVE  SilentInv'
  <1>1. /\ turns'[t].at = "dedup" /\ turns'[t].saw = "absent"
        /\ turns'[t].alone => \A u \in Turns : turns[u].at \notin Foreground
        /\ \A u \in Turns \ {t} :
             turns'[u].at = turns[u].at /\ turns'[u].saw = turns[u].saw /\ turns'[u].alone = FALSE
    BY ReceiveIs DEF Types
  <1>2. StillAlone'
    BY <1>1 DEF StillAlone
  <1>3. NotYetSeen' /\ MirrorHolds' /\ SilentUnderTakeover'
    BY <1>1 DEF SilentInv, NotYetSeen, MirrorHolds, SilentUnderTakeover, Passing
  <1> QED  BY <1>2, <1>3 DEF SilentInv

LEMMA OutsideSilent == SilentInv /\ (Outside \/ UNCHANGED vars) => SilentInv'
  <1> SUFFICES ASSUME SilentInv, Outside \/ UNCHANGED vars PROVE SilentInv'
    OBVIOUS
  <1>1. CASE Restart
    BY <1>1, IdleType DEF Restart, SilentInv, StillAlone, NotYetSeen, MirrorHolds,
       SilentUnderTakeover, Passing, Foreground
  <1>2. CASE MirrorExpires
    BY <1>2 DEF MirrorExpires, At, SilentInv, StillAlone, NotYetSeen, MirrorHolds,
       SilentUnderTakeover, Passing
  <1>3. CASE Reactivate \/ RateExpires \/ FailsExpire \/ UNCHANGED vars
    BY <1>3 DEF Reactivate, RateExpires, FailsExpire, vars, redis, SilentInv, StillAlone, NotYetSeen,
       MirrorHolds, SilentUnderTakeover, Passing
  <1> QED  BY <1>1, <1>2, <1>3 DEF Outside

LEMMA SilentStep == Types /\ SilentInv /\ [Next]_vars => SilentInv'
  <1> SUFFICES ASSUME Types, SilentInv, [Next]_vars PROVE SilentInv'
    OBVIOUS
  <1>1. ASSUME NEW t \in Turns, Steps(t) \/ ResolveIdentity(t)
        PROVE  SilentInv'
    BY <1>1, ForegroundSilent, BackgroundSilent DEF Steps
  <1> QED  BY <1>1, NextCases, ReceiveSilent, AnswersSilent, OutsideSilent

\* A turn that no other runs beside goes no further when it saw that a human has the
\* conversation, whatever the earlier turns' tasks do to the mirror meanwhile.
THEOREM SilentWhenTaken == Spec => []SilentUnderTakeover
  <1>1. SilentInv => SilentUnderTakeover
    BY DEF SilentInv
  <1> QED  BY <1>1, InitTypes, TypesStep, InitSilent, SilentStep, PTL DEF Spec

-----------------------------------------------------------------------------
(* The counters' TTL.                                                      *)

\* Without a fault, an action of t leaves the places where the others are, and t leaves the
\* two places before an EXPIRE only by that EXPIRE.
LEMMA ExpiresStep == Types /\ CountersExpire /\ [Next]_vars => CountersExpire'
  <1> SUFFICES ASSUME Types, CountersExpire, [Next]_vars, faults' = 0 PROVE CountersExpire'
    BY DEF CountersExpire
  <1>1. faults = 0 /\ ~Fault
    <2>1. ~Fault
      BY DEF Types, TypeOK, Fault
    <2>2. Fault \/ UNCHANGED faults
      <3>1. ASSUME NEW t \in Turns, Steps(t) \/ ResolveIdentity(t)
            PROVE  Fault \/ UNCHANGED faults
        BY <3>1 DEF Steps, IsDuplicate, SyncTakeoverMirror, TakeoverGate, CheckLimit,
           CheckLimitExpire, GraphInvoke, Trigger, MirrorActive, ResetFailures, BumpFailures,
           BumpFailuresExpire, Throws, SwallowAsync, ResolveIdentity, bounds
      <3>2. ASSUME NEW t \in Turns, Receive(t) \/ Dispatch(t) \/ DispatchFails(t) \/ GlobalCatch(t)
            PROVE  Fault \/ UNCHANGED faults
        BY <3>2 DEF Receive, Dispatch, DispatchFails, GlobalCatch, bounds
      <3>3. CASE Outside \/ UNCHANGED vars
        BY <3>3 DEF Outside, Reactivate, MirrorExpires, RateExpires, FailsExpire, Restart, bounds, vars
      <3> QED  BY <3>1, <3>2, <3>3, NextCases
    <2> QED  BY <2>1, <2>2
  <1>2. /\ rate.count > 0 /\ ~rate.ttl => \E t \in Turns : At(t, "rate_expire")
        /\ fails.count > 0 /\ ~fails.ttl => \E t \in Turns : At(t, "bump_expire")
    BY <1>1 DEF CountersExpire
  <1>3. ASSUME NEW t \in Turns, UNCHANGED <<rate, fails>>,
               turns[t].at \notin {"rate_expire", "bump_expire"},
               \A u \in Turns \ {t} : turns'[u].at = turns[u].at
        PROVE  CountersExpire'
    BY <1>2, <1>3 DEF CountersExpire, At
  <1>4. ASSUME NEW t \in Turns, Receive(t)
        PROVE  CountersExpire'
    BY <1>3, <1>4, ReceiveIs DEF Types, Receive, redis
  <1>5. ASSUME NEW t \in Turns, Steps(t) \/ ResolveIdentity(t)
        PROVE  CountersExpire'
    <2>1. \A u \in Turns \ {t} : turns'[u] = turns[u]
      BY <1>5, StepsGoOn, LooksGoesOn DEF Types, GoesOnSeeing, GoesOn, Ends, Becomes
    <2>2. rate \in Counters /\ fails \in Counters
      BY DEF Types, TypeOK
    <2>3. CASE CheckLimit(t)
      <3>1. turns[t].at = "rate" /\ UNCHANGED fails
        BY <2>3 DEF CheckLimit, At
      <3>2. rate' = rate \/ rate' = [rate EXCEPT !.count = @ + 1]
        BY <2>3 DEF CheckLimit
      <3>3. rate'.ttl = rate.ttl
        BY <2>2, <3>2 DEF Counters
      <3>4. rate.count = 0 => turns'[t].at = "rate_expire"
        BY <2>3, ToIs DEF CheckLimit, Types, Places, Foreground
      <3>5. rate.count \in Nat
        BY <2>2 DEF Counters
      <3> QED  BY <1>2, <2>1, <3>1, <3>3, <3>4, <3>5 DEF CountersExpire, At
    <2>4. CASE BumpFailures(t)
      <3>1. turns[t].at = "bump" /\ UNCHANGED rate
        BY <2>4 DEF BumpFailures, At
      <3>2. fails' = [fails EXCEPT !.count = @ + 1]
        BY <2>4 DEF BumpFailures
      <3>3. fails'.ttl = fails.ttl
        BY <2>2, <3>2 DEF Counters
      <3>4. fails.count = 0 => turns'[t].at = "bump_expire"
        BY <2>4, ToIs DEF BumpFailures, Types, Places, Background
      <3>5. fails.count \in Nat
        BY <2>2 DEF Counters
      <3> QED  BY <1>2, <2>1, <3>1, <3>3, <3>4, <3>5 DEF CountersExpire, At
    <2>5. CASE CheckLimitExpire(t)
      <3>1. turns[t].at = "rate_expire" /\ UNCHANGED fails /\ rate' = [rate EXCEPT !.ttl = rate.count > 0]
        BY <2>5 DEF CheckLimitExpire, At
      <3>2. rate'.count > 0 => rate'.ttl
        BY <2>2, <3>1 DEF Counters
      <3> QED  BY <1>2, <2>1, <3>1, <3>2 DEF CountersExpire, At
    <2>6. CASE BumpFailuresExpire(t)
      <3>1. turns[t].at = "bump_expire" /\ UNCHANGED rate
            /\ fails' = [fails EXCEPT !.ttl = fails.count > 0]
        BY <2>6 DEF BumpFailuresExpire, At
      <3>2. fails'.count > 0 => fails'.ttl
        BY <2>2, <3>1 DEF Counters
      <3> QED  BY <1>2, <2>1, <3>1, <3>2 DEF CountersExpire, At
    <2>7. CASE ResetFailures(t)
      <3>1. turns[t].at = "reset" /\ UNCHANGED rate /\ fails'.count = 0
        BY <2>7, NoKeyType DEF ResetFailures, At
      <3> QED  BY <1>2, <2>1, <3>1 DEF CountersExpire, At
    <2>8. CASE \/ IsDuplicate(t) \/ SyncTakeoverMirror(t) \/ TakeoverGate(t) \/ GraphInvoke(t)
               \/ Trigger(t) \/ MirrorActive(t) \/ ResolveIdentity(t)
      BY <1>3, <2>1, <2>8 DEF IsDuplicate, SyncTakeoverMirror, TakeoverGate, GraphInvoke, Trigger,
         MirrorActive, ResolveIdentity, At, redis
    <2> QED  BY <1>1, <1>5, <2>3, <2>4, <2>5, <2>6, <2>7, <2>8 DEF Steps, Throws, SwallowAsync
  <1>6. ASSUME NEW t \in Turns, Dispatch(t) \/ DispatchFails(t) \/ GlobalCatch(t)
        PROVE  CountersExpire'
    <2>1. \A u \in Turns \ {t} : turns'[u] = turns[u]
      BY <1>6, AnswersIs DEF Types, GoesOnSeeing, GoesOn, Ends, Becomes
    <2> QED  BY <1>3, <1>6, <2>1 DEF Dispatch, DispatchFails, GlobalCatch, At, redis
  <1>7. CASE RateExpires \/ FailsExpire
    BY <1>2, <1>7, NoKeyType DEF RateExpires, FailsExpire, CountersExpire, At
  <1>8. CASE Reactivate \/ MirrorExpires \/ UNCHANGED vars
    BY <1>2, <1>8 DEF Reactivate, MirrorExpires, vars, redis, CountersExpire, At
  <1> QED  BY <1>1, <1>4, <1>5, <1>6, <1>7, <1>8, NextCases DEF Outside, Restart

\* However the turns and the tasks interleave, a counter lives without a TTL only between its
\* INCR and its EXPIRE, unless something failed.
THEOREM CountersGetTTL == Spec => []CountersExpire
  <1>1. Init => CountersExpire
    BY NoKeyType DEF Init, CountersExpire
  <1> QED  BY <1>1, InitTypes, TypesStep, ExpiresStep, PTL DEF Spec

-----------------------------------------------------------------------------
(* Promises and the threshold are carried.                                 *)

Moves(t) ==
    TurnStep(t) \/ DispatchFails(t) \/ Throws(t) \/ SwallowAsync(t)

\* Where each step takes its turn.
MovesOn(t) ==
    LET here == turns[t].at  there == turns'[t].at IN
    \/ there = "idle" /\ here # "idle"
    \/ there = "catch" /\ here \in Foreground \ {"catch"}
    \/ here = "dedup"    /\ there = "identity"
    \/ here = "identity" /\ there \in {"sync", "dispatch"}
    \/ here = "sync"     /\ there = "gate"
    \/ here = "gate"     /\ there = "rate"
    \/ here = "rate"     /\ there \in {"rate_expire", "graph", "dispatch"}
    \/ here = "rate_expire" /\ there = "graph"
    \/ here = "graph"    /\ there = "dispatch"
    \/ here = "dispatch" /\ there \in {"trigger", "reset", "bump"}
    \/ here = "bump"     /\ there \in {"bump_expire", "trigger"}
    \/ here = "bump_expire" /\ there = "trigger"
    \/ here = "trigger"  /\ there \in {"mirror", "reset"}
    \/ here = "mirror"   /\ there = "reset"

LEMMA MovesAre ==
    ASSUME TypeOK, NEW t \in Turns, Moves(t)
    PROVE  MovesOn(t) /\ \A u \in Turns \ {t} : turns'[u] = turns[u]
  <1>1. \A p \in Places : To(t, p) => turns'[t].at = p
    BY ToIs
  <1>2. \A p \in Places, a \in Actions : With(t, p, a) => turns'[t].at = p
    BY WithIs
  <1>3. Return(t) => turns'[t].at = "idle"
    BY ReturnIs, IdleType DEF Becomes
  <1>4. MovesOn(t)
    <2>1. CASE IsDuplicate(t) \/ SyncTakeoverMirror(t) \/ TakeoverGate(t)
      BY <1>1, <1>3, <2>1 DEF IsDuplicate, SyncTakeoverMirror, TakeoverGate, At, MovesOn,
         Places, Foreground
    <2>2. CASE ResolveIdentity(t)
      <3>1. turns[t].at = "identity"
        BY <2>2 DEF ResolveIdentity, At
      <3>2. turns'[t].at \in {"idle", "dispatch", "sync"}
        BY <1>2, <1>3, <2>2, LooksGoesOn, IdleType
           DEF Ends, Becomes, GoesOnSeeing, GoesOn
      <3> QED  BY <3>1, <3>2 DEF MovesOn
    <2>3. CASE CheckLimit(t) \/ CheckLimitExpire(t)
      BY <1>1, <1>2, <2>3 DEF CheckLimit, CheckLimitExpire, At, MovesOn, Places, Foreground, Actions
    <2>4. CASE GraphInvoke(t)
      <3>1. PICK a \in Actions : With(t, "dispatch", a)
        BY <2>4 DEF GraphInvoke
      <3> QED  BY <1>2, <2>4, <3>1 DEF GraphInvoke, At, MovesOn, Places, Foreground
    <2>5. CASE Dispatch(t)
      <3>1. turns'[t].at \in {"idle", "trigger", "reset", "bump"}
        <4>1. \A p \in Background : turns' = [turns EXCEPT ![t] = [Idle EXCEPT !.at = p]] =>
                turns'[t].at = p
          BY SpawnIs
        <4>2. PostTurn(turns[t].action) \in {"idle", "trigger", "reset", "bump"}
          BY DEF PostTurn
        <4> QED  BY <1>3, <2>5, <4>1, <4>2 DEF Dispatch, Background
      <3> QED  BY <2>5, <3>1 DEF Dispatch, At, MovesOn
    <2>6. CASE GlobalCatch(t)
      BY <1>3, <2>6 DEF GlobalCatch, At, MovesOn
    <2>7. CASE Trigger(t) \/ MirrorActive(t)
      BY <1>1, <2>7 DEF Trigger, MirrorActive, At, MovesOn, Places, Background
    <2>8. CASE ResetFailures(t) \/ BumpFailures(t) \/ BumpFailuresExpire(t)
      BY <1>1, <1>3, <2>8 DEF ResetFailures, BumpFailures, BumpFailuresExpire, At, MovesOn,
         Places, Background
    <2>9. CASE DispatchFails(t) \/ Throws(t)
      BY <1>1, <2>9 DEF DispatchFails, Throws, At, MovesOn, Places, Foreground
    <2>10. CASE SwallowAsync(t)
      BY <1>3, <2>10 DEF SwallowAsync, MovesOn
    <2> QED
      BY <2>1, <2>2, <2>3, <2>4, <2>5, <2>6, <2>7, <2>8, <2>9, <2>10 DEF Moves, TurnStep
  <1>5. \A u \in Turns \ {t} : turns'[u] = turns[u]
    BY StepsGoOn, LooksGoesOn, AnswersIs
       DEF Moves, TurnStep, Steps, GoesOnSeeing, GoesOn, Ends, Becomes
  <1> QED  BY <1>4, <1>5

\* Every step is one of these.
LEMMA MovesCover ==
    ASSUME [Next]_vars
    PROVE  (\E t \in Turns : Receive(t) \/ Moves(t)) \/ Outside \/ UNCHANGED vars
  BY DEF Next, Moves, Outside

\* Faults are counted.
LEMMA FaultsCounted ==
    ASSUME Types, [Next]_vars
    PROVE  /\ Fault \/ UNCHANGED faults
           /\ faults > 0 => faults' > 0
  <1>1. ASSUME NEW t \in Turns, Receive(t) \/ Moves(t)
        PROVE  Fault \/ UNCHANGED faults
    BY <1>1 DEF Moves, TurnStep, IsDuplicate, SyncTakeoverMirror, TakeoverGate, CheckLimit,
       CheckLimitExpire, GraphInvoke, Trigger, MirrorActive, ResetFailures, BumpFailures,
       BumpFailuresExpire, Throws, SwallowAsync, ResolveIdentity, Receive, Dispatch, DispatchFails,
       GlobalCatch, bounds
  <1>2. ASSUME Outside \/ UNCHANGED vars
        PROVE  Fault \/ UNCHANGED faults
    BY <1>2 DEF Outside, Reactivate, MirrorExpires, RateExpires, FailsExpire, Restart, bounds, vars
  <1>3. Fault \/ UNCHANGED faults
    BY <1>1, <1>2, MovesCover
  <1>4. faults \in Nat
    BY DEF Types, TypeOK
  <1> QED  BY <1>3, <1>4 DEF Fault

\* A step that is no fault is one of these.
LEMMA FaultlessSteps ==
    ASSUME Types, [Next]_vars, ~Fault
    PROVE  \/ \E t \in Turns : Receive(t) \/ TurnStep(t)
           \/ Reactivate \/ MirrorExpires \/ RateExpires \/ FailsExpire \/ UNCHANGED vars
  BY MovesCover DEF Moves, Outside, DispatchFails, Throws, SwallowAsync, Restart

LEMMA PromiseStep == Types /\ PromiseIsCarried /\ [Next]_vars => PromiseIsCarried'
  <1> SUFFICES ASSUME Types, PromiseIsCarried, [Next]_vars, promised', ~(faults' > 0)
               PROVE  \E t \in Turns : turns'[t].at = "trigger"
    BY DEF PromiseIsCarried, At
  <1>1. faults \in Nat /\ faults' = 0 /\ faults = 0 /\ ~Fault
    BY FaultsCounted DEF Types, TypeOK, Fault
  <1>2. promised => \E t \in Turns : turns[t].at = "trigger"
    BY <1>1 DEF PromiseIsCarried, At
  <1>3. ASSUME NEW t \in Turns, Receive(t)
        PROVE  \E u \in Turns : turns'[u].at = "trigger"
    BY <1>2, <1>3, ReceiveIs DEF Types, Receive, history
  <1>4. ASSUME NEW t \in Turns, TurnStep(t), UNCHANGED promised, ~At(t, "trigger")
        PROVE  \E u \in Turns : turns'[u].at = "trigger"
    <2>1. \A u \in Turns \ {t} : turns'[u] = turns[u]
      BY <1>4, MovesAre DEF Types, Moves
    <2> QED  BY <1>2, <1>4, <2>1 DEF At
  <1>5. ASSUME NEW t \in Turns, Trigger(t)
        PROVE  \E u \in Turns : turns'[u].at = "trigger"
    BY <1>1, <1>5 DEF Trigger
  <1>6. ASSUME NEW t \in Turns, Dispatch(t)
        PROVE  \E u \in Turns : turns'[u].at = "trigger"
    <2>1. Shown(t, turns[t].action, 1)
      BY <1>1, <1>6 DEF Dispatch
    <2>2. CASE turns[t].action \in {"handed_off", "takeover"}
      <3>1. turns' = [turns EXCEPT ![t] = [Idle EXCEPT !.at = "trigger"]]
        BY <1>6, <2>2 DEF Dispatch, PostTurn
      <3> QED  BY <3>1, SpawnIs DEF Types, Background
    <2>3. CASE turns[t].action \notin {"handed_off", "takeover"}
      <3>1. UNCHANGED promised
        BY <2>1, <2>3 DEF Shown, Types, TypeOK
      <3>2. TurnStep(t) /\ ~At(t, "trigger")
        BY <1>6 DEF TurnStep, Dispatch, At
      <3> QED  BY <1>4, <3>1, <3>2
    <2> QED  BY <2>2, <2>3
  <1>7. ASSUME NEW t \in Turns, GlobalCatch(t)
        PROVE  \E u \in Turns : turns'[u].at = "trigger"
    <2>1. Shown(t, "error", 1)
      BY <1>1, <1>7 DEF GlobalCatch
    <2>2. UNCHANGED promised
      BY <2>1 DEF Shown, Types, TypeOK
    <2>3. TurnStep(t) /\ ~At(t, "trigger")
      BY <1>7 DEF TurnStep, GlobalCatch, At
    <2> QED  BY <1>4, <2>2, <2>3
  <1>8. ASSUME NEW t \in Turns, TurnStep(t), ~Trigger(t), ~Dispatch(t), ~GlobalCatch(t)
        PROVE  \E u \in Turns : turns'[u].at = "trigger"
    <2>1. UNCHANGED promised /\ ~At(t, "trigger")
      BY <1>8 DEF TurnStep, IsDuplicate, SyncTakeoverMirror, TakeoverGate, CheckLimit,
         CheckLimitExpire, GraphInvoke, MirrorActive, ResetFailures, BumpFailures,
         BumpFailuresExpire, ResolveIdentity, history, At
    <2> QED  BY <1>4, <1>8, <2>1
  <1>9. CASE Reactivate \/ MirrorExpires \/ RateExpires \/ FailsExpire \/ UNCHANGED vars
    BY <1>2, <1>9 DEF Reactivate, MirrorExpires, RateExpires, FailsExpire, vars, history
  <1> QED  BY <1>1, <1>3, <1>5, <1>6, <1>7, <1>8, <1>9, FaultlessSteps

\* However the turns, their tasks and the faults interleave: as long as nothing failed, whoever
\* was promised a human and has none yet is the concern of a task that has not called yet.
THEOREM PromisesAreCarried == Spec => []PromiseIsCarried
  <1>1. Init => PromiseIsCarried
    BY DEF Init, PromiseIsCarried
  <1> QED  BY <1>1, InitTypes, TypesStep, PromiseStep, PTL DEF Spec

\* With the counter at the threshold, a task carries it, which at bump_expire is of a
\* threshold of one.
ThresholdInv ==
    faults = 0 /\ fails.count >= FAILS_THRESHOLD =>
        \E t \in Turns : \/ turns[t].at \in {"trigger", "mirror", "reset"}
                         \/ turns[t].at = "bump_expire" /\ FAILS_THRESHOLD = 1

LEMMA ThresholdStep == Types /\ ThresholdInv /\ [Next]_vars => ThresholdInv'
  <1> DEFINE Carries(a) == \/ a \in {"trigger", "mirror", "reset"}
                           \/ a = "bump_expire" /\ FAILS_THRESHOLD = 1
  <1> SUFFICES ASSUME Types, ThresholdInv, [Next]_vars,
                      faults' = 0, fails'.count >= FAILS_THRESHOLD
               PROVE  \E t \in Turns : Carries(turns'[t].at)
    BY DEF ThresholdInv
  <1>1. faults \in Nat /\ faults = 0 /\ ~Fault
    BY FaultsCounted DEF Types, TypeOK, Fault
  <1>2. fails.count >= FAILS_THRESHOLD => \E t \in Turns : Carries(turns[t].at)
    BY <1>1 DEF ThresholdInv
  <1>3. /\ FAILS_THRESHOLD \in Nat \ {0} /\ fails \in Counters /\ fails.count \in Nat
        /\ NoKey.count = 0
    BY ConstantsOK, NoKeyType DEF ConstantsOK, Types, TypeOK, Counters
  <1> HIDE DEF Carries
  <1>4. fails' # NoKey
    BY <1>3
  <1>5. ASSUME NEW t \in Turns, UNCHANGED fails, Receive(t)
        PROVE  \E u \in Turns : Carries(turns'[u].at)
    <2>1. PICK u \in Turns : Carries(turns[u].at)
      BY <1>2, <1>5
    <2>2. u # t
      BY <1>5, <2>1, ReceiveIs DEF Types, Carries
    <2> QED  BY <1>5, <2>1, <2>2, ReceiveIs DEF Types
  <1>6. ASSUME NEW t \in Turns, TurnStep(t)
        PROVE  \E u \in Turns : Carries(turns'[u].at)
    <2>1. MovesOn(t) /\ \A u \in Turns \ {t} : turns'[u] = turns[u]
      BY <1>6, MovesAre DEF Types, Moves
    <2>2. CASE BumpFailures(t)
      <3>1. fails'.count = fails.count + 1
        BY <1>3, <2>2 DEF BumpFailures, Counters
      <3>2. CASE fails.count = 0
        <4>1. turns'[t].at = "bump_expire"
          BY <2>2, <3>2, ToIs DEF BumpFailures, Types, Places, Background
        <4>2. FAILS_THRESHOLD = 1
          BY <1>3, <3>1, <3>2
        <4> QED  BY <4>1, <4>2 DEF Carries
      <3>3. CASE fails.count # 0
        <4>1. turns'[t].at = "trigger"
          BY <1>3, <2>2, <3>1, <3>3, ToIs DEF BumpFailures, Types, Places, Background
        <4> QED  BY <4>1 DEF Carries
      <3> QED  BY <3>2, <3>3
    <2>3. CASE BumpFailuresExpire(t)
      <3>1. fails'.count = fails.count
        BY <1>3, <2>3 DEF BumpFailuresExpire, Counters
      <3>2. PICK u \in Turns : Carries(turns[u].at)
        BY <1>2, <3>1
      <3>3. CASE u = t
        <4>1. FAILS_THRESHOLD = 1
          BY <2>3, <3>2, <3>3 DEF Carries, BumpFailuresExpire, At
        <4>2. turns'[t].at = "trigger"
          BY <2>3, <4>1, ToIs DEF BumpFailuresExpire, Types, Places, Background
        <4> QED  BY <4>2 DEF Carries
      <3>4. CASE u # t
        BY <2>1, <3>2, <3>4
      <3> QED  BY <3>3, <3>4
    <2>4. CASE UNCHANGED fails /\ ~BumpFailuresExpire(t)
      <3>1. PICK u \in Turns : Carries(turns[u].at)
        BY <1>2, <2>4
      <3>2. CASE u = t
        <4>1. turns[t].at # "bump_expire" /\ turns[t].at # "reset"
          BY <1>4, <1>6, <2>4
             DEF TurnStep, IsDuplicate, SyncTakeoverMirror, TakeoverGate, CheckLimit,
                 CheckLimitExpire, GraphInvoke, Trigger, MirrorActive, ResetFailures,
                 BumpFailures, ResolveIdentity, Dispatch, GlobalCatch, At
        <4>2. turns'[t].at \in {"mirror", "reset"}
          <5>1. CASE Trigger(t)
            BY <5>1, ToIs DEF Trigger, Types, Places, Background
          <5>2. CASE MirrorActive(t)
            BY <5>2, ToIs DEF MirrorActive, Types, Places, Background
          <5> QED
            BY <1>6, <2>4, <3>1, <3>2, <4>1, <5>1, <5>2
               DEF Carries, TurnStep, IsDuplicate, SyncTakeoverMirror, TakeoverGate, CheckLimit,
                   CheckLimitExpire, GraphInvoke, ResetFailures,
                   BumpFailures, ResolveIdentity, Dispatch, GlobalCatch, At
        <4> QED  BY <4>2 DEF Carries
      <3>3. CASE u # t
        BY <2>1, <3>1, <3>3
      <3> QED  BY <3>2, <3>3
    <2>5. ~ResetFailures(t)
      BY <1>4 DEF ResetFailures
    <2>6. BumpFailures(t) \/ BumpFailuresExpire(t) \/ UNCHANGED fails
      BY <1>6, <2>5
         DEF TurnStep, IsDuplicate, SyncTakeoverMirror, TakeoverGate, CheckLimit,
             CheckLimitExpire, GraphInvoke, Trigger, MirrorActive,
             ResolveIdentity, Dispatch, GlobalCatch, redis
    <2> QED  BY <2>2, <2>3, <2>4, <2>6
  <1>7. CASE Reactivate \/ MirrorExpires \/ RateExpires \/ UNCHANGED vars
    BY <1>2, <1>7 DEF Reactivate, MirrorExpires, RateExpires, vars, redis
  <1>8. ~FailsExpire
    BY <1>4 DEF FailsExpire
  <1>9. \A t \in Turns : Receive(t) => UNCHANGED fails
    BY DEF Receive, redis
  <1>10. \E u \in Turns : Carries(turns'[u].at)
    BY <1>1, <1>5, <1>6, <1>7, <1>8, <1>9, FaultlessSteps
  <1> QED  BY <1>10

\* Without a fault the failure counter is never left at the threshold: a task that goes
\* through the call to the reset, or is about to, is on its way.
THEOREM ThresholdsAreCarried == Spec => []ThresholdIsCarried
  <1>1. Init => ThresholdInv
    BY NoKeyType, ConstantsOK DEF ConstantsOK, Init, ThresholdInv
  <1>2. ThresholdInv => ThresholdIsCarried
    BY DEF ThresholdInv, ThresholdIsCarried
  <1> QED  BY <1>1, <1>2, InitTypes, TypesStep, ThresholdStep, PTL DEF Spec

-----------------------------------------------------------------------------
(* The turn ends.                                                          *)

LEMMA LeftRange == \A t \in Turns : Left(t) \in 0..13 /\ Left(t)' \in 0..13
  BY DEF Left, At

LEMMA MovesShrink ==
    ASSUME Types, NEW t \in Turns, Moves(t)
    PROVE  Left(t)' < Left(t)
  <1>1. MovesOn(t)
    BY MovesAre DEF Types
  <1>2. turns[t].at \in {"idle"} \cup Foreground \cup Background
    BY DEF Types, TypeOK, TurnRecords
  <1> QED  BY <1>1, <1>2 DEF MovesOn, Left, At, Foreground, Background

LEMMA ShrinksStep ==
    ASSUME Types, [Next]_vars, NEW t \in Turns
    PROVE  /\ TurnStep(t) => Left(t)' < Left(t)
           /\ ~At(t, "idle") => Left(t)' <= Left(t)
  <1>1. TurnStep(t) => Left(t)' < Left(t)
    BY MovesShrink DEF Moves
  <1>2. ASSUME UNCHANGED (turns[t].at)
        PROVE  Left(t)' <= Left(t)
    <2>1. Left(t)' = Left(t)
      BY <1>2 DEF Left, At
    <2> QED  BY <2>1, LeftRange
  <1>3. ASSUME NEW u \in Turns, Receive(u), ~At(t, "idle")
        PROVE  Left(t)' <= Left(t)
    BY <1>2, <1>3, ReceiveIs DEF Types, At
  <1>4. ASSUME NEW u \in Turns, Moves(u)
        PROVE  Left(t)' <= Left(t)
    <2>1. CASE u = t
      BY <1>4, <2>1, MovesShrink, LeftRange
    <2>2. CASE u # t
      BY <1>2, <1>4, <2>2, MovesAre DEF Types
    <2> QED  BY <2>1, <2>2
  <1>5. CASE Restart
    <2>1. turns'[t].at = "idle"
      BY <1>5, IdleType DEF Restart
    <2>2. Left(t)' = 0
      BY <2>1 DEF Left, At
    <2> QED  BY <1>1, <2>2, LeftRange
  <1>6. CASE Reactivate \/ MirrorExpires \/ RateExpires \/ FailsExpire \/ UNCHANGED vars
    BY <1>1, <1>2, <1>6 DEF Reactivate, MirrorExpires, RateExpires, FailsExpire, vars
  <1> QED  BY <1>1, <1>3, <1>4, <1>5, <1>6, MovesCover DEF Outside

\* A turn and its post-turn task are over after thirteen steps of theirs, whatever the other
\* turns, the failures and the restarts do meanwhile.
THEOREM TurnsShrink == Spec => TurnShrinks /\ [](\A t \in Turns : Left(t) \in 0..13)
  <1>1. Types /\ [Next]_vars =>
          [\A t \in Turns : /\ TurnStep(t) => Left(t)' < Left(t)
                            /\ ~At(t, "idle") => Left(t)' <= Left(t)]_vars
    BY ShrinksStep
  <1>2. \A t \in Turns : Left(t) \in 0..13
    BY LeftRange
  <1> QED  BY <1>1, <1>2, TypesHold, PTL DEF Spec, TurnShrinks

=============================================================================
