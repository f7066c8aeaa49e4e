--------------------------- MODULE OutboundProofs ---------------------------
(***************************************************************************)
(* Proofs about Outbound: types, the number of copies a message with a key *)
(* may have, and what a 200 with an id means, for any number of requests   *)
(* and messages.                                                           *)
(***************************************************************************)
EXTENDS Outbound, TLAPS

\* The bounds are numbers.
LEMMA BoundsType == ConstantsOK => MaxPosts \in Nat /\ MaxFaults \in Nat /\ MAX_RETRIES \in Nat
BY DEF ConstantsOK

\* A request that has not reached Meta has delivered nothing and attempted once at most; one
\* whose last attempt was delivered has delivered a copy.
Fresh ==
    \A r \in Requests :
        /\ reqs[r].at \in {"idle", "service", "adapter"} =>
             reqs[r].attempt = 0 /\ reqs[r].copies = 0
        /\ reqs[r].at \in {"idle", "service"} \cup Sending => reqs[r].status = "none"
        /\ reqs[r].at = "meta" /\ reqs[r].delivered => reqs[r].copies >= 1

\* The request that registered a key is the only one that sends its message, and what was
\* delivered under the key are the attempts of that request.
OneSender ==
    /\ \A r, q \in Requests :
         /\ reqs[r].at \in Sending /\ reqs[q].at \in Sending
         /\ reqs[r].msg = reqs[q].msg /\ reqs[r].msg \in Keyed
         => r = q
    /\ \A r \in Requests :
         reqs[r].at \in Sending /\ reqs[r].msg \in Keyed =>
            /\ reqs[r].msg \in dedup
            /\ reqs[r].at # "meta" => copies[reqs[r].msg] <= reqs[r].attempt
            /\ reqs[r].at = "meta" => copies[reqs[r].msg] <= reqs[r].attempt + 1
    /\ \A m \in Keyed \ dedup : copies[m] = 0

IInv == ConstantsOK /\ TypeOK /\ Fresh /\ OneSender /\ CopiesAreBounded /\ AcknowledgedWasDelivered

LEMMA InitInv == ConstantsOK /\ Init => IInv
<1> SUFFICES ASSUME ConstantsOK, Init PROVE IInv
  OBVIOUS
<1> USE DEF ConstantsOK, Init, Idle, Sending, Statuses, RequestRecords
<1>1. TypeOK
  BY BoundsType DEF TypeOK
<1>2. Fresh /\ OneSender /\ CopiesAreBounded /\ AcknowledgedWasDelivered
  BY BoundsType DEF Fresh, OneSender, CopiesAreBounded, AcknowledgedWasDelivered
<1> QED BY <1>1, <1>2 DEF IInv

-----------------------------------------------------------------------------
(* What a step does to the records.                                        *)

\* The record of one request changes, the others stay.
LEMMA OneRecord ==
    ASSUME TypeOK, NEW r \in Requests, NEW x, reqs' = [reqs EXCEPT ![r] = x]
    PROVE  reqs'[r] = x /\ \A q \in Requests \ {r} : reqs'[q] = reqs[q]
BY DEF TypeOK

LEMMA GoesIs ==
    ASSUME TypeOK, NEW r \in Requests, NEW n, Goes(r, n)
    PROVE  reqs' = [reqs EXCEPT ![r] = [reqs[r] EXCEPT !.at = n]]
BY DEF TypeOK, Goes

LEMMA ConcludesIs ==
    ASSUME TypeOK, NEW r \in Requests, NEW s, Concludes(r, s)
    PROVE  reqs' = [reqs EXCEPT ![r] = [reqs[r] EXCEPT !.at = "answer", !.status = s]]
BY DEF TypeOK, Concludes

\* A request that ends, or turns idle, and sends nothing disturbs nothing.
LEMMA EndsInv ==
    ASSUME IInv, NEW r \in Requests, NEW x, reqs' = [reqs EXCEPT ![r] = x],
           x \in RequestRecords, x.at \in {"idle", "service", "answer"},
           x.at # "idle" => x.msg \in Messages,
           x.at # "answer" => x.attempt = 0 /\ x.copies = 0 /\ x.status = "none",
           x.status = "sent" => x.copies >= 1,
           dedup' \in SUBSET Keyed, dedup \subseteq dedup',
           copies' = copies, posts' \in 0..MaxPosts, faults' \in 0..MaxFaults
    PROVE  IInv'
<1> USE DEF IInv
<1>1. reqs'[r] = x /\ \A q \in Requests \ {r} : reqs'[q] = reqs[q]
  BY OneRecord
<1>2. TypeOK'
  BY <1>1 DEF TypeOK
<1>3. Fresh'
  BY <1>1 DEF Fresh, Sending
<1>4. OneSender'
  <2>1. reqs'[r].at \notin Sending
    BY <1>1 DEF Sending
  <2>2. \A q \in Requests : reqs'[q].at \in Sending => q # r /\ reqs'[q] = reqs[q]
    BY <1>1, <2>1
  <2> QED BY <2>2 DEF OneSender
<1>5. CopiesAreBounded' /\ AcknowledgedWasDelivered'
  BY <1>1 DEF CopiesAreBounded, AcknowledgedWasDelivered
<1> QED BY <1>2, <1>3, <1>4, <1>5

\* Another record of the same message, with as many attempts or more, in a sending request.
LEMMA SendsInv ==
    ASSUME IInv, NEW r \in Requests, NEW x, reqs' = [reqs EXCEPT ![r] = x],
           x \in RequestRecords, x.msg = reqs[r].msg, x.at \in Sending, x.status = "none",
           x.at = "adapter" => x.attempt = 0 /\ x.copies = 0,
           x.at = "meta" /\ x.delivered => x.copies >= 1,
           reqs[r].at \in Sending,
           dedup' = dedup, copies' \in [Messages -> Nat],
           \A m \in Messages \ {x.msg} : copies'[m] = copies[m],
           x.msg \in Keyed => /\ x.at # "meta" => copies'[x.msg] <= x.attempt
                              /\ x.at = "meta" => copies'[x.msg] <= x.attempt + 1,
           UNCHANGED bounds
    PROVE  IInv'
<1> USE DEF IInv
<1>1. reqs'[r] = x /\ \A q \in Requests \ {r} : reqs'[q] = reqs[q]
  BY OneRecord
<1>2. x.msg \in Messages
  BY DEF TypeOK, Sending
<1>3. TypeOK'
  BY <1>1, <1>2 DEF TypeOK, bounds
<1>4. Fresh'
  BY <1>1 DEF Fresh, Sending
<1>5. OneSender'
  <2>1. \A q \in Requests : /\ reqs'[q].msg = reqs[q].msg
                            /\ reqs'[q].at \in Sending <=> reqs[q].at \in Sending
    BY <1>1
  <2>2. ASSUME NEW q \in Requests, reqs'[q].at \in Sending, reqs'[q].msg \in Keyed
        PROVE  /\ reqs'[q].msg \in dedup'
               /\ reqs'[q].at # "meta" => copies'[reqs'[q].msg] <= reqs'[q].attempt
               /\ reqs'[q].at = "meta" => copies'[reqs'[q].msg] <= reqs'[q].attempt + 1
    <3>1. reqs'[q].msg \in dedup
      BY <2>1, <2>2 DEF OneSender
    <3>2. CASE q = r
      BY <1>1, <2>2, <3>1, <3>2
    <3>3. CASE q # r
      <4>1. reqs[q].msg # x.msg
        BY <2>1, <2>2, <3>3 DEF OneSender
      <4>2. copies'[reqs[q].msg] = copies[reqs[q].msg] /\ reqs'[q] = reqs[q]
        BY <1>1, <2>1, <2>2, <3>3, <4>1 DEF TypeOK, Sending
      <4> QED BY <2>2, <3>1, <4>2 DEF OneSender
    <3> QED BY <3>2, <3>3
  <2>3. \A m \in Keyed \ dedup' : copies'[m] = 0
    BY <1>2 DEF OneSender, ConstantsOK
  <2> QED BY <2>1, <2>2, <2>3 DEF OneSender
<1>6. CopiesAreBounded'
  <2> SUFFICES ASSUME NEW m \in Keyed PROVE copies'[m] <= MAX_RETRIES + 1
    BY DEF CopiesAreBounded
  <2>1. CASE m = x.msg
    <3>1. copies'[m] \in Nat /\ x.attempt \in 0..MAX_RETRIES /\ MAX_RETRIES \in Nat
      BY <1>2, <2>1 DEF RequestRecords, ConstantsOK
    <3>2. copies'[m] <= x.attempt + 1
      BY <2>1, <3>1
    <3> QED BY <3>1, <3>2
  <2>2. CASE m # x.msg
    BY <2>2 DEF CopiesAreBounded, ConstantsOK
  <2> QED BY <2>1, <2>2
<1>7. AcknowledgedWasDelivered'
  BY <1>1 DEF AcknowledgedWasDelivered
<1> QED BY <1>3, <1>4, <1>5, <1>6, <1>7

-----------------------------------------------------------------------------
(* The steps.                                                              *)

LEMMA ClaimInv == ASSUME IInv, NEW r \in Requests, Claim(r) PROVE IInv'
<1> DEFINE m == reqs[r].msg
<1> USE DEF IInv
<1>1. m \in Messages /\ reqs[r] \in RequestRecords /\ reqs[r].at = "service"
  BY DEF Claim, TypeOK
<1>2. CASE m \in dedup
  <2> DEFINE x == [reqs[r] EXCEPT !.at = "answer", !.status = "duplicate"]
  <2>1. reqs' = [reqs EXCEPT ![r] = x]
    BY <1>2, ConcludesIs DEF Claim
  <2>2. /\ x \in RequestRecords /\ x.at = "answer" /\ x.msg = m /\ x.status = "duplicate"
    BY <1>1 DEF RequestRecords, Statuses
  <2>3. /\ dedup' \in SUBSET Keyed /\ dedup \subseteq dedup' /\ copies' = copies
        /\ posts' \in 0..MaxPosts /\ faults' \in 0..MaxFaults
    BY DEF Claim, TypeOK, bounds
  <2> HIDE DEF x
  <2> QED BY <1>1, <2>1, <2>2, <2>3, EndsInv
<1>3. CASE m \notin dedup
  <2> DEFINE x == [reqs[r] EXCEPT !.at = "adapter"]
  <2>1. reqs' = [reqs EXCEPT ![r] = x]
    BY <1>3, GoesIs DEF Claim
  <2>2. /\ x \in RequestRecords /\ x.at = "adapter" /\ x.msg = m
        /\ x.status = "none" /\ x.attempt = 0 /\ x.copies = 0
    BY <1>1 DEF RequestRecords, Sending, Fresh
  <2> HIDE DEF x
  <2>3. reqs'[r] = x /\ \A q \in Requests \ {r} : reqs'[q] = reqs[q]
    BY <2>1, OneRecord
  <2>4. copies' = copies /\ dedup' = (IF m \in Keyed THEN dedup \cup {m} ELSE dedup)
        /\ UNCHANGED bounds
    BY DEF Claim
  <2>5. TypeOK'
    <3>1. reqs' \in [Requests -> RequestRecords]
      BY <2>1, <2>2 DEF TypeOK
    <3>2. \A q \in Requests : reqs'[q].at # "idle" => reqs'[q].msg \in Messages
      BY <1>1, <2>2, <2>3 DEF TypeOK
    <3> QED BY <2>4, <3>1, <3>2 DEF TypeOK, bounds
  <2>6. Fresh'
    BY <2>2, <2>3 DEF Fresh, Sending
  <2>7. OneSender'
    <3>1. \A q \in Requests \ {r} :
             reqs[q].at \in Sending /\ reqs[q].msg \in Keyed => reqs[q].msg # m
      BY <1>3 DEF OneSender
    <3>2. \A q \in Requests :
            reqs'[q].at \in Sending /\ reqs'[q].msg \in Keyed => reqs'[q].msg \in dedup'
      BY <2>2, <2>3, <2>4 DEF OneSender
    <3>3. m \in Keyed => copies[m] = 0
      BY <1>3 DEF OneSender
    <3>4. \A p, q \in Requests :
            /\ reqs'[p].at \in Sending /\ reqs'[q].at \in Sending
            /\ reqs'[p].msg = reqs'[q].msg /\ reqs'[p].msg \in Keyed
            => p = q
      BY <2>2, <2>3, <3>1 DEF OneSender
    <3>5. \A q \in Requests :
            reqs'[q].at \in Sending /\ reqs'[q].msg \in Keyed =>
              /\ reqs'[q].at # "meta" => copies'[reqs'[q].msg] <= reqs'[q].attempt
              /\ reqs'[q].at = "meta" => copies'[reqs'[q].msg] <= reqs'[q].attempt + 1
      BY <2>2, <2>3, <2>4, <3>3 DEF OneSender
    <3>6. \A k \in Keyed \ dedup' : copies'[k] = 0
      BY <2>4 DEF OneSender
    <3> QED BY <3>2, <3>4, <3>5, <3>6 DEF OneSender
  <2>8. CopiesAreBounded' /\ AcknowledgedWasDelivered'
    BY <2>2, <2>3, <2>4 DEF CopiesAreBounded, AcknowledgedWasDelivered
  <2> QED BY <2>5, <2>6, <2>7, <2>8
<1> QED BY <1>2, <1>3

LEMMA AttemptInv == ASSUME IInv, NEW r \in Requests, Attempt(r) PROVE IInv'
<1> DEFINE m == reqs[r].msg
           sent == [reqs[r] EXCEPT !.at = "meta", !.delivered = TRUE, !.copies = @ + 1]
           lost == [reqs[r] EXCEPT !.at = "meta", !.delivered = FALSE]
<1> USE DEF IInv
<1>1. m \in Messages /\ reqs[r] \in RequestRecords /\ reqs[r].at = "post"
      /\ reqs[r].status = "none" /\ copies \in [Messages -> Nat]
  BY DEF Attempt, TypeOK, Fresh, Sending
<1>2. m \in Keyed => copies[m] <= reqs[r].attempt
  BY <1>1 DEF OneSender, Sending
<1>3. dedup' = dedup /\ UNCHANGED bounds
  BY DEF Attempt
<1>4. CASE /\ reqs' = [reqs EXCEPT ![r] = sent]
           /\ copies' = [copies EXCEPT ![m] = @ + 1]
  <2>1. /\ sent \in RequestRecords /\ sent.at = "meta" /\ sent.msg = m /\ sent.status = "none"
        /\ sent.copies >= 1 /\ sent.attempt = reqs[r].attempt
    <3>1. reqs[r].copies + 1 \in Nat /\ reqs[r].copies + 1 >= 1
      BY <1>1 DEF RequestRecords
    <3>2. sent.copies = reqs[r].copies + 1
      BY <1>1 DEF RequestRecords
    <3>3. sent \in RequestRecords
      BY <1>1, <3>1 DEF RequestRecords, Sending
    <3> QED BY <1>1, <3>1, <3>2, <3>3 DEF RequestRecords
  <2>2. /\ copies' \in [Messages -> Nat] /\ \A k \in Messages \ {m} : copies'[k] = copies[k]
        /\ copies'[m] = copies[m] + 1
    BY <1>1, <1>4
  <2>3. m \in Keyed => copies'[m] <= reqs[r].attempt + 1
    BY <1>1, <1>2, <2>2 DEF RequestRecords
  <2> HIDE DEF sent
  <2> QED BY <1>1, <1>3, <1>4, <2>1, <2>2, <2>3, SendsInv DEF Sending
<1>5. CASE reqs' = [reqs EXCEPT ![r] = lost] /\ UNCHANGED copies
  <2>1. /\ lost \in RequestRecords /\ lost.at = "meta" /\ lost.msg = m /\ lost.status = "none"
        /\ ~lost.delivered /\ lost.attempt = reqs[r].attempt
    BY <1>1 DEF RequestRecords, Sending
  <2>2. m \in Keyed => copies'[m] <= reqs[r].attempt + 1
    BY <1>1, <1>2, <1>5 DEF RequestRecords
  <2> HIDE DEF lost
  <2> QED BY <1>1, <1>3, <1>5, <2>1, <2>2, SendsInv DEF Sending
<1>6. \/ reqs' = [reqs EXCEPT ![r] = sent] /\ copies' = [copies EXCEPT ![m] = @ + 1]
      \/ reqs' = [reqs EXCEPT ![r] = lost] /\ UNCHANGED copies
  BY <1>1 DEF Attempt, TypeOK
<1> QED BY <1>4, <1>5, <1>6

LEMMA RetryInv ==
    ASSUME IInv, NEW r \in Requests, reqs[r].at = "meta", reqs[r].attempt # MAX_RETRIES,
           reqs' = [reqs EXCEPT ![r].at = "post", ![r].attempt = @ + 1],
           UNCHANGED <<dedup, copies, bounds>>
    PROVE  IInv'
<1> DEFINE x == [reqs[r] EXCEPT !.at = "post", !.attempt = @ + 1]
<1> USE DEF IInv
<1>1. reqs[r].msg \in Messages /\ reqs[r] \in RequestRecords /\ reqs[r].status = "none"
      /\ copies \in [Messages -> Nat]
  BY DEF TypeOK, Fresh, Sending
<1>2. reqs[r].attempt + 1 \in 0..MAX_RETRIES
  BY <1>1, BoundsType DEF RequestRecords
<1>3. /\ x \in RequestRecords /\ x.at = "post" /\ x.msg = reqs[r].msg /\ x.status = "none"
      /\ x.attempt = reqs[r].attempt + 1
  BY <1>1, <1>2 DEF RequestRecords, Sending
<1>4. reqs[r].msg \in Keyed => copies[reqs[r].msg] <= reqs[r].attempt + 1
  BY DEF OneSender, Sending
<1>5. reqs' = [reqs EXCEPT ![r] = x]
  BY DEF TypeOK
<1> HIDE DEF x
<1> QED BY <1>1, <1>3, <1>4, <1>5, SendsInv DEF Sending

LEMMA ConcludesInv ==
    ASSUME IInv, NEW r \in Requests, reqs[r].at # "idle", NEW s \in Statuses, Concludes(r, s),
           s = "sent" => reqs[r].copies >= 1,
           dedup' \in SUBSET Keyed, dedup \subseteq dedup', UNCHANGED <<copies, posts>>,
           faults' \in 0..MaxFaults
    PROVE  IInv'
<1> DEFINE x == [reqs[r] EXCEPT !.at = "answer", !.status = s]
<1> USE DEF IInv
<1>1. reqs' = [reqs EXCEPT ![r] = x]
  BY ConcludesIs
<1>2. reqs[r] \in RequestRecords /\ reqs[r].msg \in Messages /\ posts' \in 0..MaxPosts
  BY DEF TypeOK
<1>3. /\ x \in RequestRecords /\ x.at = "answer" /\ x.msg \in Messages
      /\ x.status = "sent" => x.copies >= 1
  BY <1>2 DEF RequestRecords
<1> HIDE DEF x
<1> QED BY <1>1, <1>2, <1>3, EndsInv

LEMMA StepInv == ASSUME IInv, NEW r \in Requests, Step(r) PROVE IInv'
<1>1. reqs[r] \in RequestRecords /\ dedup \subseteq Keyed /\ faults \in 0..MaxFaults
      /\ posts \in 0..MaxPosts
  BY DEF IInv, TypeOK
<1>2. CASE Reject(r)
  BY <1>1, <1>2, ConcludesInv DEF Reject, bounds, Statuses
<1>3. CASE Claim(r)
  BY <1>3, ClaimInv
<1>4. CASE ClaimFails(r)
  <2>1. dedup' \in SUBSET Keyed /\ dedup \subseteq dedup' /\ reqs[r].at # "idle"
    BY <1>1, <1>4 DEF ClaimFails
  <2>2. faults' \in 0..MaxFaults
    BY <1>1, <1>4, BoundsType DEF ClaimFails, IInv
  <2> QED BY <1>4, <2>1, <2>2, ConcludesInv DEF ClaimFails, Statuses
<1>5. CASE SendProactive(r)
  <2>1. CASE Concludes(r, "rejected")
    BY <1>1, <1>5, <2>1, ConcludesInv DEF SendProactive, bounds, Statuses
  <2>2. CASE Goes(r, "post")
    <3> DEFINE x == [reqs[r] EXCEPT !.at = "post"]
    <3>1. reqs' = [reqs EXCEPT ![r] = x]
      BY <2>2, GoesIs DEF IInv
    <3>2. /\ x \in RequestRecords /\ x.at = "post" /\ x.msg = reqs[r].msg
          /\ x.status = reqs[r].status /\ x.attempt = reqs[r].attempt
      BY <1>1 DEF RequestRecords, Sending
    <3>3. reqs[r].status = "none" /\ reqs[r].at \in Sending
      BY <1>5 DEF SendProactive, IInv, Fresh, Sending
    <3>4. reqs[r].msg \in Keyed => copies'[reqs[r].msg] <= reqs[r].attempt
      BY <1>5, <3>3 DEF SendProactive, IInv, OneSender
    <3>5. copies' \in [Messages -> Nat] /\ copies' = copies /\ dedup' = dedup /\ UNCHANGED bounds
      BY <1>5 DEF SendProactive, IInv, TypeOK
    <3> HIDE DEF x
    <3> QED BY <3>1, <3>2, <3>3, <3>4, <3>5, SendsInv DEF Sending
  <2> QED BY <1>5, <2>1, <2>2 DEF SendProactive
<1>6. CASE Attempt(r)
  BY <1>6, AttemptInv
<1>7. CASE MetaAccepts(r)
  <2>1. reqs[r].copies >= 1
    BY <1>7 DEF MetaAccepts, IInv, Fresh
  <2> QED BY <1>1, <1>7, <2>1, ConcludesInv DEF MetaAccepts, bounds, Statuses
<1>8. CASE MetaRefuses(r)
  BY <1>1, <1>8, ConcludesInv DEF MetaRefuses, bounds, Statuses
<1>9. CASE MetaUnanswered(r)
  <2>1. CASE reqs[r].attempt = MAX_RETRIES
    BY <1>1, <1>9, <2>1, ConcludesInv DEF MetaUnanswered, bounds, Statuses
  <2>2. CASE reqs[r].attempt # MAX_RETRIES
    BY <1>9, <2>2, RetryInv DEF MetaUnanswered
  <2> QED BY <2>1, <2>2
<1>10. CASE Answer(r)
  <2>1. /\ Idle \in RequestRecords /\ Idle.at = "idle" /\ Idle.attempt = 0 /\ Idle.copies = 0
        /\ Idle.status = "none"
    BY BoundsType DEF IInv, Idle, RequestRecords, Statuses
  <2>2. /\ reqs' = [reqs EXCEPT ![r] = Idle] /\ dedup' = dedup /\ copies' = copies
        /\ posts' = posts /\ faults' = faults
    BY <1>10 DEF Answer, bounds
  <2> QED BY <1>1, <2>1, <2>2, EndsInv
<1> QED BY <1>2, <1>3, <1>4, <1>5, <1>6, <1>7, <1>8, <1>9, <1>10 DEF Step

LEMMA PostInv ==
    ASSUME IInv, NEW r \in Requests, NEW m \in Messages, Post(r, m) PROVE IInv'
<1> DEFINE x == [reqs[r] EXCEPT !.at = "service", !.msg = m]
<1>1. reqs' = [reqs EXCEPT ![r] = x]
  BY DEF Post, IInv, TypeOK
<1>2. /\ reqs[r] \in RequestRecords /\ reqs[r].at = "idle" /\ reqs[r].status = "none"
      /\ reqs[r].attempt = 0 /\ reqs[r].copies = 0
  BY DEF Post, IInv, TypeOK, Fresh
<1>3. /\ x \in RequestRecords /\ x.at = "service" /\ x.msg = m /\ x.status = "none"
      /\ x.attempt = 0 /\ x.copies = 0
  BY <1>2 DEF RequestRecords
<1>4. /\ posts' \in 0..MaxPosts /\ faults' \in 0..MaxFaults /\ dedup' = dedup
      /\ copies' = copies /\ dedup \subseteq Keyed
  BY BoundsType DEF Post, IInv, TypeOK
<1> HIDE DEF x
<1> QED BY <1>1, <1>3, <1>4, EndsInv

LEMMA ExpireInv == ASSUME IInv, NEW m \in Messages, Expire(m) PROVE IInv'
<1> USE DEF IInv
<1>1. m \in Keyed /\ reqs' = reqs /\ UNCHANGED bounds
  BY DEF Expire, TypeOK
<1>2. copies' \in [Messages -> Nat] /\ copies'[m] = 0
      /\ \A k \in Messages \ {m} : copies'[k] = copies[k]
  BY DEF Expire, TypeOK
<1>3. TypeOK'
  BY <1>1, <1>2 DEF TypeOK, Expire, bounds
<1>4. Fresh' /\ AcknowledgedWasDelivered'
  BY <1>1 DEF Fresh, AcknowledgedWasDelivered
<1>5. OneSender'
  <2>1. \A r \in Requests : reqs[r].at \in Sending => reqs[r].msg \in Messages \ {m}
    BY DEF Expire, TypeOK, Sending
  <2>2. \A r \in Requests :
          reqs'[r].at \in Sending /\ reqs'[r].msg \in Keyed =>
            /\ reqs'[r].msg \in dedup' /\ copies'[reqs'[r].msg] = copies[reqs[r].msg]
    BY <1>1, <1>2, <2>1 DEF OneSender, Expire
  <2>3. \A k \in Keyed \ dedup' : copies'[k] = 0
    BY <1>2 DEF OneSender, Expire, ConstantsOK
  <2> QED BY <1>1, <2>2, <2>3 DEF OneSender
<1>6. CopiesAreBounded'
  BY <1>2 DEF CopiesAreBounded, ConstantsOK
<1> QED BY <1>3, <1>4, <1>5, <1>6

LEMMA CrashInv == ASSUME IInv, Crash PROVE IInv'
<1> USE DEF IInv
<1>1. \A r \in Requests : reqs'[r] = Idle
  BY DEF Crash
<1>2. /\ Idle \in RequestRecords /\ Idle.at = "idle" /\ Idle.attempt = 0 /\ Idle.copies = 0
      /\ Idle.status = "none"
  BY BoundsType DEF Idle, RequestRecords, Statuses
<1>3. dedup' = dedup /\ copies' = copies /\ posts' = posts /\ faults' \in 0..MaxFaults
  BY BoundsType DEF Crash, TypeOK
<1>4. TypeOK'
  <2>1. reqs' \in [Requests -> RequestRecords]
    BY <1>2 DEF Crash
  <2> QED BY <1>1, <1>2, <1>3, <2>1 DEF TypeOK
<1>5. Fresh' /\ OneSender' /\ CopiesAreBounded' /\ AcknowledgedWasDelivered'
  BY <1>1, <1>2, <1>3 DEF Fresh, OneSender, CopiesAreBounded, AcknowledgedWasDelivered, Sending
<1> QED BY <1>4, <1>5

LEMMA NextInv == IInv /\ [Next]_vars => IInv'
<1> SUFFICES ASSUME IInv, [Next]_vars PROVE IInv'
  OBVIOUS
<1>1. CASE UNCHANGED vars
  BY <1>1 DEF vars, bounds, IInv, TypeOK, Fresh, OneSender, CopiesAreBounded,
              AcknowledgedWasDelivered
<1>2. CASE Crash
  BY <1>2, CrashInv
<1> QED BY <1>1, <1>2, StepInv, PostInv, ExpireInv DEF Next

-----------------------------------------------------------------------------

\* The strengthened invariant holds.
THEOREM Invariance == ConstantsOK /\ Spec => []IInv
BY InitInv, NextInv, PTL DEF Spec

\* Type correctness of the service of proactive messages.
THEOREM TypeCorrect == ConstantsOK /\ Spec => []TypeOK
<1>1. IInv => TypeOK
  BY DEF IInv
<1> QED BY <1>1, Invariance, PTL

\* While its key is kept a message is delivered at most once per attempt of one request, the
\* one that registered the key, however many requests carry it at once or in a row.
THEOREM CopiesBounded == ConstantsOK /\ Spec => []CopiesAreBounded
<1>1. IInv => CopiesAreBounded
  BY DEF IInv
<1> QED BY <1>1, Invariance, PTL

\* A 200 with an id is only given by a request that delivered the message.
THEOREM AcknowledgedDelivered == ConstantsOK /\ Spec => []AcknowledgedWasDelivered
<1>1. IInv => AcknowledgedWasDelivered
  BY DEF IInv
<1> QED BY <1>1, Invariance, PTL

=============================================================================
