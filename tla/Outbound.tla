------------------------------ MODULE Outbound ------------------------------
(***************************************************************************)
(* Proactive messages: Guacuco posts a message with an optional            *)
(* idempotency key, the service registers the key, the adapter of the      *)
(* channel builds the payload, and RetryClient posts it to Meta.           *)
(*                                                                         *)
(* External: Guacuco, which may post a message again at any time; Redis;   *)
(* Meta, which may deliver a message and lose the answer.                  *)
(***************************************************************************)
EXTENDS Naturals

CONSTANTS
    Requests,       \* bound: HTTP requests at once
    Messages,
    Keyed,          \* the messages that carry an idempotency key
    MAX_RETRIES,
    MaxPosts,       \* bound: requests in all
    MaxFaults       \* bound: crashes of the process, failed Redis commands

NoMessage == "no message"

\* What the theorems assume of the constants.
ConstantsOK ==
    /\ Keyed \subseteq Messages /\ NoMessage \notin Messages
    /\ MAX_RETRIES \in Nat /\ MaxPosts \in Nat /\ MaxFaults \in Nat

VARIABLES
    reqs,       \* where each request is, with what it holds
    dedup,      \* Redis: the keys registered, by message
    copies,     \* history: the copies of each message Meta delivered, since its key
                \* was registered if it has one
    posts, faults

bounds == <<posts, faults>>
vars   == <<reqs, dedup, copies, bounds>>

Sending  == {"adapter", "post", "meta"}
Statuses == {"none", "sent", "duplicate", "rejected", "undelivered", "error"}
RequestRecords == [at : {"idle", "service", "answer"} \cup Sending, msg : Messages \cup {NoMessage},
                   attempt : 0..MAX_RETRIES, delivered : BOOLEAN, copies : Nat, status : Statuses]

Idle == [at |-> "idle", msg |-> NoMessage, attempt |-> 0, delivered |-> FALSE, copies |-> 0,
         status |-> "none"]

Init ==
    /\ reqs = [r \in Requests |-> Idle]
    /\ dedup = {} /\ copies = [m \in Messages |-> 0]
    /\ posts = 0 /\ faults = 0

Goes(r, n)      == reqs' = [reqs EXCEPT ![r].at = n]
Concludes(r, s) == reqs' = [reqs EXCEPT ![r].at = "answer", ![r].status = s]

-----------------------------------------------------------------------------

Post(r, m) ==
    /\ reqs[r].at = "idle" /\ posts < MaxPosts
    /\ reqs' = [reqs EXCEPT ![r].at = "service", ![r].msg = m]
    /\ posts' = posts + 1
    /\ UNCHANGED <<dedup, copies, faults>>

\* outboundMessageSchema, registry.get: a malformed message, a channel without an adapter.
Reject(r) ==
    /\ reqs[r].at = "service"
    /\ Concludes(r, "rejected")
    /\ UNCHANGED <<dedup, copies, bounds>>

\* send, isDuplicate: SET NX.
Claim(r) ==
    LET m == reqs[r].msg IN
    /\ reqs[r].at = "service"
    /\ IF m \in dedup THEN Concludes(r, "duplicate") ELSE Goes(r, "adapter")
    /\ dedup' = IF m \in Keyed THEN dedup \cup {m} ELSE dedup
    /\ UNCHANGED <<copies, bounds>>

\* Redis fails, or its answer is lost: the key may be registered.
ClaimFails(r) ==
    /\ reqs[r].at = "service" /\ reqs[r].msg \in Keyed
    /\ faults < MaxFaults /\ faults' = faults + 1
    /\ Concludes(r, "error")
    /\ dedup' \in {dedup, dedup \cup {reqs[r].msg}}
    /\ UNCHANGED <<copies, posts>>

\* sendProactive: the sender's number and the payload; or channel_not_configured,
\* empty_message.
SendProactive(r) ==
    /\ reqs[r].at = "adapter"
    /\ Goes(r, "post") \/ Concludes(r, "rejected")
    /\ UNCHANGED <<dedup, copies, bounds>>

\* The request to Meta leaves; Meta delivers the message or it does not.
Attempt(r) ==
    LET m == reqs[r].msg IN
    /\ reqs[r].at = "post"
    /\ \/ /\ reqs' = [reqs EXCEPT ![r].at = "meta", ![r].delivered = TRUE, ![r].copies = @ + 1]
          /\ copies' = [copies EXCEPT ![m] = @ + 1]
       \/ /\ reqs' = [reqs EXCEPT ![r].at = "meta", ![r].delivered = FALSE]
          /\ UNCHANGED copies
    /\ UNCHANGED <<dedup, bounds>>

\* Meta answers with the id of what it delivered.
MetaAccepts(r) ==
    /\ reqs[r].at = "meta" /\ reqs[r].delivered
    /\ Concludes(r, "sent")
    /\ UNCHANGED <<dedup, copies, bounds>>

\* A status that is not retried, or whatsapp_no_message_id.
MetaRefuses(r) ==
    /\ reqs[r].at = "meta"
    /\ Concludes(r, "undelivered")
    /\ UNCHANGED <<dedup, copies, bounds>>

\* withRetry, shouldRetry: no answer, 502, 503 or 504.
MetaUnanswered(r) ==
    /\ reqs[r].at = "meta"
    /\ IF reqs[r].attempt = MAX_RETRIES
       THEN Concludes(r, "undelivered")
       ELSE reqs' = [reqs EXCEPT ![r].at = "post", ![r].attempt = @ + 1]
    /\ UNCHANGED <<dedup, copies, bounds>>

\* createOutboundHttpHandler: 200, 400, 502 or 500.
Answer(r) ==
    /\ reqs[r].at = "answer"
    /\ reqs' = [reqs EXCEPT ![r] = Idle]
    /\ UNCHANGED <<dedup, copies, bounds>>

\* DEDUP_TTL_SECONDS, five minutes, outlasts the request that registered the key: three
\* attempts of ten seconds.
Expire(m) ==
    /\ m \in dedup
    /\ \A r \in Requests : ~(reqs[r].msg = m /\ reqs[r].at \in Sending)
    /\ dedup' = dedup \ {m} /\ copies' = [copies EXCEPT ![m] = 0]
    /\ UNCHANGED <<reqs, bounds>>

Crash ==
    /\ faults < MaxFaults /\ faults' = faults + 1
    /\ reqs' = [r \in Requests |-> Idle]
    /\ UNCHANGED <<dedup, copies, posts>>

Step(r) ==
    \/ Reject(r) \/ Claim(r) \/ ClaimFails(r) \/ SendProactive(r) \/ Attempt(r)
    \/ MetaAccepts(r) \/ MetaRefuses(r) \/ MetaUnanswered(r) \/ Answer(r)

Next ==
    \/ \E r \in Requests : Step(r) \/ \E m \in Messages : Post(r, m)
    \/ \E m \in Messages : Expire(m)
    \/ Crash

\* Every call has a timeout and Node runs what is ready.
Spec == Init /\ [][Next]_vars /\ \A r \in Requests : WF_vars(Step(r))

-----------------------------------------------------------------------------
(* Properties.                                                             *)

\* Every variable keeps its type.
TypeOK ==
    /\ reqs \in [Requests -> RequestRecords]
    /\ \A r \in Requests : reqs[r].at # "idle" => reqs[r].msg \in Messages
    /\ dedup \subseteq Keyed /\ copies \in [Messages -> Nat]
    /\ posts \in 0..MaxPosts /\ faults \in 0..MaxFaults

\* isDuplicate, withRetry: however often Guacuco posts it, at once or one after another, a
\* message with a key is delivered at most as often as one request attempts it, while its
\* key is kept.
CopiesAreBounded == \A m \in Keyed : copies[m] <= MAX_RETRIES + 1

\* A 200 with an id is only given for a message that this very request delivered (sender.ts).
AcknowledgedWasDelivered ==
    \A r \in Requests : reqs[r].status = "sent" => reqs[r].copies >= 1

\* What is answered as a duplicate was sent, or is being sent by the request that registered
\* the key (OutboundMessageService.send: there is an original messageId).
DuplicateWasSent ==
    [][\A r \in Requests :
         reqs[r].status # "duplicate" /\ reqs'[r].status = "duplicate" =>
            \/ copies[reqs[r].msg] >= 1
            \/ \E q \in Requests : reqs[q].msg = reqs[r].msg /\ reqs[q].at \in Sending]_vars

=============================================================================
