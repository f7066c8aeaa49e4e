---------------------------- MODULE GatedCommit ----------------------------
(***************************************************************************)
(* What a flow that writes in Guacuco promises, whatever its dialogue: a   *)
(* request is what a gate message named under the request's intentUuid,   *)
(* Guacuco does each at most once, and a success is told only of what was  *)
(* done.  The nodes, the turns and the user's replies are left to the      *)
(* subgraph that implements it.  A turn may die with its intentUuid.       *)
(***************************************************************************)
EXTENDS TLAPS

CONSTANTS Keys, Requests, NoRequest

VARIABLES
    shown,      \* what the last gate message of each intentUuid named
    asked,      \* what Guacuco was asked under it
    row,        \* how far Guacuco is with it: "none", "in_progress", "done"
    done,       \* what was done since the flow began
    reported    \* the success told by the last answer

vars == <<shown, asked, row, done, reported>>

Init ==
    /\ shown = [k \in Keys |-> NoRequest] /\ asked = [k \in Keys |-> NoRequest]
    /\ row = [k \in Keys |-> "none"]
    /\ done = {} /\ reported = NoRequest

\* A gate message with a fresh intentUuid; one whose request is on its way is not.
Show(k, q) ==
    /\ row[k] # "in_progress"
    /\ shown' = [shown EXCEPT ![k] = q] /\ asked' = [asked EXCEPT ![k] = NoRequest]
    /\ row' = [row EXCEPT ![k] = "none"]
    /\ UNCHANGED <<done, reported>>

\* The request leaves; it may not arrive, and what arrives again is not taken up again.
Ask(k) ==
    /\ shown[k] # NoRequest
    /\ asked' = [asked EXCEPT ![k] = shown[k]]
    /\ \/ UNCHANGED row
       \/ row[k] = "none" /\ row' = [row EXCEPT ![k] = "in_progress"]
    /\ UNCHANGED <<shown, done, reported>>

\* Guacuco does it or refuses.
Execute(k) ==
    /\ row[k] = "in_progress" /\ row' = [row EXCEPT ![k] = "done"]
    /\ done' \in {done, done \cup {asked[k]}}
    /\ UNCHANGED <<shown, asked, reported>>

\* The next answer: a success, of something done, or anything else.
Tell ==
    /\ reported' \in done \cup {NoRequest}
    /\ UNCHANGED <<shown, asked, row, done>>

\* A flow begins; what Guacuco is not at is forgotten, or not.
Begin ==
    /\ done' = {} /\ reported' = NoRequest
    /\ \E F \in SUBSET {k \in Keys : row[k] # "in_progress"} :
         /\ shown' = [k \in Keys |-> IF k \in F THEN NoRequest ELSE shown[k]]
         /\ asked' = [k \in Keys |-> IF k \in F THEN NoRequest ELSE asked[k]]
         /\ row' = [k \in Keys |-> IF k \in F THEN "none" ELSE row[k]]

\* The turn that held k died: of k, and of what k did, no more is promised.
Lose(k) ==
    /\ shown' = [shown EXCEPT ![k] = NoRequest] /\ asked' = [asked EXCEPT ![k] = NoRequest]
    /\ row' = [row EXCEPT ![k] = "none"]
    /\ done' \in SUBSET done /\ reported' = NoRequest

Next ==
    \/ Tell \/ Begin
    \/ \E k \in Keys : (\E q \in Requests : Show(k, q)) \/ Ask(k) \/ Execute(k) \/ Lose(k)

Spec == Init /\ [][Next]_vars

-----------------------------------------------------------------------------
(* What follows for everything that implements it.                         *)

\* What Guacuco was asked under an intentUuid is what its last gate message named, and
\* Guacuco is at nothing, and did nothing, that it was not asked.
AskedWasShown ==
    \A k \in Keys : /\ asked[k] \in {NoRequest, shown[k]}
                    /\ row[k] # "none" => asked[k] # NoRequest

\* A success told is of something done since the flow began.
ToldWasDone == reported \in done \cup {NoRequest}

\* What gets done, gets done under an intentUuid whose last gate message named just that, and
\* that was not done with yet.
OnlyShownIsDone ==
    [][\A q \in done' \ done : \E k \in Keys :
          shown[k] = q /\ asked[k] = q /\ row[k] = "in_progress" /\ row'[k] = "done"]_vars

Types ==
    /\ shown \in [Keys -> Requests \cup {NoRequest}] /\ asked \in [Keys -> Requests \cup {NoRequest}]
    /\ row \in [Keys -> {"none", "in_progress", "done"}]

Inv == Types /\ AskedWasShown /\ ToldWasDone

LEMMA InvStep == NoRequest \notin Requests /\ Inv /\ [Next]_vars => Inv'
<1> SUFFICES ASSUME NoRequest \notin Requests, Inv, [Next]_vars PROVE Inv'
  OBVIOUS
<1> USE DEF Inv, Types, AskedWasShown, ToldWasDone
<1>1. CASE Tell
  BY <1>1 DEF Tell
<1>2. CASE Begin
  BY <1>2 DEF Begin
<1>3. ASSUME NEW k \in Keys, NEW q \in Requests, Show(k, q) PROVE Inv'
  BY <1>3 DEF Show
<1>4. ASSUME NEW k \in Keys, Ask(k) PROVE Inv'
  BY <1>4 DEF Ask
<1>5. ASSUME NEW k \in Keys, Execute(k) PROVE Inv'
  BY <1>5 DEF Execute
<1>6. ASSUME NEW k \in Keys, Lose(k) PROVE Inv'
  BY <1>6 DEF Lose
<1>7. CASE UNCHANGED vars
  BY <1>7 DEF vars
<1> QED BY <1>1, <1>2, <1>3, <1>4, <1>5, <1>6, <1>7 DEF Next

\* The ledger's promises follow from its steps, for any intentUuids and requests.
THEOREM LedgerKept ==
    ASSUME NoRequest \notin Requests
    PROVE  Spec => [](AskedWasShown /\ ToldWasDone) /\ OnlyShownIsDone
<1>1. Init => Inv
  BY DEF Init, Inv, Types, AskedWasShown, ToldWasDone
<1>2. Inv /\ [Next]_vars => Inv'
  BY InvStep
<1>3. Inv => AskedWasShown /\ ToldWasDone
  BY DEF Inv
<1>4. Inv /\ [Next]_vars =>
        [\A q \in done' \ done : \E k \in Keys :
          shown[k] = q /\ asked[k] = q /\ row[k] = "in_progress" /\ row'[k] = "done"]_vars
  <2> SUFFICES ASSUME Inv, Next, NEW q \in done' \ done
               PROVE  \E k \in Keys :
                        shown[k] = q /\ asked[k] = q /\ row[k] = "in_progress" /\ row'[k] = "done"
    OBVIOUS
  <2>1. PICK k \in Keys : Execute(k)
    BY DEF Next, Tell, Begin, Show, Ask, Lose
  <2> QED BY <2>1 DEF Execute, Inv, Types, AskedWasShown
<1> QED BY <1>1, <1>2, <1>3, <1>4, PTL DEF Spec, OnlyShownIsDone

=============================================================================
