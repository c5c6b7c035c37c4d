--------------------------- MODULE SendPathProofs ---------------------------
(***************************************************************************)
(* RetriesAreSafe, TrailTellsTheTruth, EditsReach and SubmissionsKept of   *)
(* MCSendPath for every value of its constants.                            *)
(*                                                                         *)
(* A behaviour is one of one component, so each property follows from the  *)
(* inductive invariants of the components it is about (AdmissionInv,       *)
(* SessionInv, RulesInv and TemplatesInv, in their modules).               *)
(***************************************************************************)
EXTENDS MCSendPath, FiniteSetTheorems, TLAPS

-----------------------------------------------------------------------------
(* Admission.                                                              *)

LEMMA Blank == A!NoRequest \in A!Request /\ A!NoRequest.pc = "idle"
  BY DEF A!NoRequest, A!Request, A!Steps, A!Asked, A!Sent

\* A step that changes one request, may draw ids and may add to the trail, and
\* leaves the tables alone, keeps the invariant when what it makes of the request
\* and what it records fit.
LEMMA OneRequest ==
  ASSUME A!AdmissionInv, NEW c \in Clients, NEW q \in A!Request,
         req' = [req EXCEPT ![c] = q], trail \subseteq trail',
         issued' \in Nat, issued <= issued', UNCHANGED <<clock, A!tables>>,
         q.pc = "create" => q.stamp = clock,
         q.pc \in {"copy", "finish", "accepted"} => A!Queued(q.id, q.content, q.key),
         q.pc \in {"screen", "create"} =>
           /\ q.id \in 1..issued'
           /\ \A d \in Clients \ {c} : A!Deciding(d) => req[d].id # q.id
           /\ \A a \in accepted : a.id # q.id
           /\ \A t \in trail' : t[1] = q.id => t[2] \notin A!Refusals,
         \A t \in trail' \ trail :
           /\ t[1] \in 1..issued'
           /\ t[2] \in A!Records => \E a \in accepted : a.id = t[1]
           /\ t[2] \in A!Refusals =>
                /\ \A a \in accepted : a.id # t[1]
                /\ \A d \in Clients \ {c} : A!Deciding(d) => req[d].id # t[1]
  PROVE  A!AdmissionInv'
<1> USE DEF A!AdmissionInv, A!RetryInv, A!tables
<1>1. /\ req'[c] = q /\ \A d \in Clients \ {c} : req'[d] = req[d]
      /\ clock' = clock /\ keyRows' = keyRows /\ accepted' = accepted
  BY DEF A!AdmissionTypes
<1>2. A!AdmissionTypes'
  BY <1>1 DEF A!AdmissionTypes
<1>3. A!UsesKept'
  BY <1>1 DEF A!UsesKept, A!At
<1>4. A!SpokenOfQueued'
  BY <1>1 DEF A!SpokenOfQueued, A!Queued, A!At
<1>5. A!RetriesAreSafe'
  BY <1>1, <1>4 DEF A!RetriesAreSafe, A!SpokenOfQueued, A!Queued, A!At
<1>6. A!OwnIds'
  <2> SUFFICES ASSUME NEW d \in Clients, A!Deciding(d)'
               PROVE  /\ req'[d].id \in 1..issued'
                      /\ \A e \in Clients : A!Deciding(e)' /\ req'[e].id = req'[d].id => e = d
                      /\ \A a \in accepted' : a.id # req'[d].id
                      /\ \A t \in trail' : t[1] = req'[d].id => t[2] \notin A!Refusals
    BY DEF A!OwnIds
  <2>1. \A e \in Clients \ {c} : A!Deciding(e)' => A!Deciding(e)
    BY <1>1 DEF A!Deciding, A!At
  <2>2. A!Deciding(c)' => q.pc \in {"screen", "create"}
    BY <1>1 DEF A!Deciding, A!At
  <2>3. CASE d = c
    BY <1>1, <2>1, <2>2, <2>3
  <2>4. CASE d # c
    <3>1. A!Deciding(d) /\ req'[d] = req[d]
      BY <1>1, <2>1, <2>4
    <3>2. /\ req[d].id \in 1..issued
          /\ \A e \in Clients : A!Deciding(e) /\ req[e].id = req[d].id => e = d
          /\ \A a \in accepted : a.id # req[d].id
          /\ \A t \in trail : t[1] = req[d].id => t[2] \notin A!Refusals
      BY <3>1 DEF A!OwnIds
    <3>3. req[d].id \in 1..issued'
      BY <3>2 DEF A!AdmissionTypes
    <3>4. \A e \in Clients : A!Deciding(e)' /\ req'[e].id = req[d].id => e = d
      BY <1>1, <2>1, <2>2, <2>4, <3>1, <3>2
    <3>5. \A t \in trail' : t[1] = req[d].id => t[2] \notin A!Refusals
      BY <2>4, <3>1, <3>2
    <3> QED BY <1>1, <3>1, <3>2, <3>3, <3>4, <3>5
  <2> QED BY <2>3, <2>4
<1>7. A!TrailTellsTheTruth'
  BY <1>1 DEF A!TrailTellsTheTruth, A!Records, A!Refusals
<1> QED BY <1>2, <1>3, <1>4, <1>5, <1>6, <1>7

\* The same for a step that only ends or moves on a request that is not deciding.
LEMMA RequestMoves ==
  ASSUME A!AdmissionInv, NEW c \in Clients, NEW q \in A!Request,
         req' = [req EXCEPT ![c] = q], UNCHANGED <<clock, A!tables, trail, issued>>,
         q.pc \notin {"screen", "create"},
         q.pc \in {"copy", "finish", "accepted"} => A!Queued(q.id, q.content, q.key)
  PROVE  A!AdmissionInv'
<1>1. issued' \in Nat /\ issued <= issued'
  BY DEF A!AdmissionInv, A!RetryInv, A!AdmissionTypes
<1> QED BY <1>1, OneRequest

LEMMA Refused ==
  ASSUME A!AdmissionInv, NEW c \in Clients, A!Refuse(c), UNCHANGED <<clock, A!tables, trail, issued>>
  PROVE  A!AdmissionInv'
  BY Blank, RequestMoves DEF A!Refuse

LEMMA Answered ==
  ASSUME A!AdmissionInv, NEW c \in Clients, NEW id \in Nat, A!Accept(c, id),
         A!Queued(id, req[c].content, req[c].key), UNCHANGED <<clock, A!tables, trail, issued>>
  PROVE  A!AdmissionInv'
<1> DEFINE q == [A!NoRequest EXCEPT !.pc = "accepted", !.id = id, !.key = req[c].key,
                                  !.content = req[c].content]
<1>1. q \in A!Request
  BY DEF A!AdmissionInv, A!RetryInv, A!AdmissionTypes, A!NoRequest, A!Request, A!Steps
<1>2. q.pc = "accepted" /\ q.id = id /\ q.content = req[c].content /\ q.key = req[c].key
  BY DEF A!NoRequest
<1>3. req' = [req EXCEPT ![c] = q]
  BY DEF A!Accept
<1> HIDE DEF q
<1> QED BY <1>1, <1>2, <1>3, RequestMoves

LEMMA Moved ==
  ASSUME A!AdmissionInv, NEW c \in Clients, NEW pc \in A!Steps \ {"screen", "create", "accepted"},
         A!Goto(c, pc), pc = "finish" => A!At(c, "copy"), pc # "copy",
         UNCHANGED <<clock, A!tables, trail, issued>>
  PROVE  A!AdmissionInv'
<1> DEFINE q == [req[c] EXCEPT !.pc = pc]
<1>0. req[c] \in A!Request
  BY DEF A!AdmissionInv, A!RetryInv, A!AdmissionTypes
<1>1. q \in A!Request
  BY <1>0 DEF A!Request
<1>2. q.pc = pc /\ q.id = req[c].id /\ q.content = req[c].content /\ q.key = req[c].key
  BY <1>0 DEF A!Request
<1>3. req' = [req EXCEPT ![c] = q]
  BY DEF A!Goto
<1>4. pc = "finish" => A!Queued(q.id, q.content, q.key)
  BY <1>2 DEF A!AdmissionInv, A!RetryInv, A!SpokenOfQueued
<1> HIDE DEF q
<1> QED BY <1>1, <1>2, <1>3, <1>4, RequestMoves

\* A live key's row speaks of a queued message.
LEMMA ReplayStep ==
  ASSUME A!AdmissionInv, NEW c \in Clients, A!Replay(c) \/ A!LostKeyRace(c)
  PROVE  A!AdmissionInv'
<1> DEFINE k == req[c].key
<1>1. UNCHANGED <<clock, A!tables, trail, issued>>
  BY DEF A!Replay, A!LostKeyRace
<1>2. CASE A!Live(k, clock) /\ A!SameUse(k, req[c].content) /\ A!Accept(c, keyRows[k].id)
  <2>1. A!Queued(keyRows[k].id, req[c].content, k)
    BY <1>2 DEF A!Live, A!SameUse, A!AdmissionInv, A!RetryInv, A!SpokenOfQueued
  <2>2. keyRows[k].id \in Nat
    BY <2>1 DEF A!Queued, A!AdmissionInv, A!RetryInv, A!AdmissionTypes
  <2> QED BY <1>1, <1>2, <2>1, <2>2, Answered
<1>3. CASE A!Refuse(c)
  BY <1>1, <1>3, Refused
<1>4. CASE A!Goto(c, "rate")
  BY <1>1, <1>4, Moved DEF A!Steps
<1> QED BY <1>2, <1>3, <1>4 DEF A!Replay, A!LostKeyRace

LEMMA SubmitStep ==
  ASSUME A!AdmissionInv, NEW c \in Clients, NEW k \in SendKeys \cup {NoKey},
         NEW x \in Contents \cup Invalid, A!Submit(c, k, x)
  PROVE  A!AdmissionInv'
<1> DEFINE q == [A!NoRequest EXCEPT !.pc = IF k = NoKey THEN "rate" ELSE "replay", !.key = k, !.content = x]
<1>1. UNCHANGED <<clock, A!tables, trail, issued>>
  BY DEF A!Submit
<1>2. CASE A!Refuse(c)
  BY <1>1, <1>2, Refused
<1>3. CASE req' = [req EXCEPT ![c] = q]
  <2>1. q \in A!Request /\ q.pc \in {"rate", "replay"}
    BY DEF A!NoRequest, A!Request, A!Steps, A!Asked, A!Sent
  <2> HIDE DEF q
  <2> QED BY <1>1, <1>3, <2>1, RequestMoves
<1> QED BY <1>2, <1>3 DEF A!Submit

LEMMA RateStep ==
  ASSUME A!AdmissionInv, NEW c \in Clients, A!CheckBacklog(c) \/ A!Charge(c)
  PROVE  A!AdmissionInv'
<1>1. UNCHANGED <<clock, A!tables, trail, issued>>
  BY DEF A!CheckBacklog, A!Charge
<1>2. CASE A!Refuse(c)
  BY <1>1, <1>2, Refused
<1>3. CASE A!Goto(c, "charge") \/ A!Goto(c, "suppression")
  BY <1>1, <1>3, Moved DEF A!Steps
<1>4. ASSUME NEW next \in {"charge", "suppression"},
             req' = [req EXCEPT ![c].pc = next, ![c].open = TRUE]
      PROVE  A!AdmissionInv'
  <2> DEFINE q == [req[c] EXCEPT !.pc = next, !.open = TRUE]
  <2>1. q \in A!Request /\ q.pc = next
    BY DEF A!AdmissionInv, A!RetryInv, A!AdmissionTypes, A!Request, A!Steps
  <2>2. req' = [req EXCEPT ![c] = q]
    BY <1>4
  <2> HIDE DEF q
  <2> QED BY <1>1, <2>1, <2>2, RequestMoves
<1>5. ASSUME NEW open, req' = [req EXCEPT ![c].pc = "suppression", ![c].open = @ \/ open]
      PROVE  A!AdmissionInv'
  <2> DEFINE q == [req[c] EXCEPT !.pc = "suppression", !.open = @ \/ open]
  <2>1. (req[c].open \/ open) \in BOOLEAN
    OBVIOUS
  <2>2. q \in A!Request /\ q.pc = "suppression"
    BY <2>1 DEF A!AdmissionInv, A!RetryInv, A!AdmissionTypes, A!Request, A!Steps
  <2>3. req' = [req EXCEPT ![c] = q]
    BY <1>5
  <2> HIDE DEF q
  <2> QED BY <1>1, <2>2, <2>3, RequestMoves
<1> QED BY <1>2, <1>3, <1>4, <1>5 DEF A!CheckBacklog, A!Charge

LEMMA Best ==
  ASSUME NEW new, A!BestEffort(new)
  PROVE  trail \subseteq trail' /\ trail' \ trail \subseteq new
  BY DEF A!BestEffort

\* The id is new: nothing queued, recorded or being decided has it.
LEMMA SuppressionStep ==
  ASSUME A!AdmissionInv, NEW c \in Clients, A!CheckSuppression(c)
  PROVE  A!AdmissionInv'
<1>0. issued \in Nat /\ req[c] \in A!Request
  BY DEF A!AdmissionInv, A!RetryInv, A!AdmissionTypes
<1> PICK m \in Nat : m = issued + 1
  BY <1>0
<1>1. /\ UNCHANGED <<clock, A!tables>> /\ issued' = m
      /\ issued' \in Nat /\ issued <= issued' /\ m \in 1..issued'
  BY <1>0 DEF A!CheckSuppression
<1>2. /\ \A a \in accepted : a.id # m
      /\ \A d \in Clients : A!Deciding(d) => req[d].id # m
      /\ \A t \in trail : t[1] # m
  BY <1>0 DEF A!AdmissionInv, A!RetryInv, A!AdmissionTypes, A!OwnIds
<1>3. CASE A!BestEffort({<<m, "DROPPED">>}) /\ A!Refuse(c)
  <2>1. trail \subseteq trail' /\ trail' \ trail \subseteq {<<m, "DROPPED">>}
    BY <1>3, Best
  <2>2. \A t \in trail' \ trail : t[1] = m /\ t[2] = "DROPPED"
    BY <2>1
  <2>3. req' = [req EXCEPT ![c] = A!NoRequest]
    BY <1>3 DEF A!Refuse
  <2>4. \A t \in trail' \ trail :
          /\ t[1] \in 1..issued'
          /\ t[2] \in A!Records => \E a \in accepted : a.id = t[1]
          /\ t[2] \in A!Refusals =>
               /\ \A a \in accepted : a.id # t[1]
               /\ \A d \in Clients \ {c} : A!Deciding(d) => req[d].id # t[1]
    BY <1>1, <1>2, <2>2 DEF A!Records
  <2> QED BY <1>1, <2>1, <2>3, <2>4, Blank, OneRequest
<1>4. CASE req' = [req EXCEPT ![c].pc = "screen", ![c].id = m] /\ UNCHANGED trail
  <2> DEFINE q == [req[c] EXCEPT !.pc = "screen", !.id = m]
  <2>1. q \in A!Request /\ q.pc = "screen" /\ q.id = m
    BY <1>0 DEF A!Request, A!Steps
  <2>2. req' = [req EXCEPT ![c] = q]
    BY <1>4
  <2> HIDE DEF q
  <2>3. /\ q.id \in 1..issued'
        /\ \A d \in Clients \ {c} : A!Deciding(d) => req[d].id # q.id
        /\ \A a \in accepted : a.id # q.id
        /\ \A t \in trail' : t[1] = q.id => t[2] \notin A!Refusals
    BY <1>1, <1>2, <1>4, <2>1
  <2> QED BY <1>1, <1>4, <2>1, <2>2, <2>3, OneRequest
<1>5. CASE A!Refuse(c) /\ UNCHANGED trail
  <2>1. req' = [req EXCEPT ![c] = A!NoRequest]
    BY <1>5 DEF A!Refuse
  <2> QED BY <1>1, <1>5, <2>1, Blank, OneRequest
<1> QED BY <1>3, <1>4, <1>5 DEF A!CheckSuppression

LEMMA ScreenStep ==
  ASSUME A!AdmissionInv, NEW c \in Clients, A!Screen(c)
  PROVE  A!AdmissionInv'
<1> USE DEF A!AdmissionInv, A!RetryInv
<1> DEFINE id == req[c].id
<1>1. UNCHANGED <<clock, A!tables, issued>> /\ issued' \in Nat /\ issued <= issued' /\ clock \in Nat
  BY DEF A!Screen, A!AdmissionTypes
<1>2. A!Deciding(c)
  BY DEF A!Screen, A!Deciding
<1>3. /\ id \in 1..issued
      /\ \A d \in Clients : A!Deciding(d) /\ req[d].id = id => d = c
      /\ \A a \in accepted : a.id # id
      /\ \A t \in trail : t[1] = id => t[2] \notin A!Refusals
  BY <1>2 DEF A!OwnIds
<1>4. ASSUME NEW action \in {"deliver", "hold", "tag"},
             req' = [req EXCEPT ![c].pc = "create", ![c].stamp = clock, ![c].action = action],
             trail \subseteq trail', trail' \ trail \subseteq {<<id, "tag">>}
      PROVE  A!AdmissionInv'
  <2> DEFINE q == [req[c] EXCEPT !.pc = "create", !.stamp = clock, !.action = action]
  <2>1. q \in A!Request /\ q.pc = "create" /\ q.id = id /\ q.stamp = clock
    BY <1>1 DEF A!AdmissionTypes, A!Request, A!Steps
  <2>2. req' = [req EXCEPT ![c] = q]
    BY <1>4
  <2>3. \A t \in trail' \ trail : t[1] = id /\ t[2] = "tag"
    BY <1>4
  <2>4. \A t \in trail' : t[1] = id => t[2] \notin A!Refusals
    BY <1>3, <2>3 DEF A!Refusals
  <2> HIDE DEF q, id
  <2> QED BY <1>1, <1>3, <1>4, <2>1, <2>2, <2>3, <2>4, OneRequest DEF A!Records, A!Refusals
<1>5. CASE A!Refuse(c) /\ A!BestEffort({<<id, "reject">>, <<id, "REJECTED">>})
  <2>1. trail \subseteq trail' /\ trail' \ trail \subseteq {<<id, "reject">>, <<id, "REJECTED">>}
    BY <1>5, Best
  <2>2. \A t \in trail' \ trail : t[1] = id /\ t[2] \in {"reject", "REJECTED"}
    BY <2>1
  <2>3. req' = [req EXCEPT ![c] = A!NoRequest]
    BY <1>5 DEF A!Refuse
  <2> HIDE DEF id
  <2> QED BY <1>1, <1>3, <2>1, <2>2, <2>3, Blank, OneRequest DEF A!Records, id
<1>6. CASE A!Refuse(c) /\ UNCHANGED trail
  BY <1>1, <1>6, Refused
<1> QED
  <2>1. A!BestEffort({<<id, "tag">>}) => trail \subseteq trail' /\ trail' \ trail \subseteq {<<id, "tag">>}
    BY Best
  <2> QED BY <1>4, <1>5, <1>6, <2>1 DEF A!Screen

\* The insert: nothing queued under the key is within the window, and the id is
\* nobody else's.
LEMMA CreateStep ==
  ASSUME A!AdmissionInv, NEW c \in Clients, A!Create(c)
  PROVE  A!AdmissionInv'
<1> USE DEF A!AdmissionInv, A!RetryInv
<1> DEFINE r == req[c]
           n == [id |-> r.id, key |-> r.key, hash |-> r.content, at |-> r.stamp]
<1>1. UNCHANGED <<clock, trail, issued>> /\ clock \in Nat /\ issued \in Nat /\ A!At(c, "create")
  BY DEF A!Create, A!AdmissionTypes
<1>2. r \in A!Request /\ r.stamp = clock /\ r.id \in 1..issued /\ A!Deciding(c)
  BY <1>1 DEF A!AdmissionTypes, A!UsesKept, A!OwnIds, A!Deciding
<1>3. CASE A!Taken(c) /\ A!Goto(c, "lostrace") /\ UNCHANGED A!tables
  BY <1>1, <1>3, Moved DEF A!Steps
<1>4. CASE A!Refuse(c) /\ UNCHANGED A!tables
  BY <1>1, <1>4, Refused
<1>5. CASE /\ ~A!Taken(c)
           /\ keyRows' = IF r.key = NoKey THEN keyRows
                         ELSE A!With(keyRows, r.key, [hash |-> r.content, id |-> r.id, at |-> r.stamp])
           /\ accepted' = accepted \cup {n}
           /\ A!Goto(c, "copy")
  <2>1. /\ req'[c] = [r EXCEPT !.pc = "copy"] /\ \A d \in Clients \ {c} : req'[d] = req[d]
        /\ req' \in [Clients -> A!Request]
        /\ req'[c].pc = "copy" /\ req'[c].id = r.id /\ req'[c].key = r.key
        /\ req'[c].content = r.content
    BY <1>2, <1>5 DEF A!Goto, A!AdmissionTypes, A!Request, A!Steps
  <2>2. n \in [id : 1..issued, key : A!Asked, hash : A!Sent, at : Nat]
    BY <1>1, <1>2 DEF A!Request
  <2>3. A!AdmissionTypes'
    BY <1>1, <1>5, <2>1, <2>2 DEF A!AdmissionTypes
  <2>4. \A a \in accepted : a.key = r.key /\ r.key # NoKey => a.at < clock - Window
    BY WindowAssumption, <1>1, <1>2, <1>5 DEF A!Taken, A!Live, A!UsesKept, A!AdmissionTypes
  <2>5. r.key # NoKey =>
          /\ DOMAIN keyRows' = DOMAIN keyRows \cup {r.key}
          /\ keyRows'[r.key] = [hash |-> r.content, id |-> r.id, at |-> r.stamp]
          /\ \A k \in DOMAIN keyRows \ {r.key} : keyRows'[k] = keyRows[k]
    BY <1>5 DEF A!With
  <2>6. A!UsesKept'
    <3>1. \A a \in accepted' : a.key # NoKey =>
            \/ a.at < clock' - Window
            \/ a.key \in DOMAIN keyRows' /\ a.at <= keyRows'[a.key].at
      BY <1>1, <1>2, <1>5, <2>4, <2>5 DEF A!UsesKept
    <3>2. \A k \in DOMAIN keyRows' : keyRows'[k].at \in Nat
      BY <1>1, <1>2, <1>5, <2>5 DEF A!UsesKept
    <3>3. \A d \in Clients : A!At(d, "create")' => req'[d].stamp = clock'
      BY <1>1, <2>1 DEF A!UsesKept, A!At
    <3> QED BY <3>1, <3>2, <3>3 DEF A!UsesKept
  <2>7. \E a \in accepted' : a.id = r.id /\ a.hash = r.content /\ a.key = r.key
    <3>1. n \in accepted' BY <1>5
    <3> QED BY <3>1
  <2>8. accepted \subseteq accepted'
    BY <1>5
  <2> HIDE DEF n
  <2>9. A!SpokenOfQueued'
    <3>1. ASSUME NEW k \in DOMAIN keyRows'
          PROVE  \E a \in accepted' : a.id = keyRows'[k].id /\ a.hash = keyRows'[k].hash /\ a.key = k
      <4>1. CASE r.key # NoKey /\ k = r.key
        BY <2>5, <2>7, <4>1
      <4>2. CASE ~(r.key # NoKey /\ k = r.key)
        <5>1. k \in DOMAIN keyRows /\ keyRows'[k] = keyRows[k]
          BY <1>5, <2>5, <3>1, <4>2
        <5> QED BY <2>8, <5>1 DEF A!SpokenOfQueued, A!Queued
      <4> QED BY <4>1, <4>2
    <3>2. ASSUME NEW d \in Clients, (A!At(d, "copy") \/ A!At(d, "finish") \/ A!At(d, "accepted"))'
          PROVE  A!Queued(req[d].id, req[d].content, req[d].key)'
      <4>1. CASE d = c
        BY <2>1, <2>7, <4>1 DEF A!Queued
      <4>2. CASE d # c
        BY <2>1, <2>8, <3>2, <4>2 DEF A!SpokenOfQueued, A!Queued, A!At
      <4> QED BY <4>1, <4>2
    <3> QED BY <3>1, <3>2 DEF A!SpokenOfQueued, A!Queued
  <2> USE DEF n
  <2>10. A!RetriesAreSafe'
    <3>1. \A a, b \in accepted' : a # b /\ a.key = b.key /\ a.key # NoKey =>
            a.at < b.at - Window \/ b.at < a.at - Window
      BY <1>2, <1>5, <2>4 DEF A!RetriesAreSafe
    <3> QED BY <2>9, <3>1 DEF A!RetriesAreSafe, A!SpokenOfQueued, A!Queued, A!At
  <2>11. A!OwnIds'
    <3>1. \A d \in Clients : A!Deciding(d)' => A!Deciding(d) /\ d # c /\ req'[d] = req[d]
      BY <2>1 DEF A!Deciding, A!At
    <3>2. \A d \in Clients : A!Deciding(d)' => req[d].id # r.id
      BY <1>2, <3>1 DEF A!OwnIds
    <3> QED BY <1>1, <1>5, <3>1, <3>2 DEF A!OwnIds
  <2>12. A!TrailTellsTheTruth'
    <3>1. \A t \in trail : t[1] = r.id => t[2] \notin A!Refusals
      BY <1>2 DEF A!OwnIds
    <3> QED BY <1>1, <1>5, <3>1 DEF A!TrailTellsTheTruth, A!Refusals
  <2> QED BY <2>3, <2>6, <2>9, <2>10, <2>11, <2>12
<1> QED BY <1>3, <1>4, <1>5 DEF A!Create

LEMMA FollowUpStep ==
  ASSUME A!AdmissionInv, NEW c \in Clients, A!FollowUp(c) \/ A!Finish(c)
  PROVE  A!AdmissionInv'
<1> DEFINE id == req[c].id
<1>0. req[c] \in A!Request /\ issued \in Nat
  BY DEF A!AdmissionInv, A!RetryInv, A!AdmissionTypes
<1>1. UNCHANGED <<clock, A!tables, issued>> /\ issued' \in Nat /\ issued <= issued'
  BY <1>0 DEF A!FollowUp, A!Finish
<1>2. A!Queued(id, req[c].content, req[c].key)
  BY DEF A!FollowUp, A!Finish, A!AdmissionInv, A!RetryInv, A!SpokenOfQueued
<1>3. (\E a \in accepted : a.id = id) /\ id \in 1..issued'
  BY <1>1, <1>2 DEF A!Queued, A!AdmissionInv, A!RetryInv, A!AdmissionTypes
<1>4. trail \subseteq trail' /\ \A t \in trail' \ trail : t[1] = id /\ t[2] \in A!Records
  <2>1. CASE A!FollowUp(c)
    BY <2>1 DEF A!FollowUp, A!Records
  <2>2. CASE A!Finish(c)
    <3>1. trail \subseteq trail' /\ trail' \ trail \subseteq {<<id, "hold">>}
      BY <2>2, Best DEF A!Finish
    <3> QED BY <3>1 DEF A!Records
  <2> QED BY <2>1, <2>2
<1>5. \E q \in A!Request : /\ req' = [req EXCEPT ![c] = q] /\ q.pc \in {"finish", "accepted"}
                           /\ q.id = id /\ q.content = req[c].content /\ q.key = req[c].key
  <2>1. CASE A!FollowUp(c)
    <3> DEFINE q == [req[c] EXCEPT !.pc = "finish"]
    <3>1. q \in A!Request /\ q.pc = "finish" /\ q.id = id /\ q.content = req[c].content /\ q.key = req[c].key
      BY <1>0 DEF A!Request, A!Steps
    <3>2. req' = [req EXCEPT ![c] = q]
      BY <2>1 DEF A!FollowUp, A!Goto
    <3> HIDE DEF q
    <3> QED BY <3>1, <3>2
  <2>2. CASE A!Finish(c)
    <3> DEFINE q == [A!NoRequest EXCEPT !.pc = "accepted", !.id = id, !.key = req[c].key,
                                      !.content = req[c].content]
    <3>1. q \in A!Request /\ q.pc = "accepted" /\ q.id = id /\ q.content = req[c].content /\ q.key = req[c].key
      BY <1>0 DEF A!NoRequest, A!Request, A!Steps
    <3>2. req' = [req EXCEPT ![c] = q]
      BY <2>2 DEF A!Finish, A!Accept
    <3> HIDE DEF q
    <3> QED BY <3>1, <3>2
  <2> QED BY <2>1, <2>2
<1>6. \A t \in trail' \ trail : t[2] \notin A!Refusals
  BY <1>4 DEF A!Records, A!Refusals
<1> HIDE DEF id
<1> QED BY <1>1, <1>2, <1>3, <1>4, <1>5, <1>6, OneRequest

\* What pruning takes was past the window, and the clock waits for an insert.
LEMMA PruneStep ==
  ASSUME A!AdmissionInv, A!PruneKeys
  PROVE  A!AdmissionInv'
<1> USE DEF A!AdmissionInv, A!RetryInv
<1>1. /\ UNCHANGED <<clock, accepted, req, trail, issued>>
      /\ \A k : k \in DOMAIN keyRows' <=> k \in DOMAIN keyRows /\ keyRows[k].at >= clock - Window
      /\ \A k \in DOMAIN keyRows' : keyRows'[k] = keyRows[k]
  BY DEF A!PruneKeys, A!Live, A!Without
<1>2. A!AdmissionTypes'
  BY <1>1 DEF A!AdmissionTypes
<1>3. A!UsesKept'
  <2>1. \A a \in accepted : a.key # NoKey =>
          \/ a.at < clock - Window
          \/ a.key \in DOMAIN keyRows' /\ a.at <= keyRows'[a.key].at
    BY WindowAssumption, <1>1 DEF A!UsesKept, A!AdmissionTypes
  <2> QED BY <1>1, <2>1 DEF A!UsesKept, A!At
<1>4. A!SpokenOfQueued'
  BY <1>1 DEF A!SpokenOfQueued, A!Queued, A!At
<1>5. A!RetriesAreSafe'
  BY <1>1 DEF A!RetriesAreSafe, A!At
<1>6. A!OwnIds'
  BY <1>1 DEF A!OwnIds, A!Deciding, A!At
<1>7. A!TrailTellsTheTruth'
  BY <1>1 DEF A!TrailTellsTheTruth
<1> QED BY <1>2, <1>3, <1>4, <1>5, <1>6, <1>7

LEMMA ClockStep ==
  ASSUME A!AdmissionInv,
         UNCHANGED <<keyRows, accepted, req, trail, issued>>,
         clock' = clock \/ (clock' = clock + 1 /\ \A c \in Clients : ~A!At(c, "create"))
  PROVE  A!AdmissionInv'
<1> USE DEF A!AdmissionInv, A!RetryInv
<1>1. A!AdmissionTypes'
  BY DEF A!AdmissionTypes
<1>2. A!UsesKept'
  BY WindowAssumption DEF A!UsesKept, A!AdmissionTypes, A!At
<1>3. A!SpokenOfQueued'
  BY DEF A!SpokenOfQueued, A!Queued, A!At
<1>4. A!RetriesAreSafe'
  BY DEF A!RetriesAreSafe, A!At
<1>5. A!OwnIds'
  BY DEF A!OwnIds, A!Deciding, A!At
<1>6. A!TrailTellsTheTruth'
  BY DEF A!TrailTellsTheTruth
<1> QED BY <1>1, <1>2, <1>3, <1>4, <1>5, <1>6

LEMMA AdmissionInit == A!Init => A!AdmissionInv
<1> SUFFICES ASSUME A!Init PROVE A!AdmissionInv OBVIOUS
<1>1. A!AdmissionTypes
  BY Blank DEF A!Init, A!AdmissionTypes
<1>2. A!UsesKept /\ A!SpokenOfQueued /\ A!RetriesAreSafe /\ A!OwnIds /\ A!TrailTellsTheTruth
  BY Blank DEF A!Init, A!UsesKept, A!SpokenOfQueued, A!RetriesAreSafe, A!OwnIds, A!Deciding, A!At,
     A!TrailTellsTheTruth
<1> QED BY <1>1, <1>2 DEF A!AdmissionInv, A!RetryInv

\* A step of a client, a store or the worker keeps the invariant.
LEMMA AdmissionStep ==
  ASSUME A!AdmissionInv, [A!Next]_(A!vars)
  PROVE  A!AdmissionInv'
<1>1. CASE UNCHANGED A!vars
  <2>1. UNCHANGED <<keyRows, accepted, req, trail, issued>> /\ clock' = clock
    BY <1>1 DEF A!vars
  <2> QED BY <2>1, ClockStep
<1>2. ASSUME NEW c \in Clients, A!CutOff(c)
      PROVE  A!AdmissionInv'
  BY <1>2, Refused DEF A!CutOff, A!Refuse
<1>3. ASSUME NEW i \in 1..MaxIds, A!Drain(i)
      PROVE  A!AdmissionInv'
  <2>1. UNCHANGED <<keyRows, accepted, req, trail, issued>> /\ clock' = clock
    BY <1>3 DEF A!Drain
  <2> QED BY <2>1, ClockStep
<1>4. CASE A!Tick
  BY <1>4, ClockStep DEF A!Tick, A!tables, A!At
<1> QED
  BY <1>1, <1>2, <1>3, <1>4, SubmitStep, ReplayStep, RateStep, SuppressionStep, ScreenStep,
     CreateStep, FollowUpStep, PruneStep DEF A!Next

LEMMA AdmissionInvariant == Spec => [](part = "admission" => A!AdmissionInv)
<1> DEFINE Inv == part = "admission" => A!AdmissionInv
<1>1. Init => Inv
  BY AdmissionInit DEF Init
<1>2. Inv /\ [Next]_vars => Inv'
  <2> SUFFICES ASSUME Inv, [Next]_vars, part' = "admission" PROVE (A!AdmissionInv)' OBVIOUS
  <2>1. part = "admission" /\ [A!Next]_(A!vars)
    BY DEF Next, vars, admission, A!vars
  <2> QED BY <2>1, AdmissionStep
<1> QED BY <1>1, <1>2, PTL DEF Spec

\* However many clients send, lose their connections and send again under
\* however many keys, no key queues a second message within its window, and an
\* accepted answer names a message queued for what was sent under that key
\* (SendEmail, send_idempotency.go, outbox_store.go).
THEOREM RetriedSendsAreSafe == Spec => []RetriesAreSafe
<1>1. (part = "admission" => A!AdmissionInv) => RetriesAreSafe
  BY DEF A!AdmissionInv, A!RetryInv, RetriesAreSafe
<1> QED BY <1>1, AdmissionInvariant, PTL

\* And what is on record of a message agrees with whether it was queued
\* (SendEmail's recordings, send_email_usecase.go).
THEOREM TrailIsTrue == Spec => []TrailTellsTheTruth
<1>1. (part = "admission" => A!AdmissionInv) => TrailTellsTheTruth
  BY DEF A!AdmissionInv, TrailTellsTheTruth
<1> QED BY <1>1, AdmissionInvariant, PTL

-----------------------------------------------------------------------------
(* SMTP sessions.                                                          *)

LEMMA SessionInit == S!Init => S!SessionInv
<1> SUFFICES ASSUME S!Init PROVE S!SessionInv OBVIOUS
<1>1. S!Closed \in S!Session /\ S!Closed.pc = "closed"
  BY DEF S!Closed, S!Session
<1>2. S!SessionTypes
  BY <1>1 DEF S!SessionTypes, S!Init
<1>3. S!KeysKept
  BY DEF S!KeysKept, S!Init
<1>4. S!AnswersTrue
  BY <1>1 DEF S!AnswersTrue, S!Init
<1> QED BY <1>2, <1>3, <1>4 DEF S!SessionInv

\* A step that changes one session, and neither a job nor what is queued.
LEMMA OneSession ==
  ASSUME S!SessionInv, NEW c \in Conns, NEW s \in S!Session,
         conn' = [conn EXCEPT ![c] = s], s.pc # "replied", s.pc = "mail" => s.job \in DOMAIN Jobs,
         UNCHANGED <<job, keys, queued, aged>>
  PROVE  S!SessionInv'
<1> USE DEF S!SessionInv
<1>1. conn'[c] = s /\ \A d \in Conns \ {c} : conn'[d] = conn[d]
  BY DEF S!SessionTypes
<1>2. S!SessionTypes'
  BY <1>1 DEF S!SessionTypes
<1>3. S!KeysKept'
  BY DEF S!KeysKept
<1>4. \A j : S!InQueue(j)' = S!InQueue(j) /\ S!GivenUp(j)' = S!GivenUp(j)
  BY DEF S!InQueue, S!GivenUp
<1>5. S!AnswersTrue'
  BY <1>1, <1>4 DEF S!AnswersTrue
<1> QED BY <1>2, <1>3, <1>5

LEMMA PlainSteps ==
  ASSUME S!SessionInv, NEW c \in Conns,
         S!Connect(c) \/ S!Reset(c) \/ S!Logout(c)
  PROVE  S!SessionInv'
<1>1. UNCHANGED <<job, keys, queued, aged>>
  BY DEF S!Connect, S!Reset, S!Logout
<1>2. /\ conn[c] \in S!Session
      /\ conn[c].pc \in {"mail", "replied"} => conn[c].job \in DOMAIN Jobs
  BY DEF S!SessionInv, S!SessionTypes
<1>3. S!Closed \in S!Session /\ S!Closed.pc = "closed"
  BY DEF S!Closed, S!Session
<1>4. \E s \in S!Session : /\ conn' = [conn EXCEPT ![c] = s] /\ s.pc # "replied"
                           /\ s.pc = "mail" => s.job \in DOMAIN Jobs
  <2>1. CASE S!Connect(c)
    <3> DEFINE q == [conn[c] EXCEPT !.pc = "open"]
    <3>1. q \in S!Session /\ q.pc = "open"
      BY <1>2, <1>3, <2>1 DEF S!Session, S!Connect, S!Closed
    <3>2. conn' = [conn EXCEPT ![c] = q]
      BY <2>1 DEF S!Connect
    <3> HIDE DEF q
    <3> QED BY <3>1, <3>2
  <2>2. CASE S!Reset(c)
    <3> DEFINE q == [conn[c] EXCEPT !.pc = "open", !.job = NoId, !.rcpts = <<>>]
    <3>1. q \in S!Session /\ q.pc = "open"
      BY <1>2, <1>3, <2>2 DEF S!Session, S!Reset, S!Closed
    <3>2. conn' = [conn EXCEPT ![c] = q]
      BY <2>2 DEF S!Reset
    <3> HIDE DEF q
    <3> QED BY <3>1, <3>2
  <2>3. CASE S!Logout(c)
    BY <1>3, <2>3 DEF S!Logout
  <2> QED BY <2>1, <2>2, <2>3
<1> QED BY <1>1, <1>4, OneSession

LEMMA LoginSteps ==
  ASSUME S!SessionInv, NEW c \in Conns, NEW u \in Usernames,
         S!LoginUsername(c, u) \/ S!Authenticate(c, u) \/ S!AuthRefused(c, u)
  PROVE  S!SessionInv'
<1>1. UNCHANGED <<job, keys, queued, aged>>
  BY DEF S!LoginUsername, S!Authenticate, S!AuthRefused
<1>2. /\ conn[c] \in S!Session
      /\ conn[c].pc \in {"mail", "replied"} => conn[c].job \in DOMAIN Jobs
  BY DEF S!SessionInv, S!SessionTypes
<1>3. S!Closed \in S!Session /\ S!Closed.pc = "closed"
  BY DEF S!Closed, S!Session
<1>4. \E s \in S!Session : /\ conn' = [conn EXCEPT ![c] = s] /\ s.pc # "replied"
                           /\ s.pc = "mail" => s.job \in DOMAIN Jobs
  <2>1. CASE S!LoginUsername(c, u)
    <3> DEFINE asked == [conn[c] EXCEPT !.step = 1]
               named == [conn[c] EXCEPT !.step = 2, !.provider = u]
    <3>1. /\ asked \in S!Session /\ asked.pc = conn[c].pc
          /\ named \in S!Session /\ named.pc = conn[c].pc
      <4>1. u \in Usernames \cup {NoProvider} /\ 1 \in 0..3 /\ 2 \in 0..3
        OBVIOUS
      <4> QED BY <1>2, <4>1 DEF S!Session
    <3>2. conn[c].pc = "open" /\ (conn' = [conn EXCEPT ![c] = asked] \/ conn' = [conn EXCEPT ![c] = named])
      BY <2>1 DEF S!LoginUsername
    <3> HIDE DEF asked, named
    <3> QED BY <3>1, <3>2
  <2>2. CASE S!Authenticate(c, u)
    <3> DEFINE q == [conn[c] EXCEPT !.tenant = TRUE, !.provider = u, !.step = 3]
    <3>1. q \in S!Session /\ q.pc = conn[c].pc /\ conn[c].pc = "open"
      <4>1. u \in Usernames \cup {NoProvider} /\ 3 \in 0..3 /\ conn[c].pc = "open"
        BY <2>2 DEF S!Authenticate
      <4> QED BY <1>2, <4>1 DEF S!Session
    <3>2. conn' = [conn EXCEPT ![c] = q]
      BY <2>2 DEF S!Authenticate
    <3> HIDE DEF q
    <3> QED BY <3>1, <3>2
  <2>3. CASE S!AuthRefused(c, u)
    <3> DEFINE q == [S!Closed EXCEPT !.pc = "open"]
    <3>1. q \in S!Session /\ q.pc = "open"
      BY <1>2, <1>3, <2>3 DEF S!Session, S!AuthRefused, S!Closed
    <3>2. conn' = [conn EXCEPT ![c] = q]
      BY <2>3 DEF S!AuthRefused
    <3> HIDE DEF q
    <3> QED BY <3>1, <3>2
  <2> QED BY <2>1, <2>2, <2>3
<1> QED BY <1>1, <1>4, OneSession

LEMMA MailStep ==
  ASSUME S!SessionInv, NEW c \in Conns, NEW j \in DOMAIN Jobs,
         S!Mail(c, j)
  PROVE  S!SessionInv'
<1>1. UNCHANGED <<job, keys, queued, aged>>
  BY DEF S!Mail
<1>2. /\ conn[c] \in S!Session
      /\ conn[c].pc \in {"mail", "replied"} => conn[c].job \in DOMAIN Jobs
  BY DEF S!SessionInv, S!SessionTypes
<1>3. S!Closed \in S!Session /\ S!Closed.pc = "closed"
  BY DEF S!Closed, S!Session
<1>4. \E s \in S!Session : /\ conn' = [conn EXCEPT ![c] = s] /\ s.pc # "replied"
                           /\ s.pc = "mail" => s.job \in DOMAIN Jobs
  <2>1. CASE S!Mail(c, j)
    <3> DEFINE q == [conn[c] EXCEPT !.pc = "mail", !.job = j, !.rcpts = <<>>]
    <3>1. q \in S!Session /\ q.pc = "mail" /\ q.job = j
      BY <1>2, <1>3, <2>1 DEF S!Session, S!Mail, S!Closed
    <3>2. conn' = [conn EXCEPT ![c] = q]
      BY <2>1 DEF S!Mail
    <3> HIDE DEF q
    <3> QED BY <3>1, <3>2
  <2> QED BY <2>1
<1> QED BY <1>1, <1>4, OneSession

LEMMA RcptStep ==
  ASSUME S!SessionInv, NEW c \in Conns, NEW a \in S!Recipients,
         S!Rcpt(c, a)
  PROVE  S!SessionInv'
<1>1. UNCHANGED <<job, keys, queued, aged>>
  BY DEF S!Rcpt
<1>2. /\ conn[c] \in S!Session
      /\ conn[c].pc \in {"mail", "replied"} => conn[c].job \in DOMAIN Jobs
  BY DEF S!SessionInv, S!SessionTypes
<1>3. S!Closed \in S!Session /\ S!Closed.pc = "closed"
  BY DEF S!Closed, S!Session
<1>4. \E s \in S!Session : /\ conn' = [conn EXCEPT ![c] = s] /\ s.pc # "replied"
                           /\ s.pc = "mail" => s.job \in DOMAIN Jobs
  <2>1. CASE S!Rcpt(c, a)
    <3> DEFINE q == [conn[c] EXCEPT !.rcpts = Append(@, a)]
    <3>1. q \in S!Session /\ q.pc = conn[c].pc /\ q.job = conn[c].job
      <4>1. Append(conn[c].rcpts, a) \in Seq(S!Recipients)
        BY <1>2 DEF S!Session
      <4> QED BY <1>2, <4>1 DEF S!Session
    <3>2. conn' = [conn EXCEPT ![c] = q] /\ conn[c].pc = "mail"
      BY <2>1 DEF S!Rcpt
    <3> HIDE DEF q
    <3> QED BY <1>2, <3>1, <3>2
  <2> QED BY <2>1
<1> QED BY <1>1, <1>4, OneSession

\* The reply is read: the job is what it says.
LEMMA ReplyStep == ASSUME S!SessionInv, NEW c \in Conns, S!Reply(c) PROVE S!SessionInv'
<1> USE DEF S!SessionInv
<1> DEFINE j == conn[c].job
           q == [conn[c] EXCEPT !.pc = "open", !.job = NoId, !.reply = "none"]
<1>1. /\ conn[c].pc = "replied" /\ conn' = [conn EXCEPT ![c] = q]
      /\ job' = [job EXCEPT ![j] = CASE conn[c].reply = "250" -> "accepted"
                                     [] conn[c].reply = "5xx" -> "bounced"
                                     [] OTHER -> job[j]]
      /\ UNCHANGED <<keys, queued, aged>>
  BY DEF S!Reply
<1>2. /\ conn[c] \in S!Session /\ j \in DOMAIN Jobs
      /\ job \in [DOMAIN Jobs -> {"todo", "accepted", "bounced"}]
  BY <1>1 DEF S!SessionTypes
<1>3. q \in S!Session /\ q.pc = "open"
  BY <1>2 DEF S!Session
<1> HIDE DEF q
<1>4. conn'[c] = q /\ \A d \in Conns \ {c} : conn'[d] = conn[d]
  BY <1>1 DEF S!SessionTypes
<1>5. /\ job' \in [DOMAIN Jobs -> {"todo", "accepted", "bounced"}]
      /\ \A i \in DOMAIN Jobs \ {j} : job'[i] = job[i]
      /\ job'[j] = "accepted" => conn[c].reply = "250" \/ job[j] = "accepted"
      /\ job'[j] = "bounced" => conn[c].reply = "5xx" \/ job[j] = "bounced"
  BY <1>1, <1>2
<1>6. S!SessionTypes'
  BY <1>1, <1>3, <1>4, <1>5 DEF S!SessionTypes
<1>7. S!KeysKept'
  BY <1>1 DEF S!KeysKept
<1>8. \A i : S!InQueue(i)' = S!InQueue(i) /\ S!GivenUp(i)' = S!GivenUp(i)
  BY <1>1 DEF S!InQueue, S!GivenUp
<1>9. S!AnswersTrue'
  BY <1>1, <1>2, <1>3, <1>4, <1>5, <1>8 DEF S!AnswersTrue
<1> QED BY <1>6, <1>7, <1>9

\* The audience of a request is everyone in the envelope, shown or not.
LEMMA AudienceWhole ==
  ASSUME NEW rcpts \in Seq(S!Recipients), NEW visible
  PROVE  S!ToSet(rcpts) \subseteq visible \cup {p[1] : p \in S!blindRecipients(rcpts, visible)}
<1> SUFFICES ASSUME NEW i \in DOMAIN rcpts, rcpts[i] \notin visible
             PROVE  \E p \in S!blindRecipients(rcpts, visible) : p[1] = rcpts[i]
  BY DEF S!ToSet
<1> DEFINE blind == {k \in DOMAIN rcpts : rcpts[k] \notin visible}
<1>1. <<i, i>> \in {q \in blind \X blind : q[1] <= q[2]}
  <2>1. i \in Nat OBVIOUS
  <2> QED BY <2>1
<1>2. <<rcpts[i], rcpts[i]>> \in S!blindRecipients(rcpts, visible)
  <2>1. <<rcpts[<<i, i>>[1]], rcpts[<<i, i>>[2]]>> \in S!blindRecipients(rcpts, visible)
    BY <1>1 DEF S!blindRecipients
  <2> QED BY <2>1
<1> QED BY <1>2

LEMMA AudienceNamed ==
  ASSUME NEW rcpts \in Seq(S!Recipients), NEW visible, NEW p \in S!blindRecipients(rcpts, visible)
  PROVE  p[1] \in S!ToSet(rcpts)
  BY DEF S!blindRecipients, S!ToSet

\* With at most one blind recipient the order of the envelope is not told.
LEMMA OneBlind ==
  ASSUME NEW rcpts \in Seq(S!Recipients), NEW visible,
         \A a, b \in S!ToSet(rcpts) \ visible : a = b
  PROVE  S!blindRecipients(rcpts, visible) = {<<a, a>> : a \in S!ToSet(rcpts) \ visible}
<1> DEFINE blind == {k \in DOMAIN rcpts : rcpts[k] \notin visible}
<1>1. \A k \in blind : rcpts[k] \in S!ToSet(rcpts) \ visible
  BY DEF S!ToSet
<1>2. ASSUME NEW p \in S!blindRecipients(rcpts, visible)
      PROVE  p \in {<<a, a>> : a \in S!ToSet(rcpts) \ visible}
  <2>1. PICK q \in blind \X blind : p = <<rcpts[q[1]], rcpts[q[2]]>>
    BY <1>2 DEF S!blindRecipients
  <2>2. rcpts[q[1]] = rcpts[q[2]] /\ rcpts[q[1]] \in S!ToSet(rcpts) \ visible
    BY <1>1, <2>1
  <2> QED BY <2>1, <2>2
<1>3. ASSUME NEW a \in S!ToSet(rcpts) \ visible
      PROVE  <<a, a>> \in S!blindRecipients(rcpts, visible)
  <2>1. PICK i \in DOMAIN rcpts : a = rcpts[i] /\ i \in Nat
    BY DEF S!ToSet
  <2>2. <<i, i>> \in {q \in blind \X blind : q[1] <= q[2]}
    BY <2>1
  <2>3. <<rcpts[<<i, i>>[1]], rcpts[<<i, i>>[2]]>> \in S!blindRecipients(rcpts, visible)
    BY <2>2 DEF S!blindRecipients
  <2> QED BY <2>1, <2>3
<1> QED BY <1>2, <1>3

\* What a session asks for is one of the requests its job makes.
LEMMA AskedFor ==
  ASSUME NEW c \in Conns, NEW j \in DOMAIN Jobs, conn[c].rcpts \in Seq(S!Recipients),
         S!ToSet(conn[c].rcpts) = Jobs[j].envelope
  PROVE  S!Asked(S!Request(c, Jobs[j]), j)
<1> DEFINE r == S!Request(c, Jobs[j])
<1>1. r = [text |-> Jobs[j].text, to |-> Jobs[j].to, provider |-> S!resolveProvider(c, Jobs[j]),
           bcc |-> S!blindRecipients(conn[c].rcpts, Jobs[j].to)]
  BY DEF S!Request
<1>2. ~S!Reorderable(j) => r.bcc = {<<a, a>> : a \in Jobs[j].envelope \ Jobs[j].to}
  BY <1>1, OneBlind DEF S!Reorderable
<1>3. Jobs[j].provider # NoProvider => r.provider = Jobs[j].provider
  BY <1>1 DEF S!resolveProvider
<1> QED BY <1>1, <1>2, <1>3 DEF S!Asked

\* Two jobs with one key whose requests differ are told apart by what they say.
LEMMA Unlike ==
  ASSUME NEW i \in DOMAIN Jobs, NEW j \in DOMAIN Jobs, NEW r, NEW h,
         S!Asked(h, i), S!Asked(r, j), h # r, S!KeyOf(i) = S!KeyOf(j),
         Jobs[j].provider # NoProvider
  PROVE  \/ Jobs[i].text # Jobs[j].text \/ Jobs[i].to # Jobs[j].to
         \/ Jobs[i].provider # Jobs[j].provider \/ S!Reorderable(j)
<1> SUFFICES ASSUME Jobs[i].text = Jobs[j].text, Jobs[i].to = Jobs[j].to,
                    Jobs[i].provider = Jobs[j].provider, ~S!Reorderable(j)
             PROVE  FALSE
  OBVIOUS
<1>1. Jobs[i].envelope = Jobs[j].envelope
  BY DEF S!KeyOf
<1>2. ~S!Reorderable(i)
  BY <1>1 DEF S!Reorderable
<1>3. h.bcc = r.bcc /\ h.provider = r.provider
  BY <1>1, <1>2 DEF S!Asked
<1> QED BY <1>3 DEF S!Asked

\* What SendEmail queues: the first row under its key, to everyone in the envelope.
LEMMA Queues ==
  ASSUME S!SessionInv, NEW c \in Conns, NEW j \in DOMAIN Jobs, j = conn[c].job,
         S!ToSet(conn[c].rcpts) = Jobs[j].envelope,
         ~S!Replays(S!KeyOf(j), S!Request(c, Jobs[j])), ~S!Conflicts(S!KeyOf(j), S!Request(c, Jobs[j])),
         S!Queue(j, S!KeyOf(j), S!Request(c, Jobs[j])), UNCHANGED aged
  PROVE  /\ queued' \in Seq([job : DOMAIN Jobs, audience : SUBSET S!Everyone])
         /\ DOMAIN queued \subseteq DOMAIN queued' /\ S!KeysKept' /\ S!InQueue(j)'
         /\ \A i \in DOMAIN Jobs : (S!InQueue(i) => S!InQueue(i)') /\ (S!GivenUp(i) => S!GivenUp(i)')
<1> DEFINE r == S!Request(c, Jobs[j])
           row == [job |-> j, audience |-> S!Audience(r)]
           n == Len(queued) + 1
<1>1. conn[c].rcpts \in Seq(S!Recipients)
  BY DEF S!SessionInv, S!SessionTypes, S!Session
<1>2. Jobs[j].envelope \subseteq S!Audience(r) /\ S!Audience(r) \in SUBSET S!Everyone
  <2>1. /\ r.to = Jobs[j].to /\ r.bcc = S!blindRecipients(conn[c].rcpts, Jobs[j].to)
    BY DEF S!Request
  <2>2. Jobs[j].to \subseteq S!Everyone /\ Jobs[j].envelope \subseteq S!Everyone
    BY DEF S!Everyone
  <2>3. \A p \in r.bcc : p[1] \in Jobs[j].envelope
    BY <1>1, <2>1, AudienceNamed
  <2>4. Jobs[j].envelope \subseteq S!Audience(r)
    BY <1>1, <2>1, AudienceWhole DEF S!Audience
  <2> QED BY <2>1, <2>2, <2>3, <2>4 DEF S!Audience
<1>3. S!Asked(r, j)
  BY <1>1, AskedFor
<1>4. /\ queued \in Seq([job : DOMAIN Jobs, audience : SUBSET S!Everyone])
      /\ queued' = Append(queued, row)
      /\ keys' = IF Jobs[j].id = NoId THEN keys ELSE keys \cup {[key |-> S!KeyOf(j), hash |-> r]}
  BY DEF S!Queue, S!SessionInv, S!SessionTypes
<1>5. row \in [job : DOMAIN Jobs, audience : SUBSET S!Everyone] /\ row.job = j /\ row.audience = S!Audience(r)
  BY <1>2
<1> HIDE DEF row
<1>6. /\ queued' \in Seq([job : DOMAIN Jobs, audience : SUBSET S!Everyone])
      /\ DOMAIN queued' = DOMAIN queued \cup {n} /\ n \notin DOMAIN queued /\ queued'[n] = row
      /\ \A i \in DOMAIN queued : queued'[i] = queued[i]
  BY <1>4, <1>5
<1>7. \A k \in keys : k.key # S!KeyOf(j)
  BY DEF S!Replays, S!Conflicts
<1> HIDE DEF n, r
<1>8. S!InQueue(j)'
  BY <1>2, <1>5, <1>6 DEF S!InQueue
<1>9. \A i \in DOMAIN Jobs : (S!InQueue(i) => S!InQueue(i)') /\ (S!GivenUp(i) => S!GivenUp(i)')
  BY <1>6 DEF S!InQueue, S!GivenUp, S!KeyOf
<1>10. S!KeysKept'
  <2>1. \A k \in keys' : \E i \in DOMAIN queued' :
          /\ Jobs[queued'[i].job].id # NoId /\ k.key = S!KeyOf(queued'[i].job)
          /\ S!Asked(k.hash, queued'[i].job)
          /\ Jobs[queued'[i].job].envelope \subseteq queued'[i].audience
    <3> TAKE k \in keys'
    <3>1. CASE k \in keys
      <4>1. PICK i \in DOMAIN queued :
              /\ Jobs[queued[i].job].id # NoId /\ k.key = S!KeyOf(queued[i].job)
              /\ S!Asked(k.hash, queued[i].job)
              /\ Jobs[queued[i].job].envelope \subseteq queued[i].audience
        BY <3>1 DEF S!SessionInv, S!KeysKept
      <4>2. i \in DOMAIN queued' /\ queued'[i] = queued[i]
        BY <1>6
      <4> QED BY <4>1, <4>2
    <3>2. CASE k \notin keys
      <4>1. k = [key |-> S!KeyOf(j), hash |-> r] /\ Jobs[j].id # NoId
        BY <1>4, <3>2
      <4>2. k.key = S!KeyOf(j) /\ S!Asked(k.hash, j)
        BY <1>3, <4>1
      <4> QED BY <1>2, <1>5, <1>6, <4>1, <4>2
    <3> QED BY <3>1, <3>2
  <2>2. \A i \in DOMAIN queued' \ aged' : Jobs[queued'[i].job].id # NoId =>
          \E k \in keys' : k.key = S!KeyOf(queued'[i].job)
    <3> SUFFICES ASSUME NEW i \in DOMAIN queued' \ aged', Jobs[queued'[i].job].id # NoId
                 PROVE  \E k \in keys' : k.key = S!KeyOf(queued'[i].job)
      OBVIOUS
    <3>1. CASE i \in DOMAIN queued
      BY <1>4, <1>6, <3>1 DEF S!SessionInv, S!KeysKept
    <3>2. CASE i = n
      <4>1. Jobs[j].id # NoId /\ queued'[i].job = j
        BY <1>5, <1>6, <3>2
      <4>2. [key |-> S!KeyOf(j), hash |-> r] \in keys'
        BY <1>4, <4>1
      <4> QED BY <4>1, <4>2
    <3> QED BY <1>6, <3>1, <3>2
  <2>3. \A i, o \in DOMAIN queued' \ aged' :
          queued'[i].job = queued'[o].job /\ Jobs[queued'[i].job].id # NoId => i = o
    <3>1. \A i \in DOMAIN queued \ aged : queued[i].job = j => Jobs[j].id = NoId
      BY <1>7 DEF S!SessionInv, S!KeysKept
    <3>2. \A i, o \in DOMAIN queued \ aged :
            queued[i].job = queued[o].job /\ Jobs[queued[i].job].id # NoId => i = o
      BY DEF S!SessionInv, S!KeysKept
    <3> QED BY <1>5, <1>6, <3>1, <3>2
  <2> QED BY <2>1, <2>2, <2>3 DEF S!KeysKept, S!KeyOf, S!Asked, S!Reorderable
<1> QED BY <1>6, <1>8, <1>9, <1>10

LEMMA RowOf == ASSUME NEW Z, NEW q \in Seq(Z), NEW i \in DOMAIN q PROVE q[i] \in Z
  OBVIOUS

\* The message is parsed, handed to SendEmail and answered for.
LEMMA DataStep == ASSUME S!SessionInv, NEW c \in Conns, S!Data(c) PROVE S!SessionInv'
<1>0. PICK j \in DOMAIN Jobs : j = conn[c].job
  BY DEF S!Data, S!SessionInv, S!SessionTypes
<1> DEFINE m == Jobs[j]
           r == S!Request(c, m)
<1>1. /\ conn[c].pc = "mail" /\ S!ToSet(conn[c].rcpts) = m.envelope /\ UNCHANGED <<job, aged>>
  BY <1>0 DEF S!Data
<1>2. PICK answer \in {"250", "4xx", "5xx"} :
        /\ IF S!Unusable(c, m)
           THEN answer = "5xx" /\ UNCHANGED <<keys, queued, faults>>
           ELSE S!SendEmail(j, S!submissionKey(m.id, conn[c].rcpts), r, answer)
        /\ conn' = [conn EXCEPT ![c].pc = "replied", ![c].rcpts = <<>>, ![c].reply = answer]
  BY <1>0 DEF S!Data
<1>3. conn[c] \in S!Session
  BY DEF S!SessionInv, S!SessionTypes
<1>4. S!submissionKey(m.id, conn[c].rcpts) = S!KeyOf(j)
  BY <1>1 DEF S!submissionKey, S!KeyOf
<1>5. \/ UNCHANGED <<keys, queued>>
      \/ ~S!Replays(S!KeyOf(j), r) /\ ~S!Conflicts(S!KeyOf(j), r) /\ S!Queue(j, S!KeyOf(j), r)
  BY <1>2, <1>4 DEF S!SendEmail
<1>6. /\ queued' \in Seq([job : DOMAIN Jobs, audience : SUBSET S!Everyone]) /\ S!KeysKept'
      /\ aged' \subseteq DOMAIN queued'
      /\ \A i \in DOMAIN Jobs : (S!InQueue(i) => S!InQueue(i)') /\ (S!GivenUp(i) => S!GivenUp(i)')
  <2>1. CASE UNCHANGED <<keys, queued>>
    BY <1>1, <2>1 DEF S!SessionInv, S!SessionTypes, S!KeysKept, S!InQueue, S!GivenUp, S!KeyOf
  <2>2. CASE ~S!Replays(S!KeyOf(j), r) /\ ~S!Conflicts(S!KeyOf(j), r) /\ S!Queue(j, S!KeyOf(j), r)
    BY <1>0, <1>1, <2>2, Queues DEF S!SessionInv, S!SessionTypes
  <2> QED BY <1>5, <2>1, <2>2
<1>7. answer = "250" => S!InQueue(j)'
  <2> SUFFICES ASSUME answer = "250" PROVE S!InQueue(j)' OBVIOUS
  <2>1. /\ ~S!Unusable(c, m)
        /\ \/ S!Replays(S!KeyOf(j), r)
           \/ ~S!Replays(S!KeyOf(j), r) /\ ~S!Conflicts(S!KeyOf(j), r) /\ S!Queue(j, S!KeyOf(j), r)
    BY <1>2, <1>4 DEF S!SendEmail, S!submissionError
  <2>2. CASE S!Replays(S!KeyOf(j), r)
    <3>1. PICK k \in keys : k.key = S!KeyOf(j) /\ k.hash = r
      BY <2>2 DEF S!Replays
    <3>2. r.text = m.text
      BY DEF S!Request
    <3>3. PICK i \in DOMAIN queued :
            /\ S!KeyOf(j) = S!KeyOf(queued[i].job) /\ S!Asked(k.hash, queued[i].job)
            /\ Jobs[queued[i].job].envelope \subseteq queued[i].audience
      BY <3>1 DEF S!SessionInv, S!KeysKept
    <3>4. Jobs[queued[i].job].id = m.id /\ Jobs[queued[i].job].envelope = m.envelope
      BY <3>3 DEF S!KeyOf
    <3>5. S!InQueue(j)
      BY <3>1, <3>2, <3>3, <3>4 DEF S!InQueue, S!Asked
    <3> QED BY <1>6, <3>5
  <2>3. CASE ~S!Replays(S!KeyOf(j), r) /\ ~S!Conflicts(S!KeyOf(j), r) /\ S!Queue(j, S!KeyOf(j), r)
    BY <1>0, <1>1, <2>3, Queues
  <2> QED BY <2>1, <2>2, <2>3
<1>8. answer = "5xx" => S!GivenUp(j)'
  <2> SUFFICES ASSUME answer = "5xx" PROVE S!GivenUp(j)' OBVIOUS
  <2>1. CASE S!Unusable(c, m)
    <3>1. S!GivenUp(j)
      BY <2>1 DEF S!Unusable, S!GivenUp, S!resolveProvider, S!validProvider
    <3> QED BY <1>6, <3>1
  <2>2. CASE ~S!Unusable(c, m)
    <3>1. S!Conflicts(S!KeyOf(j), r)
      BY <1>2, <1>4, <2>2 DEF S!SendEmail, S!submissionError
    <3>2. PICK k \in keys : k.key = S!KeyOf(j) /\ k.hash # r
      BY <3>1 DEF S!Conflicts
    <3>3. PICK i \in DOMAIN queued :
            S!KeyOf(queued[i].job) = S!KeyOf(j) /\ S!Asked(k.hash, queued[i].job)
      BY <3>2 DEF S!SessionInv, S!KeysKept
    <3>5. queued[i].job \in DOMAIN Jobs /\ conn[c].rcpts \in Seq(S!Recipients)
      <4>1. queued \in Seq([job : DOMAIN Jobs, audience : SUBSET S!Everyone])
        BY DEF S!SessionInv, S!SessionTypes
      <4>2. queued[i] \in [job : DOMAIN Jobs, audience : SUBSET S!Everyone]
        BY <4>1, RowOf
      <4> QED BY <1>3, <4>2 DEF S!Session
    <3>6. S!Asked(r, j)
      BY <1>1, <3>5, AskedFor
    <3>4. S!GivenUp(j)
      BY <3>2, <3>3, <3>5, <3>6, Unlike DEF S!GivenUp
    <3> QED BY <1>6, <3>4
  <2> QED BY <2>1, <2>2
<1> DEFINE q == [conn[c] EXCEPT !.pc = "replied", !.rcpts = <<>>, !.reply = answer]
<1>9. /\ q \in S!Session /\ q.pc = "replied" /\ q.job = j /\ q.reply = answer
      /\ conn' = [conn EXCEPT ![c] = q]
  <2>1. conn' = [conn EXCEPT ![c] = q]
    BY <1>2
  <2>2. <<>> \in Seq(S!Recipients) /\ answer \in {"none", "250", "4xx", "5xx"}
    OBVIOUS
  <2>3. q \in S!Session
    BY <1>3, <2>2 DEF S!Session
  <2>4. q.pc = "replied" /\ q.job = conn[c].job /\ q.reply = answer
    BY <1>3 DEF S!Session
  <2> QED BY <1>0, <2>1, <2>3, <2>4
<1> HIDE DEF q, r, m
<1>10. conn'[c] = q /\ \A d \in Conns \ {c} : conn'[d] = conn[d]
  BY <1>9 DEF S!SessionInv, S!SessionTypes
<1>11. S!SessionTypes'
  BY <1>1, <1>6, <1>9, <1>10 DEF S!SessionInv, S!SessionTypes
<1>12. S!AnswersTrue'
  <2>1. \A i \in DOMAIN Jobs : (job'[i] = "accepted" => S!InQueue(i)') /\ (job'[i] = "bounced" => S!GivenUp(i)')
    BY <1>1, <1>6 DEF S!SessionInv, S!AnswersTrue
  <2>2. ASSUME NEW d \in Conns, conn'[d].pc = "replied"
        PROVE  /\ conn'[d].reply = "250" => S!InQueue(conn[d].job)'
               /\ conn'[d].reply = "5xx" => S!GivenUp(conn[d].job)'
    <3>1. PICK i \in DOMAIN Jobs : i = conn'[d].job
      BY <1>11, <2>2 DEF S!SessionTypes
    <3>2. /\ conn'[d].reply = "250" => S!InQueue(i)'
          /\ conn'[d].reply = "5xx" => S!GivenUp(i)'
      <4>1. CASE d = c
        BY <1>7, <1>8, <1>9, <1>10, <3>1, <4>1
      <4>2. CASE d # c
        <5>1. conn'[d] = conn[d] /\ i = conn[d].job
          BY <1>10, <3>1, <4>2
        <5>2. (conn[d].reply = "250" => S!InQueue(i)) /\ (conn[d].reply = "5xx" => S!GivenUp(i))
          BY <2>2, <5>1 DEF S!SessionInv, S!AnswersTrue
        <5> QED BY <1>6, <5>1, <5>2
      <4> QED BY <4>1, <4>2
    <3> QED BY <3>1, <3>2 DEF S!InQueue, S!GivenUp, S!KeyOf
  <2> QED BY <2>1, <2>2 DEF S!AnswersTrue
<1> QED BY <1>6, <1>11, <1>12 DEF S!SessionInv

\* A key leaves its window with the rows it stood for.
LEMMA WindowStep ==
  ASSUME S!SessionInv, NEW k \in keys, S!WindowEnds(k) PROVE S!SessionInv'
<1>1. /\ UNCHANGED <<conn, job, queued>> /\ keys' = keys \ {k}
      /\ aged' = aged \cup {i \in DOMAIN queued : S!KeyOf(queued[i].job) = k.key}
  BY DEF S!WindowEnds
<1>2. S!SessionTypes'
  BY <1>1 DEF S!SessionInv, S!SessionTypes
<1>3. S!KeysKept'
  <2>1. \A q \in keys' : \E i \in DOMAIN queued :
          /\ Jobs[queued[i].job].id # NoId /\ q.key = S!KeyOf(queued[i].job)
          /\ S!Asked(q.hash, queued[i].job)
          /\ Jobs[queued[i].job].envelope \subseteq queued[i].audience
    BY <1>1 DEF S!SessionInv, S!KeysKept
  <2>2. \A i \in DOMAIN queued \ aged' : Jobs[queued[i].job].id # NoId =>
          \E q \in keys' : q.key = S!KeyOf(queued[i].job)
    BY <1>1 DEF S!SessionInv, S!KeysKept
  <2>3. \A i, n \in DOMAIN queued \ aged' :
          queued[i].job = queued[n].job /\ Jobs[queued[i].job].id # NoId => i = n
    BY <1>1 DEF S!SessionInv, S!KeysKept
  <2> QED BY <1>1, <2>1, <2>2, <2>3 DEF S!KeysKept, S!KeyOf, S!Asked
<1>4. S!AnswersTrue'
  BY <1>1 DEF S!SessionInv, S!AnswersTrue, S!InQueue, S!GivenUp, S!KeyOf
<1> QED BY <1>2, <1>3, <1>4 DEF S!SessionInv

LEMMA SameSession ==
  ASSUME S!SessionInv, UNCHANGED <<conn, job, keys, queued, aged>> PROVE S!SessionInv'
<1>1. S!SessionTypes'
  BY DEF S!SessionInv, S!SessionTypes
<1>2. S!KeysKept'
  BY DEF S!SessionInv, S!KeysKept
<1>3. S!AnswersTrue'
  BY DEF S!SessionInv, S!AnswersTrue, S!InQueue, S!GivenUp, S!KeyOf
<1> QED BY <1>1, <1>2, <1>3 DEF S!SessionInv

\* Whatever a client or the endpoint does keeps the invariant.
LEMMA SessionStep == ASSUME S!SessionInv, [S!Next]_(S!vars) PROVE S!SessionInv'
<1>1. CASE S!Next
  <2>1. ASSUME S!Revoke PROVE S!SessionInv'
    BY <2>1, SameSession DEF S!Revoke
  <2> QED BY <1>1, <2>1, PlainSteps, LoginSteps, MailStep, RcptStep, ReplyStep, DataStep, WindowStep DEF S!Next, S!Recipients
<1>2. CASE UNCHANGED S!vars
  BY <1>2, SameSession DEF S!vars
<1> QED BY <1>1, <1>2

\* The session counts with the same operator.
LEMMA SameCount == \A Z : S!Cardinality(Z) = Cardinality(Z)
  BY DEF S!Cardinality, Cardinality

LEMMA SessionHolds == ASSUME S!SessionInv PROVE S!SubmittedOnce /\ S!NothingBouncedInVain
<1>1. \A j \in DOMAIN Jobs : Jobs[j].id # NoId => Cardinality(S!Rows(j) \ aged) <= 1
  <2> SUFFICES ASSUME NEW j \in DOMAIN Jobs, Jobs[j].id # NoId PROVE Cardinality(S!Rows(j) \ aged) <= 1
    OBVIOUS
  <2>1. CASE S!Rows(j) \ aged = {}
    BY <2>1, FS_EmptySet
  <2>2. CASE S!Rows(j) \ aged # {}
    <3>1. PICK i \in S!Rows(j) \ aged : TRUE
      BY <2>2
    <3>2. S!Rows(j) \ aged = {i}
      BY <3>1 DEF S!Rows, S!SessionInv, S!KeysKept
    <3>3. Cardinality({i}) = 1
      BY FS_Singleton
    <3> QED BY <3>2, <3>3
  <2> QED BY <2>1, <2>2
<1>2. \A j \in DOMAIN Jobs : job[j] = "accepted" => S!InQueue(j)
  BY DEF S!SessionInv, S!AnswersTrue
<1>3. S!SubmittedOnce
  BY <1>1, <1>2, SameCount DEF S!SubmittedOnce, S!InQueue
<1>4. S!NothingBouncedInVain
  BY DEF S!NothingBouncedInVain, S!SessionInv, S!AnswersTrue
<1> QED BY <1>3, <1>4

\* For any messages, envelopes, connections and usernames, whatever replies are lost
\* and however clients come back: a transaction with a Message-ID is queued once in
\* its key's window, one that was accepted is queued to everyone in its envelope, and
\* a client gives up only on a message that cannot be used, or whose key answers for
\* another one, for another provider or another order of several blind recipients
\* (Data, blindRecipients, submissionKey, requestHash, submissionError).
THEOREM SubmittedAsAnswered == Spec => []SubmissionsKept
<1> DEFINE Inv == part = "session" => S!SessionInv
<1>1. Init => Inv
  BY SessionInit DEF Init
<1>2. Inv /\ [Next]_vars => Inv'
  <2> SUFFICES ASSUME Inv, [Next]_vars, part' = "session" PROVE (S!SessionInv)' OBVIOUS
  <2>1. part = "session" /\ [S!Next]_(S!vars)
    BY DEF Next, vars, submitting, S!vars
  <2> QED BY <2>1, SessionStep
<1>3. Inv => SubmissionsKept
  BY SessionHolds DEF SubmissionsKept
<1> QED BY <1>1, <1>2, <1>3, PTL DEF Spec

-----------------------------------------------------------------------------
(* Filter rules and templates: what a cache may still say of an edit.      *)

LEMMA RulesInit == ASSUME F!FilterTimes PROVE F!Init => F!RulesInv
<1> SUFFICES ASSUME F!Init PROVE F!RulesInv OBVIOUS
<1>1. F!NoCache \in [version : Nat, rules : F!RuleLists, left : Int] /\ F!NoCache.left = -1
  BY DEF F!NoCache, F!RuleLists
<1>2. /\ F!NoRead \in [pc : {"idle", "asking", "read"}, generation : Nat, version : Nat,
                     rules : F!RuleLists, waited : Nat]
      /\ F!NoRead.pc = "idle" /\ F!NoRead.generation = 0 /\ F!NoRead.waited = 0
  BY DEF F!NoRead, F!RuleLists
<1>3. F!Current = 1 /\ versions \in Seq(SUBSET Catalogue) /\ ages \in Seq(Nat) /\ Len(ages) = 1
      /\ ages[1] = 0
  BY DEF F!Init, F!Current
<1>4. F!RuleTypes
  BY <1>1, <1>2, <1>3 DEF F!RuleTypes, F!Init
<1>5. F!ReadsRecent
  BY <1>2, <1>3, <1>4 DEF F!ReadsRecent, F!Init, F!RuleTypes, F!FilterTimes
<1>6. F!CacheRecent
  BY <1>1, <1>3 DEF F!CacheRecent, F!Init
<1> QED BY <1>4, <1>5, <1>6 DEF F!RulesInv

LEMMA WriteStep ==
  ASSUME F!FilterTimes, F!RulesInv, NEW n \in Nodes, NEW table \in SUBSET Catalogue, F!Write(n, table)
  PROVE  F!RulesInv'
<1> USE DEF F!RulesInv
<1>1. /\ versions' = Append(versions, table) /\ ages' = Append(ages, 0)
      /\ writer' = [writer EXCEPT ![n] = F!Current + 1]
      /\ UNCHANGED <<cached, generation, reader, returned>>
  BY DEF F!Write
<1>2. /\ versions \in Seq(SUBSET Catalogue) /\ ages \in Seq(Nat)
      /\ Len(versions) = F!Current /\ Len(ages) = F!Current /\ F!Current \in Nat /\ F!Current > 0
  BY DEF F!RuleTypes, F!Current
<1>3. F!Current' = F!Current + 1
  BY <1>1, <1>2 DEF F!Current
<1>4. /\ ages'[F!Current + 1] = 0 /\ \A v \in 1..F!Current : ages'[v] = ages[v]
      /\ versions' \in Seq(SUBSET Catalogue) /\ ages' \in Seq(Nat) /\ Len(ages') = F!Current + 1
  BY <1>1, <1>2
<1>5. F!RuleTypes'
  <2>1. /\ writer \in [Nodes -> 0..F!Current] /\ returned \in [Nodes -> 0..F!Current]
        /\ 0..F!Current \subseteq 0..F!Current + 1 /\ F!Current + 1 \in 0..F!Current + 1
    BY <1>2 DEF F!RuleTypes
  <2>2. writer' \in [Nodes -> 0..F!Current + 1] /\ returned' \in [Nodes -> 0..F!Current + 1]
    BY <1>1, <2>1
  <2> QED BY <1>1, <1>2, <1>3, <1>4, <2>2 DEF F!RuleTypes
<1>6. F!ReadsRecent'
  BY <1>1, <1>2, <1>3, <1>4 DEF F!ReadsRecent
<1>7. F!CacheRecent'
  BY <1>1, <1>2, <1>3, <1>4 DEF F!CacheRecent
<1> QED BY <1>5, <1>6, <1>7

LEMMA InvalidateStep ==
  ASSUME F!FilterTimes, F!RulesInv, NEW n \in Nodes, F!Invalidate(n) PROVE F!RulesInv'
<1> USE DEF F!RulesInv
<1>1. /\ generation' = [generation EXCEPT ![n] = @ + 1]
      /\ cached' = [cached EXCEPT ![n] = F!NoCache]
      /\ returned' = [returned EXCEPT ![n] = writer[n]]
      /\ writer' = [writer EXCEPT ![n] = 0]
      /\ UNCHANGED <<versions, reader, ages>> /\ F!Current' = F!Current /\ F!Current \in Nat
  BY DEF F!Invalidate, F!Current, F!RuleTypes
<1>2. F!NoCache \in [version : Nat, rules : F!RuleLists, left : Int] /\ F!NoCache.left = -1
  BY DEF F!NoCache, F!RuleLists
<1>3. F!RuleTypes'
  BY <1>1, <1>2 DEF F!RuleTypes
<1>4. /\ generation'[n] = generation[n] + 1 /\ cached'[n] = F!NoCache
      /\ \A o \in Nodes \ {n} : /\ generation'[o] = generation[o] /\ cached'[o] = cached[o]
                               /\ returned'[o] = returned[o]
      /\ \A o \in Nodes : generation[o] \in Nat /\ reader[o].generation \in Nat
  BY <1>1 DEF F!RuleTypes
<1>5. F!ReadsRecent'
  <2>1. \A o \in Nodes : reader[o].generation <= generation'[o]
    BY <1>1, <1>4 DEF F!ReadsRecent
  <2>2. generation'[n] # reader[n].generation
    BY <1>1, <1>4 DEF F!ReadsRecent
  <2> QED BY <1>1, <1>4, <2>1, <2>2 DEF F!ReadsRecent
<1>6. F!CacheRecent'
  BY <1>1, <1>2, <1>4 DEF F!CacheRecent
<1> QED BY <1>3, <1>5, <1>6

LEMMA ReadSteps ==
  ASSUME F!FilterTimes, F!RulesInv, NEW n \in Nodes, F!StartRead(n) \/ F!Query(n) \/ F!QueryFails(n)
  PROVE  F!RulesInv'
<1> USE DEF F!RulesInv
<1>1. /\ UNCHANGED <<versions, cached, generation, writer, ages, returned>>
      /\ F!Current' = F!Current /\ F!Current \in Nat /\ F!Current > 0
  BY DEF F!StartRead, F!Query, F!QueryFails, F!Current, F!RuleTypes
<1> DEFINE Read == [pc : {"idle", "asking", "read"}, generation : Nat, version : Nat,
                    rules : F!RuleLists, waited : Nat]
<1>2. PICK r \in Read :
        /\ reader' = [reader EXCEPT ![n] = r]
        /\ r.generation <= generation[n] /\ r.waited <= MaxQuery
        /\ r.pc = "read" => r.version = F!Current
  <2>0. /\ F!NoRead \in Read /\ F!NoRead.generation = 0 /\ F!NoRead.waited = 0 /\ F!NoRead.pc = "idle"
        /\ reader[n] \in Read /\ generation[n] \in Nat
    BY DEF F!NoRead, F!RuleLists, F!RuleTypes
  <2>1. CASE F!StartRead(n)
    <3> DEFINE q == [F!NoRead EXCEPT !.pc = "asking", !.generation = generation[n]]
    <3>1. q \in Read /\ q.generation = generation[n] /\ q.waited = 0 /\ q.pc = "asking"
      BY <2>0 DEF F!NoRead
    <3>2. reader' = [reader EXCEPT ![n] = q]
      BY <2>1 DEF F!StartRead
    <3>3. q.generation <= generation[n] /\ q.waited <= MaxQuery /\ q.pc # "read"
      BY <2>0, <3>1 DEF F!FilterTimes
    <3> HIDE DEF q
    <3> QED BY <3>1, <3>2, <3>3
  <2>2. CASE F!Query(n)
    <3> DEFINE q == [reader[n] EXCEPT !.pc = "read", !.version = F!Current,
                                      !.rules = F!EnabledRules(F!Current)]
    <3>1. F!EnabledRules(F!Current) \in F!RuleLists
      <4> DEFINE enabled == {r \in versions[F!Current] : r.enabled /\ r.direction = Direction}
      <4>1. enabled \in SUBSET Catalogue
        BY DEF F!RuleTypes, F!Current
      <4> QED BY <4>1 DEF F!EnabledRules, F!RuleLists
    <3>2. /\ q \in Read /\ q.pc = "read" /\ q.version = F!Current
          /\ q.generation = reader[n].generation /\ q.waited = reader[n].waited
      BY <1>1, <2>0, <3>1
    <3>3. reader' = [reader EXCEPT ![n] = q]
      BY <2>2 DEF F!Query
    <3> HIDE DEF q
    <3> QED BY <3>2, <3>3 DEF F!ReadsRecent
  <2>3. CASE F!QueryFails(n)
    <3>1. F!NoRead.generation <= generation[n] /\ F!NoRead.waited <= MaxQuery /\ F!NoRead.pc # "read"
      BY <2>0 DEF F!FilterTimes
    <3>2. reader' = [reader EXCEPT ![n] = F!NoRead]
      BY <2>3 DEF F!QueryFails
    <3> QED BY <2>0, <3>1, <3>2
  <2> QED BY <2>1, <2>2, <2>3
<1>3. F!RuleTypes'
  BY <1>1, <1>2 DEF F!RuleTypes
<1>4. F!ReadsRecent'
  <2>1. reader'[n] = r /\ \A o \in Nodes \ {n} : reader'[o] = reader[o]
    BY <1>2 DEF F!RuleTypes
  <2>2. ages[F!Current] = 0 /\ returned[n] \in 0..F!Current
    BY DEF F!ReadsRecent, F!RuleTypes
  <2>3. r.pc = "read" => /\ r.version \in 1..F!Current /\ ages[r.version] <= r.waited
                         /\ r.version >= returned[n]
    BY <1>1, <1>2, <2>2
  <2> QED BY <1>1, <1>2, <2>1, <2>2, <2>3 DEF F!ReadsRecent
<1>5. F!CacheRecent'
  BY <1>1 DEF F!CacheRecent
<1> QED BY <1>3, <1>4, <1>5

LEMMA FinishReadStep ==
  ASSUME F!FilterTimes, F!RulesInv, NEW n \in Nodes, NEW m, F!FinishRead(n, m) PROVE F!RulesInv'
<1> USE DEF F!RulesInv
<1>1. /\ reader[n].pc = "read" /\ reader' = [reader EXCEPT ![n] = F!NoRead]
      /\ UNCHANGED <<versions, generation, writer, ages, returned>>
      /\ F!Current' = F!Current /\ F!Current \in Nat /\ F!Current > 0
  BY DEF F!FinishRead, F!Current, F!RuleTypes
<1>2. /\ F!NoRead \in [pc : {"idle", "asking", "read"}, generation : Nat, version : Nat,
                     rules : F!RuleLists, waited : Nat]
      /\ F!NoRead.generation = 0 /\ F!NoRead.waited = 0 /\ F!NoRead.pc = "idle"
  BY DEF F!NoRead, F!RuleLists
<1>3. \/ cached' = cached
      \/ /\ generation[n] = reader[n].generation
         /\ cached' = [cached EXCEPT ![n] = [version |-> reader[n].version,
                                             rules |-> reader[n].rules, left |-> EnabledTTL]]
  BY DEF F!FinishRead
<1>4. /\ reader'[n] = F!NoRead /\ \A o \in Nodes \ {n} : reader'[o] = reader[o]
      /\ generation[n] \in Nat
  BY <1>1 DEF F!RuleTypes
<1>5. F!RuleTypes'
  <2>1. /\ [version |-> reader[n].version, rules |-> reader[n].rules, left |-> EnabledTTL]
             \in [version : Nat, rules : F!RuleLists, left : Int]
        /\ cached \in [Nodes -> [version : Nat, rules : F!RuleLists, left : Int]]
    BY DEF F!RuleTypes, F!FilterTimes
  <2>2. cached' \in [Nodes -> [version : Nat, rules : F!RuleLists, left : Int]]
    BY <1>3, <2>1
  <2> QED BY <1>1, <1>2, <2>2 DEF F!RuleTypes
<1>6. F!ReadsRecent'
  <2>1. F!NoRead.generation <= generation[n] /\ F!NoRead.waited <= MaxQuery /\ F!NoRead.pc # "read"
    BY <1>2, <1>4 DEF F!FilterTimes
  <2> QED BY <1>1, <1>4, <2>1 DEF F!ReadsRecent
<1>7. F!CacheRecent'
  <2>1. CASE cached' = cached
    BY <1>1, <2>1 DEF F!CacheRecent
  <2>2. CASE /\ generation[n] = reader[n].generation
             /\ cached' = [cached EXCEPT ![n] = [version |-> reader[n].version,
                                                 rules |-> reader[n].rules, left |-> EnabledTTL]]
    <3>1. /\ cached'[n].version = reader[n].version /\ cached'[n].left = EnabledTTL
          /\ \A o \in Nodes \ {n} : cached'[o] = cached[o]
      BY <2>2 DEF F!RuleTypes
    <3>2. /\ reader[n].version \in 1..F!Current /\ reader[n].version >= returned[n]
          /\ ages[reader[n].version] <= reader[n].waited /\ reader[n].waited <= MaxQuery
      BY <1>1, <2>2 DEF F!ReadsRecent
    <3>3. ages[reader[n].version] \in Nat /\ reader[n].waited \in Nat
      BY <3>2 DEF F!RuleTypes
    <3>4. ages[reader[n].version] <= MaxQuery + (EnabledTTL - EnabledTTL) /\ EnabledTTL <= EnabledTTL
      BY <3>2, <3>3 DEF F!FilterTimes
    <3> QED BY <1>1, <3>1, <3>2, <3>4 DEF F!CacheRecent
  <2> QED BY <1>3, <2>1, <2>2
<1> QED BY <1>5, <1>6, <1>7

LEMMA RulesTick == ASSUME F!FilterTimes, F!RulesInv, F!Tick PROVE F!RulesInv'
<1> USE DEF F!RulesInv
<1>1. /\ \A n \in Nodes : reader[n].pc = "idle" \/ reader[n].waited < MaxQuery
      /\ cached' = [n \in Nodes |-> F!Aged(cached[n])]
      /\ reader' = [n \in Nodes |-> IF reader[n].pc = "idle" THEN reader[n]
                                    ELSE [reader[n] EXCEPT !.waited = @ + 1]]
      /\ ages' = [v \in DOMAIN ages |-> IF v = F!Current \/ ages[v] = F!AgeBound THEN ages[v]
                                        ELSE ages[v] + 1]
      /\ UNCHANGED <<versions, generation, writer, returned>>
      /\ F!Current' = F!Current /\ F!Current \in Nat /\ F!Current > 0
  BY DEF F!Tick, F!Current, F!RuleTypes
<1>2. DOMAIN ages = 1..F!Current /\ \A v \in 1..F!Current : ages[v] \in Nat
  BY DEF F!RuleTypes
<1>3. /\ ages' \in Seq(Nat) /\ Len(ages') = F!Current /\ ages'[F!Current] = ages[F!Current]
      /\ \A v \in 1..F!Current : ages'[v] \in Nat /\ ages'[v] <= ages[v] + 1
  <2>1. ages' \in [1..F!Current -> Nat]
    BY <1>1, <1>2
  <2>2. \A v \in 1..F!Current : ages'[v] <= ages[v] + 1
    BY <1>1, <1>2
  <2> QED BY <1>1, <1>2, <2>1, <2>2
<1>4. \A n \in Nodes : /\ cached'[n] \in [version : Nat, rules : F!RuleLists, left : Int]
                       /\ cached'[n].left >= 0 => /\ cached[n].left > 0
                                                  /\ cached'[n].left = cached[n].left - 1
                                                  /\ cached'[n].version = cached[n].version
  <2> SUFFICES ASSUME NEW n \in Nodes
               PROVE  /\ cached'[n] \in [version : Nat, rules : F!RuleLists, left : Int]
                      /\ cached'[n].left >= 0 => /\ cached[n].left > 0
                                                 /\ cached'[n].left = cached[n].left - 1
                                                 /\ cached'[n].version = cached[n].version
    OBVIOUS
  <2>1. cached'[n] = F!Aged(cached[n]) /\ cached[n] \in [version : Nat, rules : F!RuleLists, left : Int]
    BY <1>1 DEF F!RuleTypes
  <2>2. CASE cached[n].left > 0
    BY <2>1, <2>2 DEF F!Aged
  <2>3. CASE ~(cached[n].left > 0)
    BY <2>1, <2>3 DEF F!Aged, F!NoCache, F!RuleLists
  <2> QED BY <2>2, <2>3
<1>5. \A n \in Nodes :
        /\ reader'[n] \in [pc : {"idle", "asking", "read"}, generation : Nat, version : Nat,
                           rules : F!RuleLists, waited : Nat]
        /\ reader'[n].pc = reader[n].pc /\ reader'[n].generation = reader[n].generation
        /\ reader'[n].version = reader[n].version
        /\ reader'[n].waited = IF reader[n].pc = "idle" THEN reader[n].waited ELSE reader[n].waited + 1
  <2> TAKE n \in Nodes
  <2>1. /\ reader[n] \in [pc : {"idle", "asking", "read"}, generation : Nat, version : Nat,
                           rules : F!RuleLists, waited : Nat]
        /\ reader'[n] = IF reader[n].pc = "idle" THEN reader[n]
                        ELSE [reader[n] EXCEPT !.waited = @ + 1]
    BY <1>1 DEF F!RuleTypes
  <2> QED BY <2>1
<1>6. F!RuleTypes'
  <2>1. cached' \in [Nodes -> [version : Nat, rules : F!RuleLists, left : Int]]
    BY <1>1, <1>4
  <2>2. reader' \in [Nodes -> [pc : {"idle", "asking", "read"}, generation : Nat, version : Nat,
                               rules : F!RuleLists, waited : Nat]]
    BY <1>1, <1>5
  <2> QED BY <1>1, <1>3, <2>1, <2>2 DEF F!RuleTypes
<1>7. F!ReadsRecent'
  <2> SUFFICES ASSUME NEW n \in Nodes
               PROVE  /\ reader'[n].generation <= generation[n]
                      /\ reader'[n].waited <= MaxQuery
                      /\ reader'[n].pc = "read" =>
                           /\ reader'[n].version \in 1..F!Current
                           /\ ages'[reader'[n].version] <= reader'[n].waited
                           /\ generation[n] = reader'[n].generation
                                => reader'[n].version >= returned[n]
    BY <1>1, <1>3 DEF F!ReadsRecent
  <2>1. reader[n].waited \in Nat
    BY DEF F!RuleTypes
  <2> QED BY <1>1, <1>2, <1>3, <1>5, <2>1 DEF F!ReadsRecent, F!FilterTimes
<1>8. F!CacheRecent'
  <2> SUFFICES ASSUME NEW n \in Nodes, cached'[n].left >= 0
               PROVE  /\ cached'[n].version \in 1..F!Current /\ cached'[n].left <= EnabledTTL
                      /\ cached'[n].version >= returned[n]
                      /\ ages'[cached'[n].version] <= MaxQuery + (EnabledTTL - cached'[n].left)
    BY <1>1 DEF F!CacheRecent
  <2>1. /\ cached[n].left > 0 /\ cached'[n].left = cached[n].left - 1
        /\ cached'[n].version = cached[n].version /\ cached[n].left \in Int
    BY <1>4 DEF F!RuleTypes
  <2>2. /\ cached[n].version \in 1..F!Current /\ cached[n].left <= EnabledTTL
        /\ cached[n].version >= returned[n]
        /\ ages[cached[n].version] <= MaxQuery + (EnabledTTL - cached[n].left)
    BY <2>1 DEF F!CacheRecent
  <2>3. /\ ages[cached[n].version] \in Nat /\ ages'[cached[n].version] \in Nat
        /\ ages'[cached[n].version] <= ages[cached[n].version] + 1
    BY <1>2, <1>3, <2>2
  <2> QED BY <2>1, <2>2, <2>3 DEF F!FilterTimes
<1> QED BY <1>6, <1>7, <1>8

\* A step of the store or of a screening keeps the invariant.
LEMMA RulesStep == ASSUME F!FilterTimes, F!RulesInv, [F!Next]_(F!vars) PROVE F!RulesInv'
<1>1. CASE F!Next
  <2>1. ASSUME NEW n \in Nodes, NEW m, F!Screen(n, m) PROVE F!RulesInv'
    BY <2>1 DEF F!Screen, F!RulesInv, F!RuleTypes, F!ReadsRecent, F!CacheRecent, F!Current
  <2> QED BY <1>1, <2>1, WriteStep, InvalidateStep, ReadSteps, FinishReadStep, RulesTick DEF F!Next
<1>2. CASE UNCHANGED F!vars
  BY <1>2 DEF F!vars, F!RulesInv, F!RuleTypes, F!ReadsRecent, F!CacheRecent, F!Current
<1> QED BY <1>1, <1>2

LEMMA RulesHold == ASSUME F!FilterTimes, F!RulesInv PROVE F!EditAppliesHere /\ F!EditAppliesSoon
<1>1. F!EditAppliesHere
  BY DEF F!RulesInv, F!CacheRecent, F!EditAppliesHere
<1>2. F!EditAppliesSoon
  <2> SUFFICES ASSUME NEW n \in Nodes, cached[n].left >= 0
               PROVE  ages[cached[n].version] <= EnabledTTL + MaxQuery
    BY DEF F!EditAppliesSoon
  <2>1. cached[n].left \in Int /\ cached[n].version \in 1..F!Current
    BY DEF F!RulesInv, F!RuleTypes, F!CacheRecent
  <2>2. ages[cached[n].version] \in Nat
    BY <2>1 DEF F!RulesInv, F!RuleTypes
  <2> QED BY <2>1, <2>2 DEF F!RulesInv, F!CacheRecent, F!FilterTimes
<1> QED BY <1>1, <1>2

LEMMA LeastOfTwo ==
  ASSUME NEW a \in Nat, NEW b \in Nat
  PROVE  /\ T!Min({a, b}) \in Nat /\ T!Min({a, b}) <= b
         /\ b < a => T!Min({a, b}) = b
         /\ T!Min({a, b}) < a => b < a
<1>1. PICK x \in {a, b} : \A y \in {a, b} : x =< y
  <2>1. CASE a <= b BY <2>1
  <2>2. CASE b <= a BY <2>2
  <2> QED BY <2>1, <2>2
<1>2. T!Min({a, b}) \in {a, b} /\ \A y \in {a, b} : T!Min({a, b}) =< y
  BY <1>1 DEF T!Min
<1> QED BY <1>2

LEMMA TemplatesInit == ASSUME T!TemplateTimes PROVE T!Init => T!TemplatesInv
<1> SUFFICES ASSUME T!Init PROVE T!TemplatesInv OBVIOUS
<1>1. tpls \in Seq(T!TextKinds) /\ Len(tpls) = 1
  <2>1. PICK t \in T!TextKinds : tpls = <<t>>
    BY DEF T!Init
  <2> HIDE DEF T!TextKinds
  <2> QED BY <2>1
<1>2. T!VersionsRecent
  BY <1>1 DEF T!Init, T!VersionsRecent, T!NoEntry, T!NoReading, T!Live, T!TemplateTimes
<1>3. T!EditReachesSends
  BY DEF T!Init, T!NoOutcome, T!EditReachesSends
<1> QED BY <1>1, <1>2, <1>3 DEF T!TemplatesInv

\* A change of the table begins the count again.
LEMMA EditSteps ==
  ASSUME T!TemplateTimes, T!TemplatesInv, T!Create \/ T!UpdateRead \/ T!UpdateWrite \/ T!Delete
  PROVE  T!TemplatesInv'
<1> USE DEF T!TemplatesInv
<1>1. UNCHANGED <<tplCached, reading, outcome>>
  BY DEF T!Create, T!UpdateRead, T!UpdateWrite, T!Delete
<1>2. /\ tpls' \in Seq(T!TextKinds) /\ Len(tpls') \in Nat /\ current' \in Nat
      /\ changed' = 0 \/ UNCHANGED <<changed, current>>
  <2>0. tpls \in Seq(T!TextKinds) /\ Len(tpls) \in Nat /\ current \in Nat
    BY DEF T!VersionsRecent
  <2>1. CASE \E t \in T!TextKinds : /\ tpls' = Append(tpls, t) /\ changed' = 0
                                    /\ current' = Len(tpls) + 1
    <3>1. PICK t \in T!TextKinds : /\ tpls' = Append(tpls, t) /\ changed' = 0
                                   /\ current' = Len(tpls) + 1
      BY <2>1
    <3> QED BY <2>0, <3>1
  <2>2. CASE UNCHANGED <<tpls, current, changed>>
    BY <2>0, <2>2
  <2>3. CASE T!Delete
    BY <2>0, <2>3 DEF T!Delete
  <2> QED BY <2>1, <2>2, <2>3 DEF T!Create, T!UpdateRead, T!UpdateWrite, T!Write
<1>3. T!VersionsRecent'
  <2>1. CASE changed' = 0
    BY <1>1, <1>2, <2>1 DEF T!VersionsRecent, T!Live, T!TemplateTimes
  <2>2. CASE UNCHANGED <<changed, current>>
    BY <1>1, <1>2, <2>2 DEF T!VersionsRecent, T!Live
  <2> QED BY <1>2, <2>1, <2>2
<1>4. T!EditReachesSends'
  BY <1>1 DEF T!EditReachesSends
<1> QED BY <1>2, <1>3, <1>4

LEMMA FetchSteps ==
  ASSUME T!TemplateTimes, T!TemplatesInv, T!ReadTemplate \/ T!GotTemplate \/ T!FromCache
  PROVE  T!TemplatesInv'
<1> USE DEF T!TemplatesInv
<1>1. UNCHANGED <<tpls, current, changed, outcome>>
  BY DEF T!ReadTemplate, T!GotTemplate, T!FromCache
<1>2. T!VersionsRecent'
  <2>1. CASE T!ReadTemplate
    BY <1>1, <2>1 DEF T!ReadTemplate, T!VersionsRecent, T!TemplateTimes, T!Live
  <2>2. CASE T!GotTemplate
    <3>1. /\ reading.state = "read" /\ reading' = [reading EXCEPT !.state = "got"]
          /\ tplCached' = IF reading.version # 0 THEN [version |-> reading.version, age |-> 0] ELSE tplCached
      BY <2>2 DEF T!GotTemplate
    <3>2. /\ reading' \in [state : {"none", "read", "got"}, version : Nat, age : Nat]
          /\ reading'.state = "got" /\ reading'.version = reading.version /\ reading'.age = reading.age
          /\ tplCached' \in [version : Nat, age : Nat]
      BY <3>1 DEF T!VersionsRecent
    <3>3. reading.version # current => changed <= TemplateTTL + MaxRead /\ changed <= MaxRead
      BY <3>1 DEF T!VersionsRecent, T!TemplateTimes
    <3>4. T!Live(tplCached)' /\ tplCached'.version # current => changed <= tplCached'.age + MaxRead
      BY <3>1, <3>3 DEF T!VersionsRecent, T!Live, T!TemplateTimes
    <3> QED BY <1>1, <3>2, <3>3, <3>4 DEF T!VersionsRecent
  <2>3. CASE T!FromCache
    <3>1. T!Live(tplCached) /\ reading' = [state |-> "got", version |-> tplCached.version, age |-> 0]
          /\ tplCached' = tplCached
      BY <2>3 DEF T!FromCache
    <3>2. tplCached.version # current => changed <= TemplateTTL + MaxRead
      BY <3>1 DEF T!VersionsRecent, T!Live, T!TemplateTimes
    <3> QED BY <1>1, <3>1, <3>2 DEF T!VersionsRecent, T!TemplateTimes, T!Live
  <2> QED BY <2>1, <2>2, <2>3
<1>3. T!EditReachesSends'
  BY <1>1 DEF T!EditReachesSends
<1> QED BY <1>1, <1>2, <1>3

LEMMA RenderStep == ASSUME T!TemplateTimes, T!TemplatesInv, T!RenderTemplate PROVE T!TemplatesInv'
<1> USE DEF T!TemplatesInv
<1>1. /\ reading.state = "got" /\ reading' = T!NoReading
      /\ UNCHANGED <<tpls, current, changed, tplCached>>
  BY DEF T!RenderTemplate
<1>2. T!VersionsRecent'
  BY <1>1 DEF T!VersionsRecent, T!NoReading, T!TemplateTimes, T!Live
<1>3. T!EditReachesSends'
  <2>1. CASE reading.version = 0
    BY <2>1 DEF T!RenderTemplate, T!EditReachesSends
  <2>2. CASE reading.version # 0
    <3>1. PICK data \in T!DataKinds :
            outcome' = [version |-> reading.version, changed |-> changed, latest |-> current,
                        html |-> T!Render(reading.version, data, TRUE),
                        text |-> T!Render(reading.version, data, FALSE), date |-> data.date]
      BY <2>2 DEF T!RenderTemplate
    <3>2. /\ outcome'.version = reading.version /\ outcome'.changed = changed
          /\ outcome'.latest = current
      BY <3>1
    <3> QED BY <1>1, <3>2 DEF T!VersionsRecent, T!EditReachesSends
  <2> QED BY <2>1, <2>2
<1> QED BY <1>1, <1>2, <1>3

LEMMA TemplatesTick == ASSUME T!TemplateTimes, T!TemplatesInv, T!Tick PROVE T!TemplatesInv'
<1> USE DEF T!TemplatesInv
<1>1. /\ reading.state = "read" => reading.age < MaxRead
      /\ reading.state # "got"
      /\ changed' = T!Min({MaxAge, changed + 1})
      /\ tplCached' = IF tplCached = T!NoEntry THEN T!NoEntry
                   ELSE [tplCached EXCEPT !.age = T!Min({TemplateTTL, @ + 1})]
      /\ reading' = IF reading.state = "read" THEN [reading EXCEPT !.age = @ + 1] ELSE reading
      /\ UNCHANGED <<tpls, current, outcome>>
  BY DEF T!Tick
<1>2. changed' \in Nat /\ changed' <= changed + 1
  <2>1. MaxAge \in Nat /\ changed + 1 \in Nat
    BY DEF T!VersionsRecent, T!TemplateTimes
  <2> QED BY <1>1, <2>1, LeastOfTwo
<1>3. /\ tplCached' \in [version : Nat, age : Nat]
      /\ T!Live(tplCached)' => /\ T!Live(tplCached) /\ tplCached'.version = tplCached.version
                               /\ tplCached'.age = tplCached.age + 1
  <2>1. CASE tplCached = T!NoEntry
    BY <1>1, <2>1 DEF T!NoEntry, T!Live
  <2>2. CASE tplCached # T!NoEntry
    <3> DEFINE older == T!Min({TemplateTTL, tplCached.age + 1})
    <3>1. tplCached' = [tplCached EXCEPT !.age = older] /\ tplCached \in [version : Nat, age : Nat]
      BY <1>1, <2>2 DEF T!VersionsRecent
    <3>2. TemplateTTL \in Nat /\ tplCached.age + 1 \in Nat
      BY <3>1 DEF T!TemplateTimes
    <3>3. /\ older \in Nat
          /\ tplCached.age + 1 < TemplateTTL => older = tplCached.age + 1
          /\ older < TemplateTTL => tplCached.age + 1 < TemplateTTL
      BY <3>2, LeastOfTwo
    <3> HIDE DEF older
    <3>4. /\ tplCached' \in [version : Nat, age : Nat]
          /\ tplCached'.version = tplCached.version /\ tplCached'.age = older
      BY <3>1, <3>3
    <3> QED BY <3>1, <3>2, <3>3, <3>4 DEF T!Live
  <2> QED BY <2>1, <2>2
<1>4. /\ reading' \in [state : {"none", "read", "got"}, version : Nat, age : Nat]
      /\ reading'.state = reading.state /\ reading'.version = reading.version
      /\ reading'.age <= MaxRead
      /\ reading.state = "read" => reading'.age = reading.age + 1
  BY <1>1 DEF T!VersionsRecent, T!TemplateTimes
<1>5. T!VersionsRecent'
  <2>1. reading'.state = "read" /\ reading'.version # current' => changed' <= reading'.age
    BY <1>1, <1>2, <1>4 DEF T!VersionsRecent
  <2>2. T!Live(tplCached)' /\ tplCached'.version # current' => changed' <= tplCached'.age + MaxRead
    BY <1>1, <1>2, <1>3 DEF T!VersionsRecent, T!TemplateTimes
  <2> QED BY <1>1, <1>2, <1>3, <1>4, <2>1, <2>2 DEF T!VersionsRecent
<1>6. T!EditReachesSends'
  BY <1>1 DEF T!EditReachesSends
<1> QED BY <1>1, <1>5, <1>6

\* An edit, a send or time keeps the invariant.
LEMMA TemplatesStep == ASSUME T!TemplateTimes, T!TemplatesInv, [T!Next]_(T!tplVars) PROVE T!TemplatesInv'
<1>1. CASE T!Next
  <2>1. ASSUME T!Evict PROVE T!TemplatesInv'
    BY <2>1 DEF T!Evict, T!TemplatesInv, T!VersionsRecent, T!EditReachesSends, T!Live
  <2> QED BY <1>1, <2>1, EditSteps, FetchSteps, RenderStep, TemplatesTick DEF T!Next
<1>2. CASE UNCHANGED T!tplVars
  BY <1>2 DEF T!tplVars, T!TemplatesInv, T!VersionsRecent, T!EditReachesSends, T!Live
<1> QED BY <1>1, <1>2

\* For any instances, rules, templates, cache times and times a query takes, however
\* reads and edits interleave: an edit of a rule holds at once where it was made and
\* within the cache's time and one query elsewhere, and an edit of a template reaches
\* every send within its cache's time and one read (Enabled, invalidate, getTemplate).
THEOREM EditsReachSends == Spec => []EditsReach
<1> DEFINE Inv == /\ part = "rules" => F!RulesInv
                  /\ part = "templates" => T!TemplatesInv
<1>0. F!FilterTimes /\ T!TemplateTimes
  BY TimesAssumption DEF F!FilterTimes, T!TemplateTimes
<1>1. Init => Inv
  BY <1>0, RulesInit, TemplatesInit DEF Init
<1>2. Inv /\ [Next]_vars => Inv'
  <2> SUFFICES ASSUME Inv, [Next]_vars PROVE Inv' OBVIOUS
  <2>1. ASSUME part' = "rules" PROVE (F!RulesInv)'
    <3>1. part = "rules" /\ [F!Next]_(F!vars)
      BY <2>1 DEF Next, vars, rules, F!vars
    <3> QED BY <1>0, <3>1, RulesStep
  <2>2. ASSUME part' = "templates" PROVE (T!TemplatesInv)'
    <3>1. part = "templates" /\ [T!Next]_(T!tplVars)
      BY <2>2 DEF Next, vars, templates, T!tplVars
    <3> QED BY <1>0, <3>1, TemplatesStep
  <2> QED BY <2>1, <2>2
<1>3. Inv => EditsReach
  BY <1>0, RulesHold DEF EditsReach, T!TemplatesInv
<1> QED BY <1>1, <1>2, <1>3, PTL DEF Spec
=============================================================================
