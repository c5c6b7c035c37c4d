----------------------------- MODULE EdgeProofs -----------------------------
(***************************************************************************)
(* The properties of MCEdge for every value of its constants.              *)
(*                                                                         *)
(* A behaviour is one of one component, so each property follows from the  *)
(* inductive invariant of that component (InboundInv, GateInv, IdleInv,    *)
(* ListenerInv, TargetInv, CopyInv, in its module).  The lemmas below are  *)
(* per component: what one step does to its invariant.                     *)
(***************************************************************************)
EXTENDS MCEdge, FiniteSetTheorems, TLAPS

\* What a function makes of a finite set is finite, and no larger.
LEMMA FiniteImage ==
    ASSUME NEW A, IsFiniteSet(A), NEW B, NEW f \in [A -> B], \A y \in B : \E x \in A : f[x] = y
    PROVE  IsFiniteSet(B) /\ Cardinality(B) <= Cardinality(A)
<1>1. f \in Surjection(A, B) BY DEF Surjection
<1> QED BY <1>1, FS_Surjection

-----------------------------------------------------------------------------
(* Inbound mail.                                                           *)

LEMMA InboundStart == N!Init => N!InboundInv
BY DEF N!Init, N!InboundInv, N!InboundTypes, N!Places, N!Doings, N!Idle, N!NoReceipt, N!DoneIsKept, N!Kept,
   N!CarriesVerdict, N!OneHandling, N!Busy, N!AcceptedIsKept, N!HeldStaysQuiet

\* A claim: a post that finds none, or one whose lease has run out.
LEMMA PostStep ==
  ASSUME N!InboundInv, NEW w \in N!Workers, NEW i \in Instances, N!Post(w, i)
  PROVE  N!InboundInv'
<1> USE DEF N!InboundInv, N!InboundTypes
<1>1. N!InboundTypes'
  BY DEF N!Busy, N!Post, N!Begin, N!Fault, N!Places, N!Doings
<1>2. CASE N!Begin(w, i, runs + 1) /\ N!ClaimResult = "acquired"
           /\ receipt' = [state |-> "PROCESSING", token |-> runs + 1, at |-> now]
           /\ excuse' = (IF receipt.state = "none" THEN excuse ELSE excuse \cup {"lapsed"})
           /\ UNCHANGED <<answered, faults>>
  <2>1. N!DoneIsKept' /\ N!CarriesVerdict' /\ N!AcceptedIsKept' /\ N!HeldStaysQuiet'
    BY <1>2 DEF N!Post, N!Begin, N!DoneIsKept, N!Kept, N!CarriesVerdict, N!AcceptedIsKept, N!HeldStaysQuiet
  <2>2. N!OneHandling'
    BY <1>2 DEF N!Post, N!Begin, N!OneHandling, N!Busy
  <2> QED BY <1>1, <2>1, <2>2
<1>2a. CASE /\ road = "keyless" /\ N!Begin(w, i, 0) /\ UNCHANGED <<receipt, answered, faults>>
           /\ excuse' = (IF runs = 0 THEN excuse ELSE excuse \cup {"keyless"})
  <2>1. N!DoneIsKept' /\ N!CarriesVerdict' /\ N!AcceptedIsKept' /\ N!HeldStaysQuiet'
    BY <1>2a DEF N!Post, N!Begin, N!DoneIsKept, N!Kept, N!CarriesVerdict, N!AcceptedIsKept, N!HeldStaysQuiet
  <2>2. N!OneHandling'
    <3>1. CASE runs = 0 /\ excuse = {}
      BY <1>2a, <3>1 DEF N!Post, N!Begin, N!OneHandling, N!Busy
    <3> QED BY <1>2a, <3>1 DEF N!OneHandling
  <2> QED BY <1>1, <2>1, <2>2
<1>3. CASE N!Fault("receipts") /\ N!Begin(w, i, 0) /\ UNCHANGED <<receipt, answered>>
  BY <1>1, <1>3 DEF N!Post, N!Fault, N!Begin, N!DoneIsKept, N!Kept, N!CarriesVerdict, N!OneHandling,
     N!AcceptedIsKept, N!HeldStaysQuiet
<1>4. CASE /\ N!ClaimResult = "duplicate" /\ answered' = TRUE
           /\ UNCHANGED <<receipt, worker, faults, excuse>>
  BY <1>1, <1>4 DEF N!Post, N!ClaimResult, N!DoneIsKept, N!Kept, N!CarriesVerdict, N!OneHandling, N!Busy,
     N!AcceptedIsKept, N!HeldStaysQuiet
<1>5. CASE UNCHANGED <<receipt, worker, answered, faults, excuse>>
  BY <1>1, <1>5 DEF N!Post, N!DoneIsKept, N!Kept, N!CarriesVerdict, N!OneHandling, N!Busy,
     N!AcceptedIsKept, N!HeldStaysQuiet
<1> QED BY <1>2, <1>3, <1>4, <1>5, <1>2a DEF N!Post

\* A read of the mailbox that overlaps another, or follows another instance's, is
\* excused; one that is neither finds at most its own instance's copy.
LEMMA ReadStep ==
  ASSUME N!InboundInv, NEW w \in N!Workers, NEW i \in Instances, N!Read(w, i)
  PROVE  N!InboundInv'
<1> USE DEF N!InboundInv, N!InboundTypes
<1>1. N!InboundTypes'
  BY DEF N!Busy, N!Read, N!Begin, N!Places, N!Doings
<1>2. N!DoneIsKept' /\ N!CarriesVerdict' /\ N!AcceptedIsKept' /\ N!HeldStaysQuiet'
  BY DEF N!Read, N!Begin, N!DoneIsKept, N!Kept, N!CarriesVerdict, N!AcceptedIsKept, N!HeldStaysQuiet
<1>3. N!OneHandling'
  <2> SUFFICES ASSUME excuse' = {} PROVE N!OneHandling' BY DEF N!OneHandling
  <2>1. excuse = {} /\ stored \ {i} = {} /\ \A v \in N!Workers : ~N!Busy(v) BY DEF N!Read
  <2> QED BY <2>1 DEF N!Read, N!Begin, N!OneHandling, N!Busy
<1> QED BY <1>1, <1>2, <1>3

LEMMA LookStep ==
  ASSUME N!InboundInv, NEW w \in N!Workers, N!Look(w)
  PROVE  N!InboundInv'
<1> USE DEF N!InboundInv, N!InboundTypes
<1>1. N!InboundTypes'
  BY DEF N!Busy, N!Look, N!Known, N!NoFault, N!Fault, N!Places, N!Doings
<1>2. N!DoneIsKept' /\ N!CarriesVerdict' /\ N!AcceptedIsKept' /\ N!HeldStaysQuiet'
  BY DEF N!Look, N!Known, N!NoFault, N!Fault, N!DoneIsKept, N!Kept, N!CarriesVerdict, N!AcceptedIsKept, N!HeldStaysQuiet
<1>3. N!OneHandling'
  <2>1. CASE excuse' = {}
    BY <2>1 DEF N!Look, N!Known, N!NoFault, N!Fault, N!OneHandling, N!Busy
  <2> QED BY <2>1 DEF N!OneHandling
<1> QED BY <1>1, <1>2, <1>3

LEMMA ScreenStep ==
  ASSUME N!InboundInv, NEW w \in N!Workers, N!Screen(w)
  PROVE  N!InboundInv'
<1> USE DEF N!InboundInv, N!InboundTypes
<1>1. N!InboundTypes'
  BY DEF N!Busy, N!Screen, N!NoFault, N!Fault, N!Places, N!Doings
<1>2. N!DoneIsKept' /\ N!CarriesVerdict' /\ N!AcceptedIsKept' /\ N!HeldStaysQuiet'
  BY DEF N!Screen, N!NoFault, N!Fault, N!DoneIsKept, N!Kept, N!CarriesVerdict, N!AcceptedIsKept, N!HeldStaysQuiet
<1>3. N!OneHandling'
  <2>1. CASE excuse' = {}
    BY <2>1 DEF N!Screen, N!NoFault, N!Fault, N!OneHandling, N!Busy
  <2> QED BY <2>1 DEF N!OneHandling
<1> QED BY <1>1, <1>2, <1>3

LEMMA WriteStep ==
  ASSUME N!InboundInv, NEW w \in N!Workers, N!Write(w)
  PROVE  N!InboundInv'
<1> USE DEF N!InboundInv, N!InboundTypes
<1>1. N!InboundTypes'
  BY DEF N!Busy, N!Write, N!NoFault, N!Fault, N!Places, N!Doings
<1>2. N!DoneIsKept' /\ N!AcceptedIsKept'
  <2>1. CASE stored' = stored \cup {worker[w].at} /\ N!NoFault
    <3>1. stored' # {} BY <2>1
    <3> QED BY <3>1 DEF N!DoneIsKept, N!Kept, N!AcceptedIsKept
  <2>2. CASE /\ N!Fault("write") /\ UNCHANGED stored
             /\ worker' = [worker EXCEPT ![w].pc = "done", ![w].did = "failed"]
    BY <2>2 DEF N!Write, N!Fault, N!DoneIsKept, N!Kept, N!AcceptedIsKept
  <2> QED BY <2>1, <2>2 DEF N!Write
<1>3. N!CarriesVerdict'
  BY DEF N!Write, N!NoFault, N!Fault, N!CarriesVerdict
<1>4. N!HeldStaysQuiet'
  BY DEF N!Write, N!NoFault, N!Fault, N!CarriesVerdict, N!HeldStaysQuiet
<1>5. N!OneHandling'
  <2>1. CASE excuse' = {}
    <3>1. excuse = {} BY <2>1 DEF N!Write, N!NoFault, N!Fault
    <3>2. stored = {} /\ announced = 0 /\ worker[w].did = verdict
      BY <3>1 DEF N!Write, N!OneHandling, N!CarriesVerdict
    <3>3. \A v \in N!Workers : v # w => ~N!Busy(v) BY <3>1 DEF N!Write, N!OneHandling, N!Busy
    <3>4. /\ stored' = {worker[w].at} /\ UNCHANGED <<road, receipt, released, verdict, runs>>
          /\ worker' = [worker EXCEPT ![w].pc = "done", ![w].did = "stored"]
          /\ announced' = IF verdict = "hold" THEN 0 ELSE 1
      BY <2>1, <3>1, <3>2 DEF N!Write, N!Fault
    <3>5. road = "http" => receipt.state = "PROCESSING"
      BY <3>1 DEF N!Write, N!OneHandling, N!Busy
    <3>6. \A v \in N!Workers : worker[v].did # "failed" BY <3>1 DEF N!OneHandling
    <3>7. \A v \in N!Workers : v # w => worker'[v] = worker[v] /\ worker[v].pc = "idle"
      BY <3>3, <3>4 DEF N!Busy
    <3>8. worker'[w].pc = "done" /\ worker'[w].did = "stored" BY <3>4
    <3>9. ~(road = "keyless" /\ runs = 0) BY <3>1 DEF N!Write, N!OneHandling, N!Busy
    <3> QED BY <3>4, <3>5, <3>6, <3>7, <3>8, <3>9 DEF N!OneHandling, N!Busy
  <2> QED BY <2>1 DEF N!OneHandling
<1> QED BY <1>1, <1>2, <1>3, <1>4, <1>5

LEMMA FinishStep ==
  ASSUME N!InboundInv, NEW w \in N!Workers, N!Finish(w)
  PROVE  N!InboundInv'
<1> USE DEF N!InboundInv, N!InboundTypes
<1>1. N!InboundTypes'
  BY DEF N!Busy, N!Finish, N!Release, N!Complete, N!Idle, N!NoReceipt, N!Places, N!Doings
<1>2. N!CarriesVerdict' /\ N!HeldStaysQuiet' /\ N!Kept' = N!Kept
  BY DEF N!Finish, N!Idle, N!CarriesVerdict, N!HeldStaysQuiet, N!Kept
<1>3. worker[w].did # "failed" => N!Kept BY DEF N!Finish, N!DoneIsKept
<1>4. N!AcceptedIsKept' BY <1>3 DEF N!Finish, N!AcceptedIsKept, N!Kept
<1>5. receipt'.state = "DONE" => N!Kept
  BY <1>3 DEF N!Finish, N!Release, N!Complete, N!NoReceipt, N!DoneIsKept
<1>6. \A v \in N!Workers : worker'[v] = worker[v] \/ worker'[v] = N!Idle BY DEF N!Finish
<1>7. N!DoneIsKept' BY <1>2, <1>5, <1>6 DEF N!DoneIsKept, N!Idle
<1>8. N!OneHandling'
  <2>1. CASE excuse' = {}
    BY <2>1 DEF N!Finish, N!Complete, N!Idle, N!OneHandling, N!Busy
  <2> QED BY <2>1 DEF N!OneHandling
<1> QED BY <1>1, <1>2, <1>4, <1>7, <1>8

\* Deaths, releases, retention and time.
LEMMA RestStep ==
  ASSUME N!InboundInv,
         \/ \E w \in N!Workers : N!Die(w)
         \/ \E i \in Instances : N!ReleaseHeld(i)
         \/ N!Expire \/ N!Tick \/ UNCHANGED N!vars
  PROVE  N!InboundInv'
<1> USE DEF N!InboundInv, N!InboundTypes, N!DoneIsKept, N!Kept, N!CarriesVerdict, N!OneHandling, N!Busy,
       N!AcceptedIsKept, N!HeldStaysQuiet
<1>1. CASE \E w \in N!Workers : N!Die(w)
  BY <1>1 DEF N!Die, N!Fault, N!Idle, N!Places, N!Doings
<1>2. CASE \E i \in Instances : N!ReleaseHeld(i)
  BY <1>2 DEF N!ReleaseHeld
<1>3. CASE N!Expire
  BY <1>3 DEF N!Expire, N!NoReceipt
<1>4. CASE N!Tick
  BY <1>4 DEF N!Tick
<1>5. CASE UNCHANGED N!vars
  BY <1>5 DEF N!vars
<1> QED BY <1>1, <1>2, <1>3, <1>4, <1>5

LEMMA InboundStep == N!InboundInv /\ [N!Next]_(N!vars) => N!InboundInv'
  BY PostStep, ReadStep, LookStep, ScreenStep, WriteStep, FinishStep, RestStep DEF N!Next

LEMMA InboundHolds == N!InboundInv => N!AcceptedIsKept /\ N!AnnouncedOnce /\ N!HeldStaysQuiet
  BY DEF N!InboundInv, N!OneHandling, N!AnnouncedOnce, N!InboundTypes

-----------------------------------------------------------------------------
(* The gate for posted mail.                                               *)

LEMMA GateInit == G!Init => G!GateInv
  BY DEF G!Init, G!GateInv, G!PostShape, G!OnlyTheProvidersOwn, G!FetchesPinned, G!NothingGivenUpInVain, G!FieldsKept

\* What is read out of a post keeps what it carried.
LEMMA FormKept ==
  ASSUME G!MailsOK, NEW m \in Mails, G!parsePayload(m).status = 0
  PROVE  /\ \A f \in m.fields : G!parsePayload(m).payload[f] = "form"
         /\ \A f \in m.raw : G!parsePayload(m).payload[f] # G!None
<1> DEFINE q == [f \in G!Fields |-> IF f \in m.fields THEN "form" ELSE G!None]
           p == G!readRaw(q, m.raw)
<1>1. G!parsePayload(m) = G!Payload(p)
  <2>1. ~(G!parsePayload(m) = G!Refusal(415)) /\ ~(G!parsePayload(m) = G!Refusal(400)) BY DEF G!Refusal
  <2> QED BY <2>1 DEF G!parsePayload
<1>2. G!parsePayload(m).payload = p BY <1>1 DEF G!Payload
<1>3. \A f \in G!Fields : p[f] = IF f \in m.raw THEN (IF q[f] = G!None THEN "raw" ELSE q[f]) ELSE q[f]
  BY DEF G!readRaw, G!Filled
<1>4. \A f \in G!Fields : q[f] = IF f \in m.fields THEN "form" ELSE G!None OBVIOUS
<1> HIDE DEF p, q
<1> QED BY <1>2, <1>3, <1>4 DEF G!MailsOK, G!None

LEMMA NoticeKept ==
  ASSUME G!MailsOK, NEW n \in Notices, G!parseSESReceived(n).status = 0
  PROVE  LET p == G!parseSESReceived(n).payload
         IN  /\ \A f \in n.headers : p[f] # G!None
             /\ n.carries = "message" => \A f \in n.content : p[f] # G!None \/ p["text"] = "content"
             /\ n.carries = "unparsable" => p["text"] = "content"
<1> DEFINE headers == [f \in G!Fields |->
                    IF f \in n.headers THEN "headers"
                    ELSE IF f = "from" /\ n.source THEN "envelope"
                    ELSE IF f = "to" /\ n.destination THEN "envelope" ELSE G!None]
           parsed == [f \in G!Fields |->
                   IF f \in n.content THEN "content"
                   ELSE IF f = "from" THEN "envelope"
                   ELSE IF f \in {"text", "html"} THEN G!None ELSE headers[f]]
           whole == [headers EXCEPT !["text"] = "content"]
           p == G!parseSESReceived(n).payload
<1>1. \A f \in n.headers : f \in G!Fields /\ headers[f] = "headers" /\ f \notin {"text", "html"}
  BY DEF G!MailsOK, G!Fields
<1>2. \A f \in n.headers : whole[f] # G!None BY <1>1 DEF G!None, G!Fields
<1>3. whole["text"] = "content" BY DEF G!Fields
<1>4. \A f \in G!Fields : f \in n.content \cup n.headers => parsed[f] # G!None BY <1>1 DEF G!None
<1>5. \A f \in G!Fields : parsed[f] # G!None => G!readRaw(parsed, n.content)[f] # G!None
  BY DEF G!readRaw, G!Filled, G!None
<1>6. \A s \in {400, 415} : G!Refusal(s).status # 0 BY DEF G!Refusal
<1>7. \A x : G!Payload(x).payload = x BY DEF G!Payload
<1>8. n.kind = "Received" BY <1>6 DEF G!parseSESReceived
<1>9. CASE n.carries = "nothing"
  <2>1. G!parseSESReceived(n) = G!Payload(headers) BY <1>6, <1>8, <1>9 DEF G!parseSESReceived
  <2>2. p = headers BY <2>1, <1>7
  <2> HIDE DEF p, headers
  <2> QED BY <1>1, <1>9, <2>2 DEF p, G!None
<1>10. CASE n.carries = "unparsable"
  <2>1. G!parseSESReceived(n) = G!Payload(whole) BY <1>8, <1>10 DEF G!parseSESReceived
  <2>2. p = whole BY <2>1, <1>7
  <2> HIDE DEF p, whole
  <2> QED BY <1>2, <1>3, <1>10, <2>2 DEF p
<1>11. CASE n.carries \notin {"nothing", "unparsable", "bad encoding"}
  <2>1. G!parseSESReceived(n) = G!Payload(whole) \/ G!parseSESReceived(n) = G!Payload(G!readRaw(parsed, n.content))
    BY <1>8, <1>11 DEF G!parseSESReceived
  <2>2. CASE p = whole
    <3> HIDE DEF p, whole
    <3> QED BY <1>2, <1>3, <1>11, <2>2 DEF p
  <2>3. CASE p = G!readRaw(parsed, n.content)
    <3>1. n.content \subseteq G!Fields BY DEF G!MailsOK
    <3> HIDE DEF p, parsed, headers
    <3> QED BY <1>1, <1>4, <1>5, <1>11, <2>3, <3>1 DEF p
  <2> QED BY <2>1, <2>2, <2>3, <1>7
<1>12. n.carries # "bad encoding" BY <1>6, <1>8 DEF G!parseSESReceived
<1> QED BY <1>9, <1>10, <1>11, <1>12

\* A post that is answered: it stays, or is gone with the reason it was given up for.
LEMMA AnswerStep ==
  ASSUME G!GateInv, NEW status, NEW why, G!Answer(status, why),
         post.genuine /\ status >= 400 /\ ~(status >= 500) =>
           \/ why \in {"row", "body", "mail"}
           \/ /\ why = "proof"
              /\ IF post.sns THEN post.envelope.topic \notin provider.secret
                 ELSE post.proof.secret \notin provider.secret
                      \/ (provider.type = "sendgrid" /\ post.proof.by = "signature")
  PROVE  G!PostShape' /\ G!NothingGivenUpInVain'
<1>1. CASE post' = post /\ UNCHANGED lost
  BY <1>1 DEF G!GateInv, G!PostShape, G!NothingGivenUpInVain
<1>2. CASE post' = G!NoPost /\ UNCHANGED lost
  BY <1>2 DEF G!GateInv, G!PostShape, G!NothingGivenUpInVain
<1>3. CASE /\ post' = G!NoPost /\ post.genuine /\ status >= 400 /\ ~(status >= 500)
           /\ lost' = lost \cup {[post |-> post, why |-> why, status |-> status, row |-> provider]}
  <2>1. G!PostShape' BY <1>3 DEF G!PostShape
  <2> DEFINE new == [post |-> post, why |-> why, status |-> status, row |-> provider]
  <2>2. new.post = post /\ new.why = why /\ new.row = provider OBVIOUS
  <2> HIDE DEF new
  <2>3. lost' = lost \cup {new} BY <1>3 DEF new
  <2>4. G!NothingGivenUpInVain' BY <1>3, <2>2, <2>3 DEF G!GateInv, G!NothingGivenUpInVain
  <2> QED BY <2>1, <2>4
<1> QED BY <1>1, <1>2, <1>3 DEF G!Answer

LEMMA PostedStep ==
  ASSUME G!GateInv, G!Posted PROVE G!GateInv'
<1>1. UNCHANGED <<let, fetched, lost>> BY DEF G!Posted
<1>2. G!PostShape'
  <2>1. ASSUME NEW e \in G!Envelopes, NEW n \in Notices,
               post' = [state |-> "sent", sns |-> TRUE, envelope |-> e, mail |-> n,
                        genuine |-> e.signed /\ e.cert = Region[e.topic] /\ e.url = Region[e.topic]]
        PROVE  G!PostShape'
    BY <2>1 DEF G!PostShape
  <2>2. ASSUME NEW q \in G!Proofs, NEW m \in Mails,
               post' = [state |-> "sent", sns |-> FALSE, proof |-> q, mail |-> m,
                        genuine |-> q.by # G!None /\ q.secret \in {"s1", "s2"}]
        PROVE  G!PostShape'
    BY <2>2 DEF G!PostShape
  <2> QED BY <2>1, <2>2 DEF G!Posted
<1> QED BY <1>1, <1>2 DEF G!GateInv, G!OnlyTheProvidersOwn, G!FetchesPinned, G!NothingGivenUpInVain, G!FieldsKept

\* Mail that is let in was proved, and carries what the post did.
LEMMA LetInStep ==
  ASSUME G!GateInv, NEW result, G!LetIn(result),
         result.status = 0 =>
           LET l == [post |-> post, row |-> provider, payload |-> result.payload]
           IN  /\ IF post.sns THEN post.envelope.signed /\ post.envelope.topic \in provider.secret
                  ELSE post.proof.by # G!None /\ post.proof.secret \in provider.secret
               /\ IF post.sns
                  THEN LET n == post.mail
                       IN /\ \A f \in n.headers : result.payload[f] # G!None
                          /\ n.carries = "message" =>
                               \A f \in n.content : result.payload[f] # G!None \/ result.payload["text"] = "content"
                          /\ n.carries = "unparsable" => result.payload["text"] = "content"
                  ELSE /\ \A f \in post.mail.fields : result.payload[f] = "form"
                       /\ \A f \in post.mail.raw : result.payload[f] # G!None
  PROVE  G!OnlyTheProvidersOwn' /\ G!FieldsKept'
<1>1. CASE UNCHANGED let BY <1>1 DEF G!GateInv, G!OnlyTheProvidersOwn, G!FieldsKept
<1>2. CASE result.status = 0
  <2> DEFINE l == [post |-> post, row |-> provider, payload |-> result.payload]
  <2>1. l.post = post /\ l.row = provider /\ l.payload = result.payload OBVIOUS
  <2> HIDE DEF l
  <2>2. let' = let \cup {l} BY <1>2 DEF G!LetIn, l
  <2>3. G!OnlyTheProvidersOwn' BY <1>2, <2>1, <2>2 DEF G!GateInv, G!OnlyTheProvidersOwn
  <2>4. G!FieldsKept' BY <1>2, <2>1, <2>2 DEF G!GateInv, G!FieldsKept
  <2> QED BY <2>3, <2>4
<1> QED BY <1>1, <1>2 DEF G!LetIn

LEMMA ServeParsedStep ==
  ASSUME G!MailsOK, G!GateInv, G!ServeParsed PROVE G!GateInv'
<1>0. post # G!NoPost /\ ~post.sns /\ UNCHANGED <<provider, fetched>> BY DEF G!ServeParsed
<1>1. post.proof \in G!Proofs /\ post.mail \in Mails
      /\ (post.genuine => post.proof.by # G!None /\ post.proof.secret \in {"s1", "s2"})
  BY <1>0 DEF G!GateInv, G!PostShape
<1>2. G!FetchesPinned' BY <1>0 DEF G!GateInv, G!FetchesPinned
<1> DEFINE result == G!parsePayload(post.mail)
<1>3. CASE ~G!authenticate(post.proof) /\ G!Answer(401, "proof") /\ UNCHANGED let
  <2>1. post.genuine => post.proof.secret \notin provider.secret
                        \/ (provider.type = "sendgrid" /\ post.proof.by = "signature")
    BY <1>1, <1>3 DEF G!authenticate, G!Credentials, G!Proofs
  <2>2. G!PostShape' /\ G!NothingGivenUpInVain' BY <1>0, <1>3, <2>1, AnswerStep
  <2>3. G!OnlyTheProvidersOwn' /\ G!FieldsKept' BY <1>3 DEF G!GateInv, G!OnlyTheProvidersOwn, G!FieldsKept
  <2> QED BY <1>2, <2>2, <2>3 DEF G!GateInv
<1>4. CASE /\ G!authenticate(post.proof)
           /\ G!Answer(IF result.status = 0 THEN 202 ELSE result.status, "mail") /\ G!LetIn(result)
  <2>1. G!PostShape' /\ G!NothingGivenUpInVain' BY <1>4, AnswerStep
  <2>2. post.proof.by # G!None /\ post.proof.secret \in provider.secret BY <1>4 DEF G!authenticate, G!Credentials
  <2>3. G!OnlyTheProvidersOwn' /\ G!FieldsKept' BY <1>0, <1>1, <1>4, <2>2, LetInStep, FormKept
  <2> QED BY <1>2, <2>1, <2>3 DEF G!GateInv
<1>5. CASE G!Answer(500, "process") /\ UNCHANGED let
  <2>1. G!PostShape' /\ G!NothingGivenUpInVain' BY <1>5, AnswerStep
  <2>2. G!OnlyTheProvidersOwn' /\ G!FieldsKept' BY <1>5 DEF G!GateInv, G!OnlyTheProvidersOwn, G!FieldsKept
  <2> QED BY <1>2, <2>1, <2>2 DEF G!GateInv
<1> QED BY <1>3, <1>4, <1>5 DEF G!ServeParsed

LEMMA ServeSNSStep ==
  ASSUME G!MailsOK, G!GateInv, G!ServeSNS PROVE G!GateInv'
<1> DEFINE e == post.envelope
           found == G!verifySNS(e)
           result == G!parseSESReceived(post.mail)
           urls == (IF G!AsksCertificate(e) THEN {e.cert} ELSE {})
                     \cup (IF found = "genuine" /\ G!Confirms(e) THEN {e.url} ELSE {})
<1>0. post # G!NoPost /\ post.sns /\ UNCHANGED provider BY DEF G!ServeSNS
<1>1. e \in G!Envelopes /\ post.mail \in Notices
      /\ (post.genuine => e.signed /\ e.cert = Region[e.topic] /\ e.url = Region[e.topic])
  BY <1>0 DEF G!GateInv, G!PostShape
<1>2. found = "genuine" => G!Pinned(e) /\ e.signed BY DEF G!verifySNS
<1>3. G!FetchesPinned'
  <2>1. G!Requests(urls) BY DEF G!ServeSNS
  <2>2. \A u \in urls : e.topic \in provider.secret /\ u = Region[e.topic]
    BY <1>2 DEF G!AsksCertificate, G!Pinned, G!topicAllowed, G!snsURLAllowed, G!Confirms
  <2> HIDE DEF urls
  <2>3. fetched' = fetched \cup {[url |-> u, topic |-> e.topic, row |-> provider] : u \in urls}
    BY <2>1 DEF G!Requests
  <2> QED BY <2>2, <2>3 DEF G!GateInv, G!FetchesPinned
<1>4. CASE UNCHANGED let /\ \E status \in {200, 500, 502, 503} : \E why : G!Answer(status, why)
  <2>1. G!PostShape' /\ G!NothingGivenUpInVain' BY <1>4, AnswerStep
  <2>2. G!OnlyTheProvidersOwn' /\ G!FieldsKept' BY <1>4 DEF G!GateInv, G!OnlyTheProvidersOwn, G!FieldsKept
  <2> QED BY <1>3, <2>1, <2>2 DEF G!GateInv
<1>5. CASE found = "forged" /\ G!Answer(401, "proof") /\ UNCHANGED let
  <2>1. post.genuine => e.topic \notin provider.secret
    BY <1>1, <1>5 DEF G!verifySNS, G!Pinned, G!topicAllowed, G!snsURLAllowed
  <2>2. G!PostShape' /\ G!NothingGivenUpInVain' BY <1>0, <1>5, <2>1, AnswerStep
  <2>3. G!OnlyTheProvidersOwn' /\ G!FieldsKept' BY <1>5 DEF G!GateInv, G!OnlyTheProvidersOwn, G!FieldsKept
  <2> QED BY <1>3, <2>2, <2>3 DEF G!GateInv
<1>6. CASE e.type = "SubscriptionConfirmation" /\ ~G!Confirms(e) /\ G!Answer(400, "url") /\ UNCHANGED let
  <2>1. ~post.genuine BY <1>1, <1>6 DEF G!Confirms, G!snsURLAllowed
  <2>2. G!PostShape' /\ G!NothingGivenUpInVain' BY <1>6, <2>1, AnswerStep
  <2>3. G!OnlyTheProvidersOwn' /\ G!FieldsKept' BY <1>6 DEF G!GateInv, G!OnlyTheProvidersOwn, G!FieldsKept
  <2> QED BY <1>3, <2>2, <2>3 DEF G!GateInv
<1>7. CASE /\ found = "genuine" /\ G!LetIn(result)
           /\ G!Answer(IF result.status = 0 THEN 202 ELSE result.status, "mail")
  <2>1. G!PostShape' /\ G!NothingGivenUpInVain' BY <1>7, AnswerStep
  <2>2. e.signed /\ e.topic \in provider.secret BY <1>2, <1>7 DEF G!Pinned, G!topicAllowed
  <2>3. G!OnlyTheProvidersOwn' /\ G!FieldsKept' BY <1>0, <1>1, <1>7, <2>2, LetInStep, NoticeKept
  <2> QED BY <1>3, <2>1, <2>3 DEF G!GateInv
<1>8. CASE /\ found = "genuine" /\ e.type = "SubscriptionConfirmation"
           /\ G!confirmSubscription(e) /\ UNCHANGED let
  BY <1>4, <1>6, <1>8 DEF G!confirmSubscription
<1> QED BY <1>4, <1>5, <1>7, <1>8 DEF G!ServeSNS

LEMMA GateStep ==
  ASSUME G!MailsOK, G!GateInv, [G!Next]_(G!gateVars) PROVE G!GateInv'
<1>1. CASE G!LookupFails \/ G!BodyRefused
  <2>1. G!PostShape' /\ G!NothingGivenUpInVain' BY <1>1, AnswerStep DEF G!LookupFails, G!BodyRefused
  <2>2. UNCHANGED <<let, fetched>> BY <1>1 DEF G!LookupFails, G!BodyRefused
  <2> QED BY <2>1, <2>2 DEF G!GateInv, G!OnlyTheProvidersOwn, G!FetchesPinned, G!FieldsKept
<1>2. CASE UNCHANGED <<post, let, fetched, lost>>
  BY <1>2 DEF G!GateInv, G!PostShape, G!OnlyTheProvidersOwn, G!FetchesPinned, G!NothingGivenUpInVain, G!FieldsKept
<1> QED BY <1>1, <1>2, PostedStep, ServeParsedStep, ServeSNSStep DEF G!Next, G!gateVars, G!Reconfigure, G!Outage

-----------------------------------------------------------------------------
(* IMAP idle sessions.                                                     *)

\* What the component's module calls finite and counts is what is so called here.
LEMMA IdleSizes ==
  \A Z : (D!IsFiniteSet(Z) <=> IsFiniteSet(Z)) /\ D!Cardinality(Z) = Cardinality(Z)
  BY DEF D!IsFiniteSet, IsFiniteSet, D!Cardinality, Cardinality

LEMMA IdleInit == D!Init => D!IdleInv
  BY IdleSizes, FS_EmptySet DEF D!Init, D!IdleInv

LEMMA IdleHolds == ASSUME D!IdleInv PROVE D!OneWatcher
<1> SUFFICES ASSUME NEW s \in live, ~s.cancelled PROVE Cardinality(D!Named(s.id)) = 1
  BY IdleSizes DEF D!IdleInv, D!OneWatcher
<1>1. D!Named(s.id) = {s} BY DEF D!IdleInv, D!Named
<1> QED BY <1>1, FS_Singleton

\* There is an id nobody has: there are more of them than sessions.
LEMMA FreshIsFree ==
    ASSUME D!SessionsOK, D!IdleInv, Cardinality(live) < MaxSessions
    PROVE  D!FreshId # 0 /\ D!Named(D!FreshId) = {}
<1> DEFINE ids == {s.id : s \in live}
           all == 1 .. MaxSessions + 1
<1>1. IsFiniteSet(ids) /\ Cardinality(ids) <= Cardinality(live)
  <2> DEFINE f == [s \in live |-> s.id]
  <2>1. f \in [live -> ids] /\ \A y \in ids : \E x \in live : f[x] = y OBVIOUS
  <2> HIDE DEF f, ids
  <2> QED BY IdleSizes, <2>1, FiniteImage DEF D!IdleInv
<1>2. Cardinality(live) \in Nat /\ Cardinality(ids) \in Nat
  BY IdleSizes, <1>1, FS_CardinalityType DEF D!IdleInv
<1>3. IsFiniteSet(all) /\ Cardinality(all) = MaxSessions + 1
  BY FS_Interval DEF D!SessionsOK
<1>4. ~(all \subseteq ids)
  <2> SUFFICES ASSUME all \subseteq ids PROVE FALSE OBVIOUS
  <2>1. Cardinality(all) <= Cardinality(ids) BY <1>1, FS_Subset
  <2> QED BY <1>1, <1>2, <1>3, <2>1 DEF D!SessionsOK
<1>5. PICK n \in all : n \notin ids BY <1>4
<1>6. D!Named(n) = {} BY <1>5 DEF D!Named
<1>7. D!FreshId \in all /\ D!Named(D!FreshId) = {} BY <1>6 DEF D!FreshId
<1> QED BY <1>7 DEF D!SessionsOK

\* A session stays itself when it is told to stop.
LEMMA StoppedIs ==
    ASSUME NEW s, DOMAIN s = D!SessionFields
    PROVE  DOMAIN D!Stopped(s) = D!SessionFields /\ D!Stopped(s).id = s.id /\ D!Stopped(s).of = s.of
           /\ D!Stopped(s).cancelled
  BY DEF D!SessionFields, D!Stopped

LEMMA StoppedFinite ==
    ASSUME NEW S, IsFiniteSet(S) PROVE IsFiniteSet({D!Stopped(s) : s \in S})
<1> DEFINE f == [s \in S |-> D!Stopped(s)]
           Z == {D!Stopped(s) : s \in S}
<1>1. f \in [S -> Z] /\ \A y \in Z : \E x \in S : f[x] = y OBVIOUS
<1> HIDE DEF f, Z
<1>2. IsFiniteSet(Z) BY <1>1, FiniteImage
<1> QED BY <1>2 DEF Z

LEMMA CancelStep ==
    ASSUME D!IdleInv, NEW S \in SUBSET live, live' = D!Cancel(S), UNCHANGED entry
    PROVE  D!IdleInv'
<1> USE DEF D!IdleInv
<1> DEFINE stops == {D!Stopped(s) : s \in S}
<1>1. IsFiniteSet(stops)
  <2>1. IsFiniteSet(S) BY IdleSizes, FS_Subset
  <2> QED BY <2>1, StoppedFinite
<1>2. IsFiniteSet(live')
  <2>1. live' = (live \ S) \cup stops BY DEF D!Cancel
  <2>2. IsFiniteSet(live \ S) BY IdleSizes, FS_Difference
  <2>3. IsFiniteSet((live \ S) \cup stops)
    <3> HIDE DEF stops
    <3> QED BY <1>1, <2>2, FS_Union
  <2> QED BY <2>1, <2>3
<1>3. \A t \in live' : t \in live \ S \/ \E s \in S : t = D!Stopped(s)
  BY DEF D!Cancel
<1>4. \A t \in live' : \/ t \in live \ S
                       \/ \E s \in S : /\ t = D!Stopped(s) /\ DOMAIN t = D!SessionFields
                                       /\ t.id = s.id /\ t.of = s.of /\ t.cancelled
  BY <1>3, StoppedIs
<1> QED BY IdleSizes, <1>2, <1>4

LEMMA EnsureStep ==
    ASSUME D!SessionsOK, D!IdleInv, NEW p \in Providers, D!EnsureListed(p)
    PROVE  D!IdleInv'
<1> USE DEF D!IdleInv
<1> DEFINE old == {s \in live : s.id = entry[p]}
           stops == {D!Stopped(s) : s \in old}
           new == [id |-> D!FreshId, of |-> p, version |-> listed[p], cancelled |-> FALSE, delay |-> 0]
<1>1. CASE UNCHANGED <<live, entry>> BY <1>1
<1>2. CASE live' = (live \ old) \cup stops \cup {new} /\ entry' = [entry EXCEPT ![p] = new.id]
  <2>1. Cardinality(live) < MaxSessions BY IdleSizes DEF D!EnsureListed
  <2>2. D!FreshId # 0 /\ D!Named(D!FreshId) = {} BY <2>1, FreshIsFree
  <2>3. DOMAIN new = D!SessionFields /\ new.id = D!FreshId /\ new.of = p /\ ~new.cancelled BY DEF D!SessionFields
  <2>4. \A s \in live : s.id # new.id BY <2>2, <2>3 DEF D!Named
  <2> HIDE DEF new
  <2>5. IsFiniteSet(live')
    <3>1. IsFiniteSet(old) BY IdleSizes, FS_Subset
    <3>2. IsFiniteSet(stops) BY <3>1, StoppedFinite
    <3>3. IsFiniteSet(live \ old) BY IdleSizes, FS_Difference
    <3> HIDE DEF stops, old
    <3>4. IsFiniteSet((live \ old) \cup stops) BY <3>2, <3>3, FS_Union
    <3> QED BY <1>2, <3>4, FS_AddElement
  <2>6. \A t \in live' : \/ t \in live \ old
                         \/ t = new
                         \/ \E s \in old : /\ t = D!Stopped(s) /\ DOMAIN t = D!SessionFields
                                           /\ t.id = s.id /\ t.of = s.of /\ t.cancelled
    BY <1>2, StoppedIs
  <2>7. \A s \in live \ old : ~s.cancelled => s.of # p /\ entry'[s.of] = s.id
    BY <1>2
  <2>8. entry'[p] = new.id /\ DOMAIN entry' = Providers BY <1>2
  <2>9. \A t \in live' : DOMAIN t = D!SessionFields /\ t.of \in Providers /\ t.id # 0
    BY <2>2, <2>3, <2>6
  <2>10. \A s, t \in live' : s.id = t.id => s = t BY <2>4, <2>6
  <2>11. \A s \in live' : ~s.cancelled => entry'[s.of] = s.id BY <2>3, <2>6, <2>7, <2>8
  <2> QED BY IdleSizes, <2>5, <2>8, <2>9, <2>10, <2>11
<1> QED BY <1>1, <1>2 DEF D!EnsureListed, D!ensure

LEMMA IdleStep ==
    ASSUME D!SessionsOK, D!IdleInv, [D!Next]_(D!ivars) PROVE D!IdleInv'
<1>1. ASSUME NEW p \in Providers, D!EnsureListed(p) PROVE D!IdleInv' BY <1>1, EnsureStep
<1>2. CASE D!stopUnwanted \/ D!stopAll
  <2>1. PICK S \in SUBSET live : live' = D!Cancel(S) BY <1>2 DEF D!stopUnwanted, D!stopAll
  <2>2. UNCHANGED entry BY <1>2 DEF D!stopUnwanted, D!stopAll
  <2> QED BY <2>1, <2>2, CancelStep
<1>3. ASSUME NEW s \in live, D!SessionEnds(s) PROVE D!IdleInv'
  <2>1. live' = live \ {s} /\ IsFiniteSet(live')
    BY IdleSizes, <1>3, FS_RemoveElement DEF D!SessionEnds, D!IdleInv
  <2>2. DOMAIN entry' = Providers BY <1>3 DEF D!SessionEnds, D!IdleInv
  <2>3. \A t \in live' : ~t.cancelled => entry'[t.of] = t.id
    BY <1>3, <2>1 DEF D!SessionEnds, D!IdleInv
  <2> QED BY IdleSizes, <2>1, <2>2, <2>3 DEF D!IdleInv
<1>4. ASSUME NEW s \in live, NEW d \in BOOLEAN, D!session(s, d) PROVE D!IdleInv'
  <2>1. PICK next : live' = (live \ {s}) \cup {[s EXCEPT !.delay = next]} BY <1>4 DEF D!session
  <2> DEFINE t == [s EXCEPT !.delay = next]
  <2>2. DOMAIN t = D!SessionFields /\ t.id = s.id /\ t.of = s.of /\ t.cancelled = s.cancelled
    BY DEF D!SessionFields, D!IdleInv
  <2> HIDE DEF t
  <2>3. live' = (live \ {s}) \cup {t} BY <2>1 DEF t
  <2>4. IsFiniteSet(live') BY IdleSizes, <2>3, FS_RemoveElement, FS_AddElement DEF D!IdleInv
  <2>5. UNCHANGED entry BY <1>4 DEF D!session
  <2> QED BY IdleSizes, <2>2, <2>3, <2>4, <2>5 DEF D!IdleInv
<1>5. CASE UNCHANGED <<live, entry>> BY <1>5 DEF D!IdleInv
<1> QED BY <1>1, <1>2, <1>3, <1>4, <1>5 DEF D!Next, D!ivars, D!ListTenants, D!Edited, D!TenantDone

\* Whatever is posted, read, retried, crashed, raced or reconfigured, at any number
\* of instances, readers and providers: mail comes in on the provider's own proof
\* and with all it carried, the answer "accepted" is no lie, the tenant hears of a
\* message once where nothing excuses a second handling (a failure, a lapsed claim,
\* an overlap, retention, or posts with no key), and a mailbox is watched by one
\* session at most (webhook.go, sns.go, process_inbound_usecase.go,
\* receipt_store.go, idle.go).
THEOREM MailComesInOnce == Spec => []InboundOnce
<1> DEFINE Inv == /\ part = "gate" => G!GateInv
                  /\ part = "inbound" => N!InboundInv
                  /\ part = "idle" => D!IdleInv
<1>1. Init => Inv
  BY GateInit, InboundStart, IdleInit DEF Init
<1>2. Inv /\ [Next]_vars => Inv'
  <2> SUFFICES ASSUME Inv, [Next]_vars PROVE Inv' OBVIOUS
  <2>1. ASSUME part' = "gate" PROVE (G!GateInv)'
    <3>1. part = "gate" /\ [G!Next]_(G!gateVars)
      BY <2>1 DEF Next, vars, entering, G!gateVars
    <3> QED BY <3>1, GateStep, GateAssumption
  <2>2. ASSUME part' = "inbound" PROVE (N!InboundInv)'
    <3>1. part = "inbound" /\ [N!Next]_(N!vars)
      BY <2>2 DEF Next, vars, arriving, N!vars
    <3> QED BY <3>1, InboundStep
  <2>3. ASSUME part' = "idle" PROVE (D!IdleInv)'
    <3>1. part = "idle" /\ [D!Next]_(D!ivars)
      BY <2>3 DEF Next, vars, watching, D!ivars
    <3> QED BY <3>1, IdleStep, IdleAssumption
  <2> QED BY <2>1, <2>2, <2>3
<1>3. Inv => InboundOnce
  BY InboundHolds, IdleHolds DEF InboundOnce, G!GateInv
<1> QED BY <1>1, <1>2, <1>3, PTL DEF Spec

-----------------------------------------------------------------------------
(* The SMTP listener.                                                      *)

\* What the component's module calls finite and counts is what is so called here.
LEMMA ListenerSizes ==
  \A Z : (L!IsFiniteSet(Z) <=> IsFiniteSet(Z)) /\ L!Cardinality(Z) = Cardinality(Z)
  BY DEF L!IsFiniteSet, IsFiniteSet, L!Cardinality, Cardinality

LEMMA OffIs == ~L!Off.enabled /\ L!Idle.pc = "idle"
  BY DEF L!Off, L!Default, L!Idle

LEMMA ListenerInit == L!Init => L!ListenerInv
  BY ListenerSizes, FS_EmptySet DEF L!Init, L!ListenerInv, L!ReportsWhatItServes

\* A new generation is nobody's.
LEMMA GenerationIsNew == ASSUME L!ListenerInv PROVE L!NextGeneration \notin L!Generations
<1> DEFINE gens == {s.gen : s \in sockets}
           all == 1 .. Cardinality(L!Generations) + 1
<1>1. IsFiniteSet(gens)
  <2> DEFINE f == [s \in sockets |-> s.gen]
  <2>1. f \in [sockets -> gens] /\ \A y \in gens : \E x \in sockets : f[x] = y OBVIOUS
  <2> HIDE DEF f, gens
  <2> QED BY ListenerSizes, <2>1, FiniteImage DEF L!ListenerInv
<1>2. IsFiniteSet(L!Generations)
  <2>1. IsFiniteSet({gen} \cup reports) BY ListenerSizes, FS_Singleton, FS_Union DEF L!ListenerInv
  <2>2. L!Generations = ({gen} \cup reports) \cup gens BY DEF L!Generations
  <2> HIDE DEF gens
  <2> QED BY <1>1, <2>1, <2>2, FS_Union
<1>3. Cardinality(L!Generations) \in Nat BY <1>2, FS_CardinalityType
<1>4. IsFiniteSet(all) /\ Cardinality(all) = Cardinality(L!Generations) + 1
  BY <1>3, FS_Interval
<1>5. ~(all \subseteq L!Generations)
  <2> SUFFICES ASSUME all \subseteq L!Generations PROVE FALSE OBVIOUS
  <2>1. Cardinality(all) <= Cardinality(L!Generations) BY <1>2, FS_Subset
  <2> QED BY <1>3, <1>4, <2>1
<1> QED BY ListenerSizes, <1>5 DEF L!NextGeneration

\* installLocked over what is left without the listener it replaces.
LEMMA InstallStep ==
    ASSUME L!ListenerInv, NEW c, L!Validate(c), c.enabled, L!installLocked(c, sockets \ L!Mine),
           UNCHANGED reports, DOMAIN actor' = L!Actors
    PROVE  L!ListenerInv'
<1> USE DEF L!ListenerInv
<1> DEFINE g == L!NextGeneration
           new == [gen |-> g, cfg |-> c, accepting |-> TRUE]
<1>1. /\ gen' = g /\ running' = c /\ sockets' = (sockets \ L!Mine) \cup {new}
  BY DEF L!installLocked
<1>2. g \notin reports /\ \A s \in sockets : s.gen # g BY GenerationIsNew DEF L!Generations
<1>3. DOMAIN new = L!SocketFields /\ new.gen = g /\ new.cfg = c /\ new.accepting BY DEF L!SocketFields
<1> HIDE DEF new, g
<1>4. IsFiniteSet(sockets') BY ListenerSizes, <1>1, FS_Difference, FS_AddElement
<1>5. \A s \in sockets \ L!Mine : ~s.accepting BY DEF L!Mine, L!ReportsWhatItServes
<1>6. \A s, t \in sockets' : s.gen = t.gen => s = t BY <1>1, <1>2, <1>3
<1>7. \A s \in sockets' : DOMAIN s = L!SocketFields /\ (s.gen \in reports => ~s.accepting)
  BY <1>1, <1>2, <1>3
<1>8. L!ReportsWhatItServes' BY <1>1, <1>3, <1>5 DEF L!ReportsWhatItServes, L!Validate
<1> QED BY ListenerSizes, <1>4, <1>6, <1>7, <1>8

LEMMA StopStep ==
    ASSUME L!ListenerInv, L!stopLocked, UNCHANGED reports, DOMAIN actor' = L!Actors
    PROVE  L!ListenerInv'
<1> USE DEF L!ListenerInv
<1>1. running' = L!Off /\ sockets' = sockets \ L!Mine BY DEF L!stopLocked
<1>2. IsFiniteSet(sockets') BY ListenerSizes, <1>1, FS_Difference
<1>3. \A s \in sockets' : ~s.accepting BY <1>1 DEF L!Mine, L!ReportsWhatItServes
<1>4. L!ReportsWhatItServes' BY <1>1, <1>3 DEF L!ReportsWhatItServes
<1> QED BY ListenerSizes, <1>1, <1>2, <1>4

LEMMA ApplyStep ==
    ASSUME L!ListenerInv, NEW c, L!Validate(c), L!Apply(c), UNCHANGED reports, DOMAIN actor' = L!Actors
    PROVE  /\ L!ListenerInv'
           /\ running # L!Off /\ c.enabled /\ L!Addr(running) # L!Addr(c) => running' # L!Off
<1> DEFINE Kept == running # L!Off /\ c.enabled /\ L!Addr(running) # L!Addr(c) => running' # L!Off
<1>1. CASE L!Unchanged
  BY <1>1 DEF L!Unchanged, L!ListenerInv, L!ReportsWhatItServes, L!Validate
<1>2. CASE ~c.enabled /\ L!stopLocked BY <1>2, StopStep
<1>3. CASE c.enabled /\ L!Move(c)
  <2>1. CASE L!installLocked(c, sockets \ L!Mine)
    BY <1>3, <2>1, InstallStep, OffIs DEF L!installLocked
  <2> QED BY <1>1, <1>3, <2>1 DEF L!Move
<1>4. CASE c.enabled /\ running # L!Off /\ L!Addr(running) = L!Addr(c) /\ L!Restart(c)
  <2>1. CASE L!installLocked(c, sockets \ L!Mine) BY <1>4, <2>1, InstallStep
  <2>2. CASE L!installLocked(running, sockets \ L!Mine)
    BY <1>4, <2>2, InstallStep DEF L!ListenerInv, L!ReportsWhatItServes
  <2>3. CASE L!stopLocked BY <1>4, <2>3, StopStep
  <2> QED BY <1>4, <2>1, <2>2, <2>3 DEF L!Restart
<1> QED BY <1>1, <1>2, <1>3, <1>4 DEF L!Apply

LEMMA ListenerStep ==
    ASSUME L!ListenerInv, [L!Next]_(L!lvars) PROVE L!ListenerInv'
<1>1. ASSUME NEW a \in L!Actors, L!ReadStored(a) PROVE L!ListenerInv'
  BY <1>1 DEF L!ReadStored, L!ListenerInv, L!ReportsWhatItServes, L!Validate
<1>2. ASSUME NEW a \in L!Actors, L!ApplyRead(a) PROVE L!ListenerInv'
  BY <1>2, ApplyStep DEF L!ApplyRead, L!ListenerInv
<1>3. ASSUME NEW a \in Editors, NEW ch \in Changes, L!Save(a, ch) PROVE L!ListenerInv'
  BY <1>3 DEF L!Save, L!ListenerInv, L!ReportsWhatItServes, L!Validate
<1>4. ASSUME NEW s \in sockets, L!LoopFails(s) PROVE L!ListenerInv'
  <2> USE DEF L!ListenerInv
  <2> DEFINE dead == [s EXCEPT !.accepting = FALSE]
  <2>1. DOMAIN dead = L!SocketFields /\ dead.gen = s.gen /\ dead.cfg = s.cfg /\ ~dead.accepting
    BY DEF L!SocketFields
  <2>2. sockets' = (sockets \ {s}) \cup {dead} /\ reports' = reports \cup {s.gen}
        /\ UNCHANGED <<running, gen, actor>>
    BY <1>4 DEF L!LoopFails
  <2> HIDE DEF dead
  <2>3. IsFiniteSet(sockets') /\ IsFiniteSet(reports')
    BY ListenerSizes, <2>2, FS_RemoveElement, FS_AddElement
  <2>4. L!ReportsWhatItServes' BY <2>1, <2>2 DEF L!ReportsWhatItServes, L!Validate
  <2> QED BY ListenerSizes, <2>1, <2>2, <2>3, <2>4
<1>5. ASSUME NEW s \in sockets, L!Collected(s) PROVE L!ListenerInv'
  <2> USE DEF L!ListenerInv
  <2>1. sockets' = sockets \ {s} /\ UNCHANGED <<running, gen, reports, actor>> /\ (s.gen # gen \/ running = L!Off)
    BY <1>5 DEF L!Collected
  <2>2. IsFiniteSet(sockets') BY ListenerSizes, <2>1, FS_RemoveElement
  <2>3. L!ReportsWhatItServes' BY <2>1 DEF L!ReportsWhatItServes, L!Validate
  <2> QED BY ListenerSizes, <2>1, <2>2, <2>3
<1>6. ASSUME NEW g \in reports, L!serve(g) PROVE L!ListenerInv'
  <2> USE DEF L!ListenerInv
  <2>1. reports' = reports \ {g} /\ UNCHANGED <<sockets, gen, actor>>
        /\ running' = IF g = gen THEN L!Off ELSE running
    BY <1>6 DEF L!serve
  <2>2. IsFiniteSet(reports') BY ListenerSizes, <2>1, FS_RemoveElement
  <2>3. L!ReportsWhatItServes' BY <2>1 DEF L!ReportsWhatItServes, L!Validate
  <2> QED BY ListenerSizes, <2>1, <2>2, <2>3
<1>7. ASSUME NEW p \in Ports, L!PortTaken(p) PROVE L!ListenerInv'
  BY <1>7 DEF L!PortTaken, L!ListenerInv, L!ReportsWhatItServes, L!Validate
<1>8. CASE L!Restarted
  BY ListenerSizes, <1>8, FS_EmptySet DEF L!Restarted, L!ListenerInv, L!ReportsWhatItServes
<1>9. CASE UNCHANGED L!lvars
  BY <1>9 DEF L!lvars, L!ListenerInv, L!ReportsWhatItServes, L!Validate
<1> QED BY <1>1, <1>2, <1>3, <1>4, <1>5, <1>6, <1>7, <1>8, <1>9 DEF L!Next

LEMMA MovesStayUp ==
    ASSUME L!ListenerInv, [L!Next]_(L!lvars) PROVE ~L!DownForAMove
<1> SUFFICES ASSUME NEW a \in L!Actors, actor'[a] # actor[a], actor[a].pc # "idle", actor'[a] = L!Idle,
                    actor[a].cfg.enabled, running # L!Off, L!Addr(running) # L!Addr(actor[a].cfg),
                    running' = L!Off, gen' # 0
             PROVE  FALSE
  BY DEF L!DownForAMove
<1>1. ASSUME NEW b \in L!Actors, L!ApplyRead(b) PROVE FALSE
  <2>1. b = a BY <1>1 DEF L!ApplyRead, L!ListenerInv
  <2> QED BY <1>1, <2>1, ApplyStep DEF L!ApplyRead, L!ListenerInv
<1>2. ASSUME NEW b \in L!Actors, L!ReadStored(b) PROVE FALSE
  BY <1>2 DEF L!ReadStored, L!ListenerInv
<1>3. ASSUME NEW b \in Editors, NEW ch \in Changes, L!Save(b, ch) PROVE FALSE
  BY <1>3 DEF L!Save
<1> QED BY <1>1, <1>2, <1>3 DEF L!Next, L!lvars, L!LoopFails, L!Collected, L!serve, L!PortTaken, L!Restarted

\* For any editors, forms, ports and accept loops that die: the settings page is
\* told of what the sockets serve, and a move to another address never leaves the
\* instance without a listener (Supervisor.State, serve and Apply, supervisor.go).
THEOREM ListenerStaysUp == Spec => ListenerKeepsServing
<1> DEFINE Inv == part = "listener" => L!ListenerInv
<1>1. Init => Inv
  BY ListenerInit DEF Init
<1>2. ASSUME [Next]_vars, part' = "listener" PROVE part = "listener" /\ [L!Next]_(L!lvars)
  BY <1>2 DEF Next, vars, listening, L!lvars
<1>3. ASSUME [Next]_vars, part = "listener" PROVE [L!Next]_(L!lvars)
  BY <1>3 DEF Next, vars, listening, L!lvars
<1>4. Inv /\ [Next]_vars => Inv'
  BY <1>2, ListenerStep
<1>5. Inv => (part = "listener" => L!ReportsWhatItServes)
  BY DEF L!ListenerInv
<1>6. Inv /\ [Next]_vars => [part = "listener" => ~L!DownForAMove]_vars
  BY <1>3, MovesStayUp
<1> QED BY <1>1, <1>4, <1>5, <1>6, PTL DEF Spec, ListenerKeepsServing

-----------------------------------------------------------------------------
(* Webhook targets.                                                        *)

LEMMA NothingYet == /\ DOMAIN T!NoRow = T!RowFields /\ ~T!NoRow.active /\ T!NoAttempt.state = "none"
                    /\ DOMAIN T!NoAttempt = {"state"}
  BY DEF T!NoRow, T!RowFields, T!NoAttempt

LEMMA TargetInit == T!Init => T!TargetInv
<1> SUFFICES ASSUME T!Init PROVE T!TargetInv OBVIOUS
<1>1. row # T!NoRow => DOMAIN row = T!RowFields /\ row.id = T!Legacy /\ row.secret = T!Unsigned
  BY DEF T!Init, T!LegacyRows, T!RowFields
<1> QED BY <1>1, NothingYet
      DEF T!Init, T!TargetInv, T!Told, T!NoPrivateTarget, T!SignedStaysHome, T!SignedAsTold

\* Starting is of the subscription as it is stored.
LEMMA StartsTold ==
  ASSUME T!TargetInv, row # T!NoRow, attempt' = T!Starting(row.id), UNCHANGED <<row, told, reached>>
  PROVE  T!TargetInv'
<1>1. /\ DOMAIN attempt' = T!AttemptFields /\ attempt'.of = row.id /\ attempt'.secret = row.secret
      /\ attempt'.at = attempt'.first
  BY DEF T!Starting, T!AttemptFields
<1> QED BY <1>1 DEF T!TargetInv, T!Told, T!NoPrivateTarget, T!SignedStaysHome, T!SignedAsTold

LEMMA TargetStep ==
  ASSUME T!TargetInv, [T!Next]_(T!targetVars) PROVE T!TargetInv'
<1> USE DEF T!TargetInv
<1>1. ASSUME T!Create PROVE T!TargetInv'
  <2>1. PICK id, u, evs, secret :
          row' = T!Inserted(id, u, evs, secret) /\ told' = told \cup {[id |-> id, secret |-> secret]}
    BY <1>1 DEF T!Create
  <2>2. DOMAIN row' = T!RowFields /\ row'.id = id /\ row'.secret = secret BY <2>1 DEF T!Inserted, T!RowFields
  <2>3. UNCHANGED <<attempt, reached>> BY <1>1 DEF T!Create
  <2> QED BY <2>1, <2>2, <2>3 DEF T!Told, T!NoPrivateTarget, T!SignedStaysHome, T!SignedAsTold
<1>2. ASSUME T!Update PROVE T!TargetInv'
  <2>1. PICK u, evs, active : row # T!NoRow /\ row' = T!Updated(row, u, evs, active)
    BY <1>2 DEF T!Update
  <2>2. DOMAIN row' = T!RowFields /\ row'.id = row.id /\ row'.secret = row.secret
    BY <2>1 DEF T!Updated, T!RowFields
  <2>3. UNCHANGED <<told, attempt, reached>> BY <1>2 DEF T!Update
  <2> QED BY <2>1, <2>2, <2>3 DEF T!Told, T!NoPrivateTarget, T!SignedStaysHome, T!SignedAsTold
<1>3. ASSUME T!Delete \/ T!ChangeDNS \/ T!Enqueue \/ UNCHANGED T!targetVars PROVE T!TargetInv'
  <2>1. UNCHANGED <<told, attempt, reached>> /\ (row' = row \/ row' = T!NoRow)
    BY <1>3 DEF T!Delete, T!ChangeDNS, T!Enqueue, T!targetVars
  <2> QED BY <2>1, NothingYet DEF T!Told, T!NoPrivateTarget, T!SignedStaysHome, T!SignedAsTold
<1>4. ASSUME T!Attempt PROVE T!TargetInv'
  <2>1. UNCHANGED <<row, told, reached>> /\ \E d \in pending :
           attempt' = IF row.id # d.of \/ ~row.active THEN T!NoAttempt ELSE T!Starting(d.of)
    BY <1>4 DEF T!Attempt
  <2>2. CASE attempt' = T!NoAttempt BY <2>1, <2>2 DEF T!Told, T!NoPrivateTarget, T!SignedStaysHome, T!SignedAsTold
  <2>3. CASE attempt' = T!Starting(row.id) /\ row.active
    BY <2>1, <2>3, StartsTold, NothingYet
  <2> QED BY <2>1, <2>2, <2>3
<1>5. ASSUME T!TestWebhook PROVE T!TargetInv'
  BY <1>5, StartsTold DEF T!TestWebhook
<1>6. ASSUME T!Dial PROVE T!TargetInv'
  <2>0. attempt.state = "dial" /\ UNCHANGED <<row, told>> BY <1>6 DEF T!Dial
  <2>1. attempt # T!NoAttempt BY <2>0, NothingYet
  <2>2. CASE attempt' = T!NoAttempt /\ UNCHANGED reached
    BY <2>0, <2>2 DEF T!Told, T!NoPrivateTarget, T!SignedStaysHome, T!SignedAsTold
  <2>3. ASSUME NEW a, T!Control(a), attempt' = [attempt EXCEPT !.state = "answer"],
               reached' = reached \cup {[address |-> a, at |-> attempt.at, first |-> attempt.first,
                                         secret |-> attempt.secret, of |-> attempt.of]}
        PROVE  T!TargetInv'
    <3>1. /\ DOMAIN attempt' = T!AttemptFields /\ attempt'.of = attempt.of /\ attempt'.secret = attempt.secret
          /\ attempt'.at = attempt.at /\ attempt'.first = attempt.first
      BY <2>1, <2>3 DEF T!AttemptFields
    <3>2. T!NoPrivateTarget' BY <2>3 DEF T!NoPrivateTarget, T!Control, T!Disallowed
    <3>3. T!SignedStaysHome' BY <2>1, <2>3 DEF T!SignedStaysHome
    <3>4. T!SignedAsTold'
      <4> SUFFICES ASSUME NEW r \in reached' PROVE T!Told(r.of, r.secret)
        BY <2>0 DEF T!SignedAsTold, T!Told
      <4>1. CASE r \in reached BY <4>1 DEF T!SignedAsTold
      <4>2. CASE r \notin reached
        <5>1. r.of = attempt.of /\ r.secret = attempt.secret BY <2>3, <4>2
        <5> QED BY <2>1, <5>1 DEF T!Told
      <4> QED BY <4>1, <4>2
    <3> QED BY <2>0, <2>1, <3>1, <3>2, <3>3, <3>4 DEF T!Told
  <2> QED BY <1>6, <2>2, <2>3 DEF T!Dial
<1>7. ASSUME T!Redirected \/ T!Answered PROVE T!TargetInv'
  <2>0. attempt.state = "answer" /\ UNCHANGED <<row, told, reached>> BY <1>7 DEF T!Redirected, T!Answered
  <2>1. attempt # T!NoAttempt BY <2>0, NothingYet
  <2>2. CASE attempt' = T!NoAttempt
    BY <2>0, <2>2 DEF T!Told, T!NoPrivateTarget, T!SignedStaysHome, T!SignedAsTold
  <2>3. ASSUME NEW to, T!CheckRedirect(to), attempt' = [attempt EXCEPT !.state = "dial", !.at = to, !.hops = @ + 1]
        PROVE  T!TargetInv'
    <3>1. /\ DOMAIN attempt' = T!AttemptFields /\ attempt'.of = attempt.of /\ attempt'.secret = attempt.secret
          /\ attempt'.at = to /\ attempt'.first = attempt.first
      BY <2>1, <2>3 DEF T!AttemptFields
    <3> QED BY <2>0, <2>1, <2>3, <3>1 DEF T!CheckRedirect, T!Told, T!NoPrivateTarget, T!SignedStaysHome, T!SignedAsTold
  <2> QED BY <1>7, <2>2, <2>3 DEF T!Redirected, T!Answered
<1> QED BY <1>1, <1>2, <1>3, <1>4, <1>5, <1>6, <1>7 DEF T!Next

\* For any hosts, addresses, redirects and edits: where the operator blocks private
\* addresses no webhook is posted to one; with or without that, a request does not
\* leave the host its subscriber named, and it is signed with the secret the
\* subscriber was told, or not at all where there never was one (egress.go,
\* newDeliveryClient, applySignature, webhook_usecase.go).
THEOREM PostedWhereItWasAsked == Spec => []TargetsKept
<1> DEFINE Inv == part = "targets" => T!TargetInv
<1>1. Init => Inv
  BY TargetInit DEF Init
<1>2. Inv /\ [Next]_vars => Inv'
  <2> SUFFICES ASSUME Inv, [Next]_vars, part' = "targets" PROVE (T!TargetInv)' OBVIOUS
  <2>1. part = "targets" /\ [T!Next]_(T!targetVars)
    BY DEF Next, vars, posting, T!targetVars
  <2> QED BY <2>1, TargetStep
<1>3. Inv => TargetsKept
  BY DEF TargetsKept, T!TargetInv
<1> QED BY <1>1, <1>2, <1>3, PTL DEF Spec

-----------------------------------------------------------------------------
(* Sent copies.                                                            *)

\* What the component's module calls finite and counts is what is so called here.
LEMMA CopySizes ==
  \A Z : (C!IsFiniteSet(Z) <=> IsFiniteSet(Z)) /\ C!Cardinality(Z) = Cardinality(Z)
  BY DEF C!IsFiniteSet, IsFiniteSet, C!Cardinality, Cardinality

LEMMA CopyInit == C!CopiesOK /\ C!Init => C!CopyInv
<1> SUFFICES ASSUME C!CopiesOK, C!Init PROVE C!CopyInv OBVIOUS
<1>1. C!CopyTypes
  BY DEF C!Init, C!CopyTypes, C!JobRows, C!Outcomes
<1>2. \A i \in Filers : C!Places(batch[i]) = {}
  BY DEF C!Init, C!Places
<1>3. C!ClaimsOwn /\ C!ClaimsHeld /\ C!OneInLease
  BY <1>2 DEF C!ClaimsOwn, C!ClaimsHeld, C!OneInLease
<1>4. C!TriesMade
  BY <1>2 DEF C!TriesMade, C!Made, C!Init, C!CopiesOK
<1>5. C!CopyAccounted
  BY DEF C!Init, C!CopyAccounted
<1> QED BY <1>1, <1>3, <1>4, <1>5 DEF C!CopyInv

LEMMA ClaimFacts ==
  ASSUME NEW c \in C!Claimed
  PROVE  /\ c.job \in Jobs /\ c.attempts \in Nat /\ c.filing \in BOOLEAN
         /\ c.token \in C!Tokens /\ c.token[1] \in Filers /\ c.token[2] \in Nat
         /\ c.token = <<c.token[1], c.token[2]>> /\ c.token # C!NoToken
<1>1. c.job \in Jobs /\ c.attempts \in Nat /\ c.filing \in BOOLEAN /\ c.token \in C!Tokens
  BY DEF C!Claimed
<1>2. ASSUME NEW t \in C!Tokens
      PROVE  t[1] \in Filers /\ t[2] \in Nat /\ t = <<t[1], t[2]>>
  BY <1>2 DEF C!Tokens
<1>3. \A a, b : <<a, b>> # C!NoToken
  BY DEF C!NoToken
<1> QED BY <1>1, <1>2, <1>3

LEMMA Dropped ==
  ASSUME C!CopyTypes, NEW i \in Filers, batch[i] # <<>>,
         batch' = [batch EXCEPT ![i] = Tail(@)]
  PROVE  /\ batch' \in [Filers -> Seq(C!Claimed)]
         /\ \A k \in Filers : \E d \in 0 .. 1 :
              /\ k = i => d = 1
              /\ \A n \in C!Places(batch'[k]) : n + d \in C!Places(batch[k]) /\ batch'[k][n] = batch[k][n + d]
<1>1. batch[i] \in Seq(C!Claimed) /\ Len(batch[i]) \in Nat /\ Len(batch[i]) > 0 BY DEF C!CopyTypes
<1>2. Tail(batch[i]) \in Seq(C!Claimed) /\ Len(Tail(batch[i])) = Len(batch[i]) - 1
      /\ \A n \in 1 .. Len(batch[i]) - 1 : Tail(batch[i])[n] = batch[i][n + 1]
  BY <1>1
<1>3. batch' \in [Filers -> Seq(C!Claimed)]
  BY <1>2 DEF C!CopyTypes
<1>4. ASSUME NEW k \in Filers
      PROVE  \E d \in 0 .. 1 :
              /\ k = i => d = 1
              /\ \A n \in C!Places(batch'[k]) : n + d \in C!Places(batch[k]) /\ batch'[k][n] = batch[k][n + d]
  <2>1. CASE k = i
    <3>1. batch'[k] = Tail(batch[i]) BY <2>1 DEF C!CopyTypes
    <3>2. C!Places(batch'[k]) = 1 .. Len(batch[i]) - 1 /\ C!Places(batch[k]) = 1 .. Len(batch[i])
      BY <1>2, <2>1, <3>1 DEF C!Places
    <3>3. \A n \in 1 .. Len(batch[i]) - 1 : n + 1 \in 1 .. Len(batch[i])
      BY <1>1
    <3>4. \A n \in C!Places(batch'[k]) : n + 1 \in C!Places(batch[k]) /\ batch'[k][n] = batch[k][n + 1]
      BY <1>2, <2>1, <3>1, <3>2, <3>3
    <3>5. 1 \in 0 .. 1 OBVIOUS
    <3> QED BY <3>4, <3>5
  <2>2. CASE k # i
    <3>1. batch'[k] = batch[k] BY <2>2 DEF C!CopyTypes
    <3>2. \A n \in C!Places(batch'[k]) : n + 0 \in C!Places(batch[k]) /\ batch'[k][n] = batch[k][n + 0]
      BY <3>1 DEF C!Places, C!CopyTypes
    <3> QED BY <3>2, <2>2
  <2> QED BY <2>1, <2>2
<1> QED BY <1>3, <1>4

\* What a batch that shrinks keeps.
LEMMA ShrinksKeeps ==
  ASSUME C!CopiesOK, C!CopyInv, C!CopyTypes', now' >= now, C!Shrinks
  PROVE  C!ClaimsOwn' /\ C!OneInLease'
<1> USE DEF C!CopyInv, C!CopyTypes, C!CopiesOK
<1>1. \A i \in Filers : \A n \in C!Places(batch[i]) : batch[i][n] \in C!Claimed /\ batch[i][n].token[2] \in Nat
  BY ClaimFacts DEF C!Places
<1>2. C!ClaimsOwn'
  <2> SUFFICES ASSUME NEW i \in Filers, NEW n \in C!Places(batch'[i])
               PROVE  /\ batch'[i][n].token[1] = i
                      /\ \A m \in C!Places(batch'[i]) : m # n => batch'[i][m].job # batch'[i][n].job
    BY DEF C!ClaimsOwn
  <2>1. PICK d \in 0 .. 1 : \A m \in C!Places(batch'[i]) :
          m + d \in C!Places(batch[i]) /\ batch'[i][m].job = batch[i][m + d].job
          /\ batch'[i][m].token = batch[i][m + d].token
    BY DEF C!Shrinks
  <2>2. \A m \in C!Places(batch'[i]) : m \in Nat /\ (m # n => m + d # n + d) BY DEF C!Places
  <2>3. C!ClaimsOwn OBVIOUS
  <2>4. batch[i][n + d].token[1] = i BY <2>1, <2>3 DEF C!ClaimsOwn
  <2>5. ASSUME NEW m \in C!Places(batch'[i]), m # n PROVE batch'[i][m].job # batch'[i][n].job
    <3>1. m + d \in C!Places(batch[i]) /\ n + d \in C!Places(batch[i]) /\ m + d # n + d BY <2>1, <2>2, <2>5
    <3>2. batch[i][m + d].job # batch[i][n + d].job BY <2>3, <3>1 DEF C!ClaimsOwn
    <3> QED BY <2>1, <3>2
  <2> QED BY <2>1, <2>4, <2>5
<1>3. C!OneInLease'
  <2> SUFFICES ASSUME NEW i \in Filers, NEW k \in Filers, i # k,
                      NEW m \in C!Places(batch'[i]), NEW n \in C!Places(batch'[k]),
                      batch'[i][m].job = batch'[k][n].job
               PROVE  C!Late(batch'[i][m], now') \/ C!Late(batch'[k][n], now')
    BY DEF C!OneInLease
  <2>1. PICK c \in 0 .. 1 : m + c \in C!Places(batch[i]) /\ batch'[i][m].job = batch[i][m + c].job
          /\ batch'[i][m].token = batch[i][m + c].token
    BY DEF C!Shrinks
  <2>2. PICK d \in 0 .. 1 : n + d \in C!Places(batch[k]) /\ batch'[k][n].job = batch[k][n + d].job
          /\ batch'[k][n].token = batch[k][n + d].token
    BY DEF C!Shrinks
  <2>3. C!Late(batch[i][m + c], now) \/ C!Late(batch[k][n + d], now)
    BY <2>1, <2>2 DEF C!OneInLease
  <2>4. ClaimLease \in Nat /\ now \in Nat /\ now' \in Nat OBVIOUS
  <2>5. batch[i][m + c].token[2] \in Nat /\ batch[k][n + d].token[2] \in Nat BY <1>1, <2>1, <2>2
  <2>6. ASSUME C!Late(batch[i][m + c], now) PROVE C!Late(batch'[i][m], now')
    BY <2>1, <2>4, <2>5, <2>6 DEF C!Late
  <2>7. ASSUME C!Late(batch[k][n + d], now) PROVE C!Late(batch'[k][n], now')
    BY <2>2, <2>4, <2>5, <2>7 DEF C!Late
  <2> QED BY <2>3, <2>6, <2>7
<1> QED BY <1>2, <1>3

LEMMA HeldKept ==
  ASSUME C!CopiesOK, C!CopyInv, C!CopyTypes', now' >= now, C!Shrinks,
         \A k \in Filers : \A n \in C!Places(batch'[k]) :
            \E j \in Jobs :
              /\ j = batch'[k][n].job
              /\ \/ jobs'[j].at = "gone"
                 \/ /\ jobs[j].at # "gone" /\ jobs'[j].token = jobs[j].token
                    /\ jobs'[j].claimedAt = jobs[j].claimedAt
                 \/ jobs[j].at # "gone" /\ jobs[j].token # batch'[k][n].token
  PROVE  C!ClaimsHeld'
<1> USE DEF C!CopyInv, C!CopyTypes, C!CopiesOK
<1>1. \A i \in Filers : \A n \in C!Places(batch[i]) : batch[i][n] \in C!Claimed /\ batch[i][n].token[2] \in Nat
  BY ClaimFacts DEF C!Places
<1> SUFFICES ASSUME NEW k \in Filers, NEW n \in C!Places(batch'[k])
             PROVE  \/ C!Late(batch'[k][n], now')
                    \/ jobs'[batch'[k][n].job].at = "gone"
                    \/ /\ jobs'[batch'[k][n].job].token = batch'[k][n].token
                       /\ jobs'[batch'[k][n].job].claimedAt = batch'[k][n].token[2]
  BY DEF C!ClaimsHeld
<1>2. PICK d \in 0 .. 1 : n + d \in C!Places(batch[k]) /\ batch'[k][n].job = batch[k][n + d].job
          /\ batch'[k][n].token = batch[k][n + d].token
  BY DEF C!Shrinks
<1>3. CASE C!Late(batch[k][n + d], now)
  BY <1>1, <1>2, <1>3 DEF C!Late
<1>4. CASE jobs[batch[k][n + d].job].at = "gone"
  BY <1>2, <1>4
<1>5. CASE /\ jobs[batch[k][n + d].job].token = batch[k][n + d].token
           /\ jobs[batch[k][n + d].job].claimedAt = batch[k][n + d].token[2]
  BY <1>2, <1>5
<1> QED BY <1>2, <1>3, <1>4, <1>5 DEF C!ClaimsHeld

\* Tries are only added, and a claim that begins adds its own.
LEMMA TriesKept ==
  ASSUME C!CopiesOK, C!CopyInv, C!CopyTypes', C!Shrinks,
         \A j \in Jobs : outcome'[j].tries >= outcome[j].tries,
         \A j \in Jobs : C!Made(outcome[j].tries, jobs'[j].attempts),
         \A k \in Filers : \A n \in C!Places(batch'[k]) :
            batch'[k][n].filing => C!Made(outcome'[batch'[k][n].job].tries, batch'[k][n].attempts + 1)
  PROVE  C!TriesMade'
<1>0. MaxAttempts \in Nat BY DEF C!CopiesOK
<1>1. \A j \in Jobs : outcome[j].tries \in Nat /\ outcome'[j].tries \in Nat /\ jobs'[j].attempts \in Nat
  BY DEF C!Outcomes, C!JobRows, C!CopyInv, C!CopyTypes
<1>2. \A j \in Jobs : C!Made(outcome'[j].tries, jobs'[j].attempts)
  <2> TAKE j \in Jobs
  <2>1. C!Made(outcome[j].tries, jobs'[j].attempts) /\ outcome'[j].tries >= outcome[j].tries OBVIOUS
  <2> QED BY <1>0, <1>1, <2>1 DEF C!Made
<1>3. ASSUME NEW k \in Filers, NEW n \in C!Places(batch'[k])
      PROVE  C!Made(outcome'[batch'[k][n].job].tries, batch'[k][n].attempts)
  <2>1. PICK d \in 0 .. 1 : n + d \in C!Places(batch[k]) /\ batch'[k][n].job = batch[k][n + d].job
          /\ batch'[k][n].attempts = batch[k][n + d].attempts
    BY <1>3 DEF C!Shrinks
  <2>2. batch[k][n + d] \in C!Claimed BY <2>1 DEF C!Places, C!CopyInv, C!CopyTypes
  <2>3. batch[k][n + d].job \in Jobs /\ batch[k][n + d].attempts \in Nat BY <2>2, ClaimFacts
  <2>4. C!Made(outcome[batch[k][n + d].job].tries, batch[k][n + d].attempts)
    BY <2>1 DEF C!CopyInv, C!TriesMade
  <2>5. outcome'[batch[k][n + d].job].tries >= outcome[batch[k][n + d].job].tries BY <2>3
  <2> QED BY <1>0, <1>1, <2>1, <2>3, <2>4, <2>5 DEF C!Made
<1> QED BY <1>2, <1>3 DEF C!TriesMade

\* The steps that leave the batches alone.
LEMMA BatchSame ==
  ASSUME C!CopyTypes, UNCHANGED batch
  PROVE  C!Shrinks /\ \A k \in Filers : \A n \in C!Places(batch'[k]) : n \in C!Places(batch[k]) /\ batch'[k][n] \in C!Claimed
<1>1. \A k \in Filers : \A n \in C!Places(batch'[k]) :
        n + 0 \in C!Places(batch[k]) /\ batch'[k][n] = batch[k][n + 0] /\ n + 0 = n /\ batch[k][n] \in C!Claimed
  BY DEF C!Places, C!CopyTypes
<1> QED BY <1>1 DEF C!Shrinks

LEMMA EnqueueStep ==
  ASSUME C!CopiesOK, C!CopyInv, NEW j \in Jobs, C!Enqueue(j)
  PROVE  C!CopyInv'
<1> USE DEF C!Enqueue
<1>0. jobs \in [Jobs -> C!JobRows] /\ outcome \in [Jobs -> C!Outcomes] /\ now \in Nat
  BY DEF C!CopyInv, C!CopyTypes
<1>1. C!CopyTypes'
  <2>1. jobs' \in [Jobs -> C!JobRows] BY <1>0 DEF C!JobRows
  <2>2. outcome' \in [Jobs -> C!Outcomes] BY <1>0 DEF C!Outcomes
  <2> QED BY <2>1, <2>2 DEF C!CopyInv, C!CopyTypes
<1>2. \A x \in Jobs : /\ jobs'[x].token = jobs[x].token /\ jobs'[x].claimedAt = jobs[x].claimedAt
                      /\ jobs'[x].attempts = jobs[x].attempts
                      /\ jobs[x].at = "gone" => jobs'[x].at = "gone"
                      /\ jobs'[x].at = "gone" => jobs[x].at = "gone" \/ outcome'[x].ended # "no"
  <2>1. CASE jobs' = [jobs EXCEPT ![j].at = "unqueued"] BY <1>0, <2>1 DEF C!JobRows
  <2>2. CASE /\ jobs' = [jobs EXCEPT ![j].at = IF setting.mode = "none" THEN "gone" ELSE "queued",
                                     ![j].next = now]
             /\ outcome' = IF setting.mode = "none"
                           THEN [outcome EXCEPT ![j].ended = "off"] ELSE outcome
    BY <1>0, <2>2 DEF C!JobRows, C!Outcomes
  <2> QED BY <2>1, <2>2
<1>3. \A x \in Jobs : /\ outcome'[x].tries = outcome[x].tries /\ outcome[x].tries \in Nat
                      /\ outcome'[x].ended = "exhausted" => outcome[x].ended = "exhausted"
                      /\ outcome[x].ended # "no" => outcome'[x].ended # "no"
  BY <1>0 DEF C!Outcomes
<1>4. C!Shrinks BY BatchSame DEF C!CopyInv
<1>5. C!ClaimsHeld'
  <2>1. \A k \in Filers : \A n \in C!Places(batch'[k]) : batch'[k][n].job \in Jobs
    BY BatchSame DEF C!CopyInv, C!Claimed
  <2> QED BY <1>0, <1>1, <1>2, <1>4, <2>1, HeldKept
<1>6. C!TriesMade'
  <2>1. \A x \in Jobs : outcome'[x].tries >= outcome[x].tries BY <1>3
  <2>2. \A x \in Jobs : C!Made(outcome[x].tries, jobs'[x].attempts) BY <1>2 DEF C!CopyInv, C!TriesMade
  <2>3. ASSUME NEW k \in Filers, NEW n \in C!Places(batch'[k]), batch'[k][n].filing
        PROVE  C!Made(outcome'[batch'[k][n].job].tries, batch'[k][n].attempts + 1)
    BY <1>3, <2>3, BatchSame DEF C!CopyInv, C!TriesMade, C!Made, C!Claimed
  <2> QED BY <1>1, <1>4, <2>1, <2>2, <2>3, TriesKept
<1>7. C!CopyAccounted'
  BY <1>2, <1>3 DEF C!CopyInv, C!CopyAccounted
<1> QED BY <1>0, <1>1, <1>4, <1>5, <1>6, <1>7, ShrinksKeeps DEF C!CopyInv

LEMMA QuietStep ==
  ASSUME C!CopiesOK, C!CopyInv, UNCHANGED <<jobs, batch, outcome>>, now' \in Nat, now' >= now
  PROVE  C!CopyInv'
<1>1. C!CopyTypes' BY DEF C!CopyInv, C!CopyTypes
<1>2. C!Shrinks BY BatchSame DEF C!CopyInv
<1>3. C!ClaimsHeld'
  <2>1. \A k \in Filers : \A n \in C!Places(batch'[k]) : batch'[k][n].job \in Jobs
    BY BatchSame DEF C!CopyInv, C!Claimed
  <2> QED BY <1>1, <1>2, <2>1, HeldKept
<1>4. C!TriesMade'
  BY DEF C!CopyInv, C!TriesMade, C!Made, C!Places
<1>5. C!CopyAccounted' BY DEF C!CopyInv, C!CopyAccounted
<1> QED BY <1>1, <1>2, <1>3, <1>4, <1>5, ShrinksKeeps DEF C!CopyInv

\* A worker is done with the first of its batch: the row is left alone, gone or,
\* if it still carries this claim, put back.
LEMMA DropStep ==
  ASSUME C!CopiesOK, C!CopyInv, NEW i \in Filers, batch[i] # <<>>,
         batch' = [batch EXCEPT ![i] = Tail(@)], now' = now,
         jobs' \in [Jobs -> C!JobRows], outcome' \in [Jobs -> C!Outcomes],
         \A x \in Jobs :
            /\ jobs[x].at = "gone" => jobs'[x].at = "gone"
            /\ \/ jobs'[x].token = jobs[x].token /\ jobs'[x].claimedAt = jobs[x].claimedAt
               \/ x = batch[i][1].job /\ jobs[x].token = batch[i][1].token /\ jobs[x].at # "gone"
            /\ outcome'[x].tries = outcome[x].tries
            /\ C!Made(outcome[x].tries, jobs'[x].attempts),
         C!CopyAccounted'
  PROVE  C!CopyInv'
<1>0. C!CopyTypes BY DEF C!CopyInv
<1>1. /\ batch' \in [Filers -> Seq(C!Claimed)]
      /\ \A k \in Filers : \E d \in 0 .. 1 :
            /\ k = i => d = 1
            /\ \A n \in C!Places(batch'[k]) : n + d \in C!Places(batch[k]) /\ batch'[k][n] = batch[k][n + d]
  BY <1>0, Dropped
<1>2. C!CopyTypes'
  BY <1>1, <1>0 DEF C!CopyTypes
<1>3. C!Shrinks
  <2> SUFFICES ASSUME NEW k \in Filers
               PROVE  \E d \in 0 .. 1 : \A n \in C!Places(batch'[k]) :
                        /\ n + d \in C!Places(batch[k])
                        /\ batch'[k][n].job = batch[k][n + d].job
                        /\ batch'[k][n].token = batch[k][n + d].token
                        /\ batch'[k][n].attempts = batch[k][n + d].attempts
    BY DEF C!Shrinks
  <2>1. PICK d \in 0 .. 1 : \A n \in C!Places(batch'[k]) :
          n + d \in C!Places(batch[k]) /\ batch'[k][n] = batch[k][n + d]
    BY <1>1
  <2> QED BY <2>1
<1>4. \A k \in Filers : \A n \in C!Places(batch[k]) : batch[k][n] \in C!Claimed
  BY <1>0 DEF C!Places, C!CopyTypes
<1>5. 1 \in C!Places(batch[i])
  BY <1>0 DEF C!Places, C!CopyTypes
<1>9. C!ClaimsOwn BY DEF C!CopyInv
<1>6. C!ClaimsHeld'
  <2>1. ASSUME NEW k \in Filers, NEW n \in C!Places(batch'[k])
        PROVE  \E j \in Jobs :
              /\ j = batch'[k][n].job
              /\ \/ jobs'[j].at = "gone"
                 \/ /\ jobs[j].at # "gone" /\ jobs'[j].token = jobs[j].token
                    /\ jobs'[j].claimedAt = jobs[j].claimedAt
                 \/ jobs[j].at # "gone" /\ jobs[j].token # batch'[k][n].token
    <3>1. PICK d \in 0 .. 1 : /\ k = i => d = 1
                              /\ n + d \in C!Places(batch[k]) /\ batch'[k][n] = batch[k][n + d]
      BY <1>1
    <3>2. batch'[k][n] \in C!Claimed BY <1>4, <3>1
    <3>3. batch'[k][n].job \in Jobs BY <3>2, ClaimFacts
    <3>4. CASE k = i
      <4>1. n + d # 1 BY <3>1, <3>4 DEF C!Places
      <4>2. batch'[k][n].job # batch[i][1].job
        <5>1. batch[i][n + d].job # batch[i][1].job
          BY <1>5, <1>9, <3>1, <3>4, <4>1 DEF C!ClaimsOwn
        <5> QED BY <3>1, <3>4, <5>1
      <4> QED BY <3>3, <4>2
    <3>5. CASE k # i
      <4>1. batch'[k][n].token[1] = k /\ batch[i][1].token[1] = i
        <5>1. batch[k][n + d].token[1] = k BY <1>9, <3>1 DEF C!ClaimsOwn
        <5>2. batch[i][1].token[1] = i BY <1>5, <1>9 DEF C!ClaimsOwn
        <5> QED BY <3>1, <5>1, <5>2
      <4>2. batch'[k][n].token # batch[i][1].token BY <3>5, <4>1
      <4> QED BY <3>3, <4>2
    <3> QED BY <3>4, <3>5
  <2>2. now' >= now BY <1>0 DEF C!CopyTypes
  <2> QED BY <1>2, <1>3, <2>1, <2>2, HeldKept
<1>7. C!TriesMade'
  <2>1. ASSUME NEW k \in Filers, NEW n \in C!Places(batch'[k]), batch'[k][n].filing
        PROVE  C!Made(outcome'[batch'[k][n].job].tries, batch'[k][n].attempts + 1)
    <3>1. PICK d \in 0 .. 1 : n + d \in C!Places(batch[k]) /\ batch'[k][n] = batch[k][n + d]
      BY <1>1
    <3>2. batch'[k][n].job \in Jobs BY <1>4, <3>1, ClaimFacts
    <3>3. C!Made(outcome[batch[k][n + d].job].tries, batch[k][n + d].attempts + 1)
      BY <2>1, <3>1 DEF C!CopyInv, C!TriesMade
    <3> QED BY <3>1, <3>2, <3>3
  <2>2. \A x \in Jobs : outcome'[x].tries >= outcome[x].tries
    BY <1>0 DEF C!CopyTypes, C!Outcomes
  <2>3. \A x \in Jobs : C!Made(outcome[x].tries, jobs'[x].attempts) OBVIOUS
  <2> QED BY <1>2, <1>3, <2>1, <2>2, <2>3, TriesKept
<1>8. now' >= now BY <1>0 DEF C!CopyTypes
<1> QED BY <1>2, <1>3, <1>6, <1>7, <1>8, ShrinksKeeps DEF C!CopyInv

LEMMA FirstOf ==
  ASSUME C!CopyTypes, NEW i \in Filers, batch[i] # <<>>
  PROVE  /\ C!Current(i) = batch[i][1] /\ batch[i][1] \in C!Claimed /\ 1 \in C!Places(batch[i])
         /\ batch[i][1].job \in Jobs /\ Len(batch[i]) \in Nat /\ Len(batch[i]) >= 1
<1>1. batch[i] \in Seq(C!Claimed) /\ Len(batch[i]) \in Nat /\ Len(batch[i]) >= 1 BY DEF C!CopyTypes
<1>2. C!Current(i) = batch[i][1] /\ batch[i][1] \in C!Claimed /\ 1 \in C!Places(batch[i])
  BY <1>1 DEF C!Current, C!Places
<1> QED BY <1>1, <1>2, ClaimFacts

\* What CompleteJob does to the rows.
LEMMA Completes ==
  ASSUME C!CopyInv, NEW c \in C!Claimed, C!CompleteJob(c)
  PROVE  /\ jobs' \in [Jobs -> C!JobRows]
         /\ \A x \in Jobs : /\ jobs'[x].token = jobs[x].token
                            /\ jobs'[x].claimedAt = jobs[x].claimedAt
                            /\ jobs'[x].attempts = jobs[x].attempts
                            /\ C!Made(outcome[x].tries, jobs'[x].attempts)
                            /\ jobs[x].at = "gone" => jobs'[x].at = "gone"
                            /\ jobs'[x].at = "gone" /\ jobs[x].at # "gone" => x = c.job /\ jobs' # jobs
<1>1. jobs \in [Jobs -> C!JobRows] /\ c.job \in Jobs BY ClaimFacts DEF C!CopyInv, C!CopyTypes
<1>2. \A x \in Jobs : C!Made(outcome[x].tries, jobs[x].attempts) BY DEF C!CopyInv, C!TriesMade
<1>3. CASE UNCHANGED jobs BY <1>1, <1>2, <1>3
<1>4. CASE jobs[c.job].at = "queued" /\ jobs' = [jobs EXCEPT ![c.job].at = "gone"]
  <2>1. jobs' \in [Jobs -> C!JobRows] BY <1>1, <1>4 DEF C!JobRows
  <2>2. ASSUME NEW x \in Jobs
        PROVE  /\ jobs'[x].token = jobs[x].token /\ jobs'[x].claimedAt = jobs[x].claimedAt
               /\ jobs'[x].attempts = jobs[x].attempts
               /\ jobs[x].at = "gone" => jobs'[x].at = "gone"
               /\ jobs'[x].at = "gone" /\ jobs[x].at # "gone" => x = c.job
    BY <1>1, <1>4 DEF C!JobRows
  <2>3. jobs'[c.job].at = "gone" BY <1>1, <1>4 DEF C!JobRows
  <2> QED BY <1>1, <1>2, <1>4, <2>1, <2>2, <2>3
<1> QED BY <1>3, <1>4 DEF C!CompleteJob

\* What RescheduleJob does to them.
LEMMA Reschedules ==
  ASSUME C!CopyInv, NEW c \in C!Claimed, NEW later \in Nat,
         C!Made(outcome[c.job].tries, c.attempts + 1), C!RescheduleJob(c, c.attempts + 1, later)
  PROVE  /\ jobs' \in [Jobs -> C!JobRows]
         /\ \A x \in Jobs :
              /\ jobs'[x].at = jobs[x].at
              /\ C!Made(outcome[x].tries, jobs'[x].attempts)
              /\ \/ jobs'[x].token = jobs[x].token /\ jobs'[x].claimedAt = jobs[x].claimedAt
                 \/ x = c.job /\ jobs[x].token = c.token /\ jobs[x].at # "gone"
<1>1. jobs \in [Jobs -> C!JobRows] /\ c.job \in Jobs /\ c.attempts + 1 \in Nat
  BY ClaimFacts DEF C!CopyInv, C!CopyTypes
<1>2. \A x \in Jobs : C!Made(outcome[x].tries, jobs[x].attempts) BY DEF C!CopyInv, C!TriesMade
<1>3. CASE UNCHANGED jobs BY <1>1, <1>2, <1>3
<1>4. CASE /\ jobs[c.job].token = c.token /\ jobs[c.job].at = "queued"
           /\ jobs' = [jobs EXCEPT ![c.job].token = C!NoToken, ![c.job].claimedAt = 0,
                              ![c.job].attempts = c.attempts + 1, ![c.job].next = later]
  <2>1. jobs' \in [Jobs -> C!JobRows] BY <1>1, <1>4 DEF C!JobRows
  <2>2. ASSUME NEW x \in Jobs, x # c.job PROVE jobs'[x] = jobs[x]
    BY <1>1, <1>4, <2>2
  <2>3. jobs'[c.job].at = jobs[c.job].at /\ jobs'[c.job].attempts = c.attempts + 1
    BY <1>1, <1>4 DEF C!JobRows
  <2> QED BY <1>1, <1>2, <1>4, <2>1, <2>2, <2>3
<1> QED BY <1>3, <1>4 DEF C!RescheduleJob

\* What a step may do to the history of a job it completes.
LEMMA OutcomeSet ==
  ASSUME C!CopyInv, NEW c \in C!Claimed, C!CompleteJob(c),
         NEW why \in {"off", "filed", "refused", "exhausted"},
         why = "exhausted" => outcome[c.job].tries >= MaxAttempts,
         \/ outcome' = [outcome EXCEPT ![c.job].ended = why]
         \/ /\ outcome' = outcome
            /\ jobs' = jobs \/ outcome[c.job].ended # "no"
  PROVE  /\ outcome' \in [Jobs -> C!Outcomes]
         /\ \A x \in Jobs : outcome'[x].tries = outcome[x].tries
         /\ C!CopyAccounted'
<1>1. outcome \in [Jobs -> C!Outcomes] /\ c.job \in Jobs BY ClaimFacts DEF C!CopyInv, C!CopyTypes
<1>2. outcome' \in [Jobs -> C!Outcomes] BY <1>1 DEF C!Outcomes
<1>3. ASSUME NEW x \in Jobs
      PROVE  /\ outcome'[x].tries = outcome[x].tries
             /\ outcome'[x].ended = outcome[x].ended \/ (x = c.job /\ outcome'[x].ended = why)
  <2>1. CASE outcome' = [outcome EXCEPT ![c.job].ended = why]
    BY <1>1, <2>1 DEF C!Outcomes
  <2>2. CASE outcome' = outcome
    BY <2>2
  <2> QED BY <2>1, <2>2
<1>4. jobs' = jobs \/ outcome'[c.job].ended # "no"
  <2>1. CASE outcome' = [outcome EXCEPT ![c.job].ended = why]
    <3>1. outcome'[c.job].ended = why BY <1>1, <2>1 DEF C!Outcomes
    <3> QED BY <3>1
  <2>2. CASE outcome' = outcome /\ (jobs' = jobs \/ outcome[c.job].ended # "no")
    BY <2>2
  <2> QED BY <2>1, <2>2
<1>5. \A x \in Jobs : jobs'[x].at = "gone" /\ jobs[x].at # "gone" => x = c.job /\ jobs' # jobs
  BY Completes
<1>6. C!CopyAccounted'
  <2> SUFFICES ASSUME NEW x \in Jobs
               PROVE  /\ jobs'[x].at = "gone" => outcome'[x].ended # "no"
                      /\ outcome'[x].ended = "exhausted" => outcome'[x].tries >= MaxAttempts
    BY DEF C!CopyAccounted
  <2>1. /\ jobs[x].at = "gone" => outcome[x].ended # "no"
        /\ outcome[x].ended = "exhausted" => outcome[x].tries >= MaxAttempts
    BY DEF C!CopyInv, C!CopyAccounted
  <2> QED BY <1>3, <1>4, <1>5, <2>1
<1> QED BY <1>2, <1>3, <1>6

LEMMA FiledStep ==
  ASSUME C!CopiesOK, C!CopyInv, NEW i \in Filers, C!Filed(i)
  PROVE  C!CopyInv'
<1>1. /\ C!Current(i) = batch[i][1] /\ batch[i][1] \in C!Claimed /\ batch[i] # <<>>
  BY FirstOf DEF C!CopyInv, C!Filed
<1>2. C!CompleteJob(batch[i][1]) /\ outcome' = [outcome EXCEPT ![batch[i][1].job].ended = "filed"]
      /\ batch' = [batch EXCEPT ![i] = Tail(@)] /\ now' = now
  BY <1>1 DEF C!Filed
<1>3. /\ outcome' \in [Jobs -> C!Outcomes] /\ C!CopyAccounted'
      /\ \A x \in Jobs : outcome'[x].tries = outcome[x].tries
  BY <1>1, <1>2, OutcomeSet
<1> QED BY <1>1, <1>2, <1>3, Completes, DropStep

LEMMA FailedStep ==
  ASSUME C!CopiesOK, C!CopyInv, NEW i \in Filers, NEW permanent \in BOOLEAN, C!Failed(i, permanent)
  PROVE  C!CopyInv'
<1>1. /\ C!Current(i) = batch[i][1] /\ batch[i][1] \in C!Claimed /\ batch[i] # <<>>
      /\ 1 \in C!Places(batch[i])
  BY FirstOf DEF C!CopyInv, C!Failed
<1> DEFINE c == batch[i][1]
<1>2. /\ batch' = [batch EXCEPT ![i] = Tail(@)] /\ now' = now /\ c.filing
      /\ c.job \in Jobs /\ c.attempts \in Nat
  BY <1>1, ClaimFacts DEF C!Failed
<1>3. C!Made(outcome[c.job].tries, c.attempts + 1)
  BY <1>1, <1>2 DEF C!CopyInv, C!TriesMade
<1>4. outcome \in [Jobs -> C!Outcomes] /\ now \in Nat /\ outcome[c.job].tries \in Nat
  BY <1>2 DEF C!CopyInv, C!CopyTypes, C!Outcomes
<1>5. ASSUME NEW why \in {"refused", "exhausted"}, C!Give(i, why),
             why = "exhausted" => outcome[c.job].tries >= MaxAttempts
      PROVE  C!CopyInv'
  <2>1. C!CompleteJob(c) BY <1>1, <1>5 DEF C!Give
  <2>2. \/ outcome' = [outcome EXCEPT ![c.job].ended = why]
        \/ outcome' = outcome /\ (jobs' = jobs \/ outcome[c.job].ended # "no")
    <3>1. outcome' = [outcome EXCEPT ![c.job].ended =
             IF jobs' # jobs /\ @ # "filed" THEN why ELSE @]
      BY <1>1, <1>5 DEF C!Give
    <3>2. outcome = [outcome EXCEPT ![c.job].ended = outcome[c.job].ended]
      BY <1>2, <1>4 DEF C!Outcomes
    <3> QED BY <3>1, <3>2
  <2>3. /\ outcome' \in [Jobs -> C!Outcomes] /\ C!CopyAccounted'
        /\ \A x \in Jobs : outcome'[x].tries = outcome[x].tries
    BY <1>1, <1>5, <2>1, <2>2, OutcomeSet
  <2> QED BY <1>1, <1>2, <2>1, <2>3, Completes, DropStep
<1>6. CASE permanent
  BY <1>5, <1>6 DEF C!Failed
<1>7. CASE ~permanent /\ C!Exhausted(c)
  <2>1. outcome[c.job].tries >= MaxAttempts
    BY <1>2, <1>3, <1>4, <1>7 DEF C!Made, C!Exhausted, C!CopiesOK
  <2> QED BY <1>1, <1>5, <1>7, <2>1 DEF C!Failed
<1>8. CASE ~permanent /\ ~C!Exhausted(c)
  <2>1. C!RescheduleJob(c, c.attempts + 1, now + C!retryDelay(c.attempts + 1)) /\ outcome' = outcome
    BY <1>1, <1>8 DEF C!Failed
  <2>2. now + C!retryDelay(c.attempts + 1) \in Nat
    BY <1>2, <1>4 DEF C!retryDelay
  <2>3. /\ jobs' \in [Jobs -> C!JobRows]
        /\ \A x \in Jobs :
              /\ jobs'[x].at = jobs[x].at
              /\ C!Made(outcome[x].tries, jobs'[x].attempts)
              /\ \/ jobs'[x].token = jobs[x].token /\ jobs'[x].claimedAt = jobs[x].claimedAt
                 \/ x = c.job /\ jobs[x].token = c.token /\ jobs[x].at # "gone"
    BY <1>1, <1>3, <2>1, <2>2, Reschedules
  <2>4. C!CopyAccounted'
    BY <2>1, <2>3 DEF C!CopyInv, C!CopyAccounted
  <2> QED BY <1>1, <1>2, <1>4, <2>1, <2>3, <2>4, DropStep
<1> QED BY <1>6, <1>7, <1>8

LEMMA BeginStep ==
  ASSUME C!CopiesOK, C!CopyInv, NEW i \in Filers, C!Begin(i)
  PROVE  C!CopyInv'
<1>0. C!CopyTypes BY DEF C!CopyInv
<1>1. /\ C!Current(i) = batch[i][1] /\ batch[i][1] \in C!Claimed /\ batch[i] # <<>>
      /\ 1 \in C!Places(batch[i]) /\ Len(batch[i]) \in Nat /\ Len(batch[i]) >= 1
  BY <1>0, FirstOf DEF C!Begin
<1> DEFINE c == batch[i][1]
<1>2. c.job \in Jobs /\ c.attempts \in Nat /\ now' = now
  BY <1>1, ClaimFacts DEF C!Begin
<1>3. outcome \in [Jobs -> C!Outcomes] /\ now \in Nat /\ outcome[c.job].tries \in Nat
  BY <1>2 DEF C!CopyInv, C!CopyTypes, C!Outcomes
<1>4. CASE setting.mode = "none"
  <2>1. C!CompleteJob(c) /\ batch' = [batch EXCEPT ![i] = Tail(@)]
        /\ outcome' = [outcome EXCEPT ![c.job].ended = IF jobs' # jobs THEN "off" ELSE @]
    BY <1>1, <1>4 DEF C!Begin
  <2>2. \/ outcome' = [outcome EXCEPT ![c.job].ended = "off"]
        \/ outcome' = outcome /\ (jobs' = jobs \/ outcome[c.job].ended # "no")
    <3>1. outcome = [outcome EXCEPT ![c.job].ended = outcome[c.job].ended]
      BY <1>2, <1>3 DEF C!Outcomes
    <3> QED BY <2>1, <3>1
  <2>3. /\ outcome' \in [Jobs -> C!Outcomes] /\ C!CopyAccounted'
        /\ \A x \in Jobs : outcome'[x].tries = outcome[x].tries
    BY <1>1, <2>1, <2>2, OutcomeSet
  <2> QED BY <1>1, <1>2, <2>1, <2>3, Completes, DropStep
<1>5. CASE setting.mode # "none"
  <2>1. /\ batch' = [batch EXCEPT ![i][1].filing = TRUE, ![i][1].since = now]
        /\ outcome' = [outcome EXCEPT ![c.job].tries = IF @ > MaxAttempts THEN @ ELSE @ + 1]
        /\ jobs' = jobs
    BY <1>1, <1>5 DEF C!Begin
  <2>2. outcome' \in [Jobs -> C!Outcomes]
    BY <1>2, <1>3, <2>1 DEF C!Outcomes
  <2>3. \A x \in Jobs : /\ outcome'[x].tries >= outcome[x].tries
                        /\ outcome'[x].ended = outcome[x].ended
    BY <1>2, <1>3, <2>1 DEF C!Outcomes
  <2>4. outcome'[c.job].tries > MaxAttempts \/ outcome'[c.job].tries = outcome[c.job].tries + 1
    BY <1>2, <1>3, <2>1 DEF C!Outcomes
  <2>5. /\ batch'[i] = [batch[i] EXCEPT ![1].filing = TRUE, ![1].since = now]
        /\ \A k \in Filers : k # i => batch'[k] = batch[k]
    BY <1>0, <2>1 DEF C!CopyTypes
  <2>6. batch[i] \in [C!Places(batch[i]) -> C!Claimed] /\ batch[i] \in Seq(C!Claimed)
    BY <1>0 DEF C!CopyTypes, C!Places
  <2>7. batch'[i] \in [C!Places(batch[i]) -> C!Claimed]
    <3>1. [c EXCEPT !.filing = TRUE, !.since = now] \in C!Claimed
      BY <1>1, <1>3 DEF C!Claimed
    <3>2. batch'[i] = [batch[i] EXCEPT ![1] = [c EXCEPT !.filing = TRUE, !.since = now]]
      BY <1>1, <2>5, <2>6 DEF C!Claimed
    <3> QED BY <1>1, <2>6, <3>1, <3>2
  <2>8. batch'[i] \in Seq(C!Claimed) /\ C!Places(batch'[i]) = C!Places(batch[i])
    BY <1>1, <2>7 DEF C!Places
  <2>9. \A n \in C!Places(batch[i]) :
          /\ batch'[i][n].job = batch[i][n].job /\ batch'[i][n].token = batch[i][n].token
          /\ batch'[i][n].attempts = batch[i][n].attempts
          /\ n # 1 => batch'[i][n] = batch[i][n]
    BY <1>1, <2>5, <2>6 DEF C!Claimed
  <2>10. C!CopyTypes'
    <3>1. batch' \in [Filers -> Seq(C!Claimed)]
      BY <1>0, <2>1, <2>5, <2>8 DEF C!CopyTypes
    <3> QED BY <1>0, <1>2, <2>1, <2>2, <3>1 DEF C!CopyTypes
  <2>11. \A k \in Filers : \A n \in C!Places(batch'[k]) :
           /\ n + 0 = n /\ n \in C!Places(batch[k])
           /\ batch'[k][n].job = batch[k][n].job /\ batch'[k][n].token = batch[k][n].token
           /\ batch'[k][n].attempts = batch[k][n].attempts
           /\ k # i \/ n # 1 => batch'[k][n] = batch[k][n]
    <3>1. \A k \in Filers : \A n \in C!Places(batch'[k]) : n + 0 = n BY DEF C!Places
    <3> QED BY <2>5, <2>8, <2>9, <3>1
  <2>12. C!Shrinks
    BY <2>11 DEF C!Shrinks
  <2>13. \A k \in Filers : \A n \in C!Places(batch'[k]) : batch'[k][n] \in C!Claimed
    BY <2>10 DEF C!CopyTypes, C!Places
  <2>14. C!ClaimsHeld'
    <3>1. \A k \in Filers : \A n \in C!Places(batch'[k]) : batch'[k][n].job \in Jobs
      BY <2>13, ClaimFacts
    <3>2. now' >= now BY <1>2, <1>3
    <3> QED BY <2>1, <2>10, <2>12, <3>1, <3>2, HeldKept
  <2>15. C!TriesMade'
    <3>1. ASSUME NEW k \in Filers, NEW n \in C!Places(batch'[k]), batch'[k][n].filing
          PROVE  C!Made(outcome'[batch'[k][n].job].tries, batch'[k][n].attempts + 1)
      <4>1. MaxAttempts \in Nat BY DEF C!CopiesOK
      <4>2. batch'[k][n].job \in Jobs /\ batch'[k][n].attempts \in Nat
        BY <2>13, ClaimFacts
      <4>3. outcome'[batch'[k][n].job].tries \in Nat /\ outcome[batch'[k][n].job].tries \in Nat
        BY <1>3, <2>2, <4>2 DEF C!Outcomes
      <4>4. outcome'[batch'[k][n].job].tries >= outcome[batch'[k][n].job].tries
        BY <2>3, <4>2
      <4>5. CASE k = i /\ n = 1
        <5>1. C!Made(outcome[c.job].tries, c.attempts)
          BY <1>1 DEF C!CopyInv, C!TriesMade
        <5>2. batch'[k][n].job = c.job /\ batch'[k][n].attempts = c.attempts
          BY <2>11, <4>5
        <5> QED BY <1>2, <1>3, <2>4, <4>1, <4>3, <4>4, <5>1, <5>2 DEF C!Made
      <4>6. CASE k # i \/ n # 1
        <5>1. batch'[k][n] = batch[k][n] /\ n \in C!Places(batch[k]) BY <2>11, <4>6
        <5>2. C!Made(outcome[batch[k][n].job].tries, batch[k][n].attempts + 1)
          BY <3>1, <5>1 DEF C!CopyInv, C!TriesMade
        <5> QED BY <4>1, <4>2, <4>3, <4>4, <5>1, <5>2 DEF C!Made
      <4> QED BY <4>5, <4>6
    <3>2. \A x \in Jobs : C!Made(outcome[x].tries, jobs'[x].attempts)
      BY <2>1 DEF C!CopyInv, C!TriesMade
    <3> QED BY <2>3, <2>10, <2>12, <3>1, <3>2, TriesKept
  <2>16. C!CopyAccounted'
    <3>1. \A x \in Jobs : outcome[x].tries \in Nat /\ outcome'[x].tries \in Nat
      BY <1>3, <2>2 DEF C!Outcomes
    <3> QED BY <2>1, <2>3, <3>1 DEF C!CopyInv, C!CopyAccounted, C!CopiesOK
  <2>17. now' >= now BY <1>2, <1>3
  <2> QED BY <2>10, <2>12, <2>14, <2>15, <2>16, <2>17, ShrinksKeeps DEF C!CopyInv
<1> QED BY <1>4, <1>5

LEMMA CrashStep ==
  ASSUME C!CopiesOK, C!CopyInv, NEW i \in Filers, C!Crash(i)
  PROVE  C!CopyInv'
<1>1. /\ batch' = [batch EXCEPT ![i] = <<>>]
      /\ jobs' = jobs /\ now' = now /\ outcome' = outcome
  BY DEF C!Crash
<1>2. C!CopyTypes'
  BY <1>1 DEF C!CopyInv, C!CopyTypes
<1>3. \A k \in Filers : \A n \in C!Places(batch'[k]) :
         n + 0 = n /\ n \in C!Places(batch[k]) /\ batch'[k][n] = batch[k][n] /\ batch'[k][n] \in C!Claimed
  <2> TAKE k \in Filers
  <2>1. CASE k = i
    <3>1. batch'[k] = <<>> BY <1>1, <2>1 DEF C!CopyInv, C!CopyTypes
    <3> QED BY <3>1 DEF C!Places
  <2>2. CASE k # i
    <3>1. batch'[k] = batch[k] /\ batch[k] \in Seq(C!Claimed) BY <1>1, <2>2 DEF C!CopyInv, C!CopyTypes
    <3> QED BY <3>1 DEF C!Places
  <2> QED BY <2>1, <2>2
<1>4. C!Shrinks BY <1>3 DEF C!Shrinks
<1>5. \A k \in Filers : \A n \in C!Places(batch'[k]) : batch'[k][n].job \in Jobs
  BY <1>3, ClaimFacts
<1>6. now' >= now BY <1>1 DEF C!CopyInv, C!CopyTypes
<1>7. C!ClaimsHeld' BY <1>1, <1>2, <1>4, <1>5, <1>6, HeldKept
<1>8. C!TriesMade' BY <1>1, <1>3 DEF C!CopyInv, C!TriesMade
<1>9. C!CopyAccounted' BY <1>1 DEF C!CopyInv, C!CopyAccounted
<1> QED BY <1>2, <1>4, <1>6, <1>7, <1>8, <1>9, ShrinksKeeps DEF C!CopyInv

\* A claim takes what no claim in its lease holds.
LEMMA ClaimStep ==
  ASSUME C!CopiesOK, C!CopyInv, NEW i \in Filers, C!ClaimJobs(i)
  PROVE  C!CopyInv'
<1>0. C!CopyTypes /\ C!ClaimsOwn /\ C!ClaimsHeld /\ C!OneInLease /\ C!TriesMade BY DEF C!CopyInv
<1>1. PICK S \in SUBSET {j \in Jobs : C!Due(j)} :
        /\ batch[i] = <<>>
        /\ \E order \in [1 .. Cardinality(S) -> S] :
             /\ \A m, n \in DOMAIN order : m # n => order[m] # order[n]
             /\ jobs' = [j \in Jobs |->
                  IF j \in S THEN [jobs[j] EXCEPT !.token = <<i, now>>, !.claimedAt = now]
                  ELSE jobs[j]]
             /\ batch' = [batch EXCEPT ![i] = [n \in DOMAIN order |->
                  [job |-> order[n], attempts |-> jobs[order[n]].attempts,
                   token |-> <<i, now>>, since |-> now, filing |-> FALSE]]]
        /\ now' = now /\ outcome' = outcome
  BY CopySizes DEF C!ClaimJobs
<1>2. Cardinality(S) \in Nat
  BY CopySizes, FS_Subset, FS_CardinalityType DEF C!CopiesOK
<1>3. PICK order \in [1 .. Cardinality(S) -> S] :
             /\ \A m, n \in DOMAIN order : m # n => order[m] # order[n]
             /\ jobs' = [j \in Jobs |->
                  IF j \in S THEN [jobs[j] EXCEPT !.token = <<i, now>>, !.claimedAt = now]
                  ELSE jobs[j]]
             /\ batch' = [batch EXCEPT ![i] = [n \in DOMAIN order |->
                  [job |-> order[n], attempts |-> jobs[order[n]].attempts,
                   token |-> <<i, now>>, since |-> now, filing |-> FALSE]]]
  BY <1>1
<1>4. jobs \in [Jobs -> C!JobRows] /\ now \in Nat /\ now' = now /\ outcome' = outcome
      /\ outcome \in [Jobs -> C!Outcomes]
  BY <1>0, <1>1 DEF C!CopyTypes
<1>5. \A j \in S : /\ j \in Jobs /\ jobs[j].at = "queued"
                   /\ jobs[j].token = C!NoToken \/ jobs[j].claimedAt + ClaimLease < now
  BY DEF C!Due
<1>6. <<i, now>> \in C!Tokens BY <1>4 DEF C!Tokens
<1>7. \A j \in Jobs : j \notin S => jobs'[j] = jobs[j]
  BY <1>3
<1>8. \A j \in S : /\ jobs'[j].token = <<i, now>> /\ jobs'[j].claimedAt = now
                   /\ jobs'[j].at = jobs[j].at /\ jobs'[j].attempts = jobs[j].attempts
  BY <1>3, <1>4, <1>5 DEF C!JobRows
<1>9. jobs' \in [Jobs -> C!JobRows]
  <2>1. \A j \in Jobs : [jobs[j] EXCEPT !.token = <<i, now>>, !.claimedAt = now] \in C!JobRows
    BY <1>4, <1>6 DEF C!JobRows
  <2> QED BY <1>3, <1>4, <2>1
<1>10. /\ batch'[i] = [n \in 1 .. Cardinality(S) |->
                  [job |-> order[n], attempts |-> jobs[order[n]].attempts,
                   token |-> <<i, now>>, since |-> now, filing |-> FALSE]]
       /\ \A k \in Filers : k # i => batch'[k] = batch[k]
  BY <1>0, <1>3 DEF C!CopyTypes
<1>11. \A n \in 1 .. Cardinality(S) : order[n] \in S /\ order[n] \in Jobs /\ jobs[order[n]].attempts \in Nat
  BY <1>3, <1>4, <1>5 DEF C!JobRows
<1>12. \A n \in 1 .. Cardinality(S) :
          /\ batch'[i][n] \in C!Claimed /\ batch'[i][n].job = order[n]
          /\ batch'[i][n].attempts = jobs[order[n]].attempts /\ batch'[i][n].token = <<i, now>>
          /\ batch'[i][n].filing = FALSE
  BY <1>4, <1>6, <1>10, <1>11 DEF C!Claimed
<1>13. batch'[i] \in Seq(C!Claimed) /\ C!Places(batch'[i]) = 1 .. Cardinality(S)
  <2>1. batch'[i] \in [1 .. Cardinality(S) -> C!Claimed] BY <1>10, <1>12
  <2> QED BY <1>2, <2>1 DEF C!Places
<1>14. C!CopyTypes'
  <2>1. batch' \in [Filers -> Seq(C!Claimed)]
    BY <1>0, <1>3, <1>10, <1>13 DEF C!CopyTypes
  <2> QED BY <1>4, <1>9, <2>1 DEF C!CopyTypes
<1>15. C!ClaimsOwn'
  <2> SUFFICES ASSUME NEW k \in Filers, NEW n \in C!Places(batch'[k])
               PROVE  /\ batch'[k][n].token[1] = k
                      /\ \A m \in C!Places(batch'[k]) : m # n => batch'[k][m].job # batch'[k][n].job
    BY DEF C!ClaimsOwn
  <2>1. CASE k = i
    <3>1. \A m \in 1 .. Cardinality(S) : m # n => order[m] # order[n]
      BY <1>3, <1>13, <2>1
    <3>2. <<i, now>>[1] = i OBVIOUS
    <3>3. batch'[i][n].token[1] = i BY <1>12, <1>13, <2>1, <3>2
    <3> QED BY <1>12, <1>13, <2>1, <3>1, <3>3
  <2>2. CASE k # i
    BY <1>0, <1>10, <2>2 DEF C!ClaimsOwn
  <2> QED BY <2>1, <2>2

\* What another worker holds of the jobs taken is late.
<1>16. ASSUME NEW k \in Filers, k # i, NEW n \in C!Places(batch[k]), batch[k][n].job \in S
       PROVE  C!Late(batch[k][n], now)
  <2>1. batch[k][n] \in C!Claimed BY <1>0 DEF C!CopyTypes, C!Places
  <2>2. batch[k][n].token # C!NoToken /\ batch[k][n].token[2] \in Nat BY <2>1, ClaimFacts
  <2>3. \/ C!Late(batch[k][n], now)
        \/ /\ jobs[batch[k][n].job].token = batch[k][n].token
           /\ jobs[batch[k][n].job].claimedAt = batch[k][n].token[2]
    BY <1>0, <1>5, <1>16 DEF C!ClaimsHeld
  <2> QED BY <1>5, <1>16, <2>2, <2>3 DEF C!Late
<1>17. C!ClaimsHeld'
  <2> SUFFICES ASSUME NEW k \in Filers, NEW n \in C!Places(batch'[k])
               PROVE  \/ C!Late(batch'[k][n], now')
                      \/ jobs'[batch'[k][n].job].at = "gone"
                      \/ /\ jobs'[batch'[k][n].job].token = batch'[k][n].token
                         /\ jobs'[batch'[k][n].job].claimedAt = batch'[k][n].token[2]
    BY DEF C!ClaimsHeld
  <2>1. CASE k = i
    <3>1. <<i, now>>[2] = now OBVIOUS
    <3>2. batch'[i][n].job \in S /\ batch'[i][n].token = <<i, now>> BY <1>11, <1>12, <1>13, <2>1
    <3> QED BY <1>8, <2>1, <3>1, <3>2
  <2>2. CASE k # i
    <3>1. batch'[k] = batch[k] BY <1>10, <2>2
    <3>2. batch[k][n] \in C!Claimed BY <1>0, <3>1 DEF C!CopyTypes, C!Places
    <3>3. batch[k][n].job \in Jobs BY <3>2, ClaimFacts
    <3>4. CASE batch[k][n].job \in S
      BY <1>4, <1>16, <2>2, <3>1, <3>4
    <3>5. CASE batch[k][n].job \notin S
      <4>1. jobs'[batch[k][n].job] = jobs[batch[k][n].job] BY <1>7, <3>3, <3>5
      <4> QED BY <1>0, <1>4, <3>1, <4>1 DEF C!ClaimsHeld
    <3> QED BY <3>4, <3>5
  <2> QED BY <2>1, <2>2
<1>18. C!OneInLease'
  <2> SUFFICES ASSUME NEW a \in Filers, NEW b \in Filers, a # b,
                      NEW m \in C!Places(batch'[a]), NEW n \in C!Places(batch'[b]),
                      batch'[a][m].job = batch'[b][n].job
               PROVE  C!Late(batch'[a][m], now') \/ C!Late(batch'[b][n], now')
    BY DEF C!OneInLease
  <2>1. CASE a = i
    <3>1. batch'[b] = batch[b] BY <1>10, <2>1
    <3>2. batch[b][n].job \in S BY <1>11, <1>12, <1>13, <2>1, <3>1
    <3> QED BY <1>4, <1>16, <2>1, <3>1, <3>2
  <2>2. CASE b = i
    <3>1. batch'[a] = batch[a] BY <1>10, <2>2
    <3>2. batch[a][m].job \in S BY <1>11, <1>12, <1>13, <2>2, <3>1
    <3> QED BY <1>4, <1>16, <2>2, <3>1, <3>2
  <2>3. CASE a # i /\ b # i
    <3>1. batch'[a] = batch[a] /\ batch'[b] = batch[b] BY <1>10, <2>3
    <3> QED BY <1>0, <1>4, <3>1 DEF C!OneInLease
  <2> QED BY <2>1, <2>2, <2>3
<1>19. \A j \in Jobs : jobs'[j].attempts = jobs[j].attempts /\ jobs'[j].at = jobs[j].at
  BY <1>7, <1>8
<1>20. C!TriesMade'
  <2>1. \A j \in Jobs : C!Made(outcome'[j].tries, jobs'[j].attempts)
    BY <1>0, <1>4, <1>19 DEF C!TriesMade
  <2>2. ASSUME NEW k \in Filers, NEW n \in C!Places(batch'[k])
        PROVE  /\ C!Made(outcome'[batch'[k][n].job].tries, batch'[k][n].attempts)
               /\ batch'[k][n].filing => C!Made(outcome'[batch'[k][n].job].tries, batch'[k][n].attempts + 1)
    <3>1. CASE k = i
      BY <1>0, <1>4, <1>11, <1>12, <1>13, <3>1 DEF C!TriesMade
    <3>2. CASE k # i
      BY <1>0, <1>4, <1>10, <3>2 DEF C!TriesMade
    <3> QED BY <3>1, <3>2
  <2> QED BY <2>1, <2>2 DEF C!TriesMade
<1>21. C!CopyAccounted'
  BY <1>4, <1>19 DEF C!CopyInv, C!CopyAccounted
<1> QED BY <1>14, <1>15, <1>17, <1>18, <1>20, <1>21 DEF C!CopyInv

LEMMA CopyStep == C!CopiesOK /\ C!CopyInv /\ [C!Next]_(C!cvars) => C!CopyInv'
<1> SUFFICES ASSUME C!CopiesOK, C!CopyInv, [C!Next]_(C!cvars) PROVE C!CopyInv' OBVIOUS
<1>0. now \in Nat BY DEF C!CopyInv, C!CopyTypes
<1>1. ASSUME NEW j \in Jobs, C!Enqueue(j) PROVE C!CopyInv' BY <1>1, EnqueueStep
<1>2. ASSUME NEW i \in Filers, C!ClaimJobs(i) PROVE C!CopyInv' BY <1>2, ClaimStep
<1>3. ASSUME NEW i \in Filers, C!Begin(i) PROVE C!CopyInv' BY <1>3, BeginStep
<1>4. ASSUME NEW i \in Filers, C!Filed(i) PROVE C!CopyInv' BY <1>4, FiledStep
<1>5. ASSUME NEW i \in Filers, C!Crash(i) PROVE C!CopyInv' BY <1>5, CrashStep
<1>6. ASSUME NEW i \in Filers, NEW p \in BOOLEAN, C!Failed(i, p) PROVE C!CopyInv' BY <1>6, FailedStep
<1>7. CASE C!Tick BY <1>0, <1>7, QuietStep DEF C!Tick
<1>8. CASE C!BeginUpdate BY <1>0, <1>8, QuietStep DEF C!BeginUpdate
<1>9. ASSUME NEW m \in C!Modes, NEW b \in BOOLEAN, C!Update(m, b) PROVE C!CopyInv'
  BY <1>0, <1>9, QuietStep DEF C!Update
<1>10. CASE UNCHANGED C!cvars BY <1>0, <1>10, QuietStep DEF C!cvars
<1> QED BY <1>1, <1>2, <1>3, <1>4, <1>5, <1>6, <1>7, <1>8, <1>9, <1>10 DEF C!Next

LEMMA CopyHolds == C!CopyInv => C!CopyAccounted /\ C!OneFilerPerClaim
<1> SUFFICES ASSUME C!CopyInv PROVE C!OneFilerPerClaim BY DEF C!CopyInv
<1>0. C!CopyTypes /\ C!OneInLease BY DEF C!CopyInv
<1> SUFFICES ASSUME NEW i \in Filers, NEW k \in Filers, i # k, C!Filing(i), C!Filing(k),
                    C!Current(i).job = C!Current(k).job
             PROVE  \E n \in {i, k} : C!Current(n).token[2] + ClaimLease < now
  BY DEF C!OneFilerPerClaim
<1>1. C!Current(i) = batch[i][1] /\ 1 \in C!Places(batch[i]) BY <1>0, FirstOf DEF C!Filing
<1>2. C!Current(k) = batch[k][1] /\ 1 \in C!Places(batch[k]) BY <1>0, FirstOf DEF C!Filing
<1> QED BY <1>0, <1>1, <1>2 DEF C!OneInLease, C!Late

\* For any number of jobs, workers, ticks, failed writes and crashes: a copy that
\* leaves the queue was filed, refused, switched off or tried as often as the code allows, and two
\* workers file one job at once only when one of them has outlived its lease
\* (worker.go:151-179, store.go:215-262).
THEOREM CopiesFiledOrGivenUp == Spec => []CopiesAccounted
<1> DEFINE Inv == part = "copies" => C!CopyInv
<1>1. Init => Inv
  BY CopyInit, CopyAssumption DEF Init
<1>2. Inv /\ [Next]_vars => Inv'
  <2> SUFFICES ASSUME Inv, [Next]_vars, part' = "copies" PROVE (C!CopyInv)' OBVIOUS
  <2>1. part = "copies" /\ [C!Next]_(C!cvars)
    BY DEF Next, vars, filing, C!cvars
  <2> QED BY <2>1, CopyStep, CopyAssumption
<1>3. Inv => CopiesAccounted
  BY CopyHolds DEF CopiesAccounted
<1> QED BY <1>1, <1>2, <1>3, PTL DEF Spec
=============================================================================
