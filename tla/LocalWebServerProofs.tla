------------------------- MODULE LocalWebServerProofs -------------------------
(***************************************************************************)
(* The safety of the local web server for any number of connections and    *)
(* slots and any limit on the body.                                        *)
(*                                                                         *)
(* Everything but the semaphore is a connection's own: each action leaves  *)
(* every other connection as it is (Elsewhere), so the invariant is a      *)
(* count (SlotsAccounted) and, for every connection, what its phase says   *)
(* of its request and of what has been written to it (Local).              *)
(***************************************************************************)
EXTENDS LocalWebServer, FiniteSetTheorems, SequenceTheorems, TLAPS

Response == [status : Statuses, whole : BOOLEAN]

Uploads ==
    [kind : {"post"}, body : 1 .. MaxBody + 1,
     length : {NoLength} \cup {<<n>> : n \in 0 .. MaxBody + 1}]

Types ==
    /\ slots \in Nat
    /\ phase \in [Connections -> Phases]
    /\ timer \in [Connections -> {"off", "armed", "firing"}]
    /\ readShut \in [Connections -> BOOLEAN]
    /\ client \in [Connections -> {"reading", "stalled", "gone"}]
    /\ request \in [Connections -> Request \cup {NotRead}]
    /\ received \in [Connections -> 0 .. MaxBody + 1]
    /\ wire \in [Connections -> Seq(Response)]

(***************************************************************************)
(* Nothing is read or written before the head is, and nothing is written   *)
(* before the request is answered.                                         *)
(***************************************************************************)
Quiet(c) ==
    /\ phase[c] \in {"away", "backlog", "starting", "head"} =>
           request[c] = NotRead /\ received[c] = 0
    /\ phase[c] \in {"away", "backlog", "starting", "head", "body", "process"} =>
           wire[c] = <<>>
    /\ phase[c] \in {"body", "process"} => request[c] \in Uploads

(***************************************************************************)
(* A client that keeps up has the first response under way or none; what   *)
(* is answered at all is none of the requests that have no answer.         *)
(***************************************************************************)
Answering(c) ==
    /\ phase[c] \in {"deliver", "reject"} =>
           /\ request[c] \in Request /\ request[c].kind \notin Unanswerable
           /\ client[c] = "reading" =>
                  wire[c] = <<>> \/ wire[c] = <<[status |-> StatusOf(c), whole |-> FALSE]>>
    /\ phase[c] = "closing" /\ request[c] # NotRead /\ client[c] = "reading" =>
           IF request[c].kind \in Unanswerable THEN wire[c] = <<>>
           ELSE Len(wire[c]) = 1 /\ wire[c][1].whole

Succeeds(c) ==
    \/ phase[c] \in {"process", "deliver"}
    \/ \E i \in DOMAIN wire[c] : wire[c][i].status = "200"

Whole(c) ==
    request[c].kind = "post" /\ Succeeds(c) =>
        received[c] = request[c].body /\ received[c] <= MaxBody

Local(c) == Quiet(c) /\ Answering(c) /\ Whole(c)

Inv ==
    /\ Types
    /\ SlotsAccounted
    /\ \A c \in Connections : Local(c)

Step(c) ==
    \/ Connect(c) \/ Stall(c) \/ GoAway(c)
    \/ AdmitOrRefuse(c) \/ StartFails(c) \/ StartHandler(c)
    \/ DeadlinePasses(c) \/ ExpireReadPhase(c)
    \/ ReadHead(c) \/ HeadFails(c)
    \/ ReceiveUnit(c) \/ FinishBody(c) \/ ClientEndsBody(c)
    \/ Process(c)
    \/ WriteHead(c) \/ WritePayload(c) \/ WriteFails(c)
    \/ Release(c)

-------------------------------------------------------------------------------
LEMMA RequestKinds ==
    /\ Uploads \subseteq Request
    /\ \A r \in Request : r.kind = "post" => r \in Uploads
    /\ \A r \in Request : r.kind \in {"get", "refused", "post"} \cup Unanswerable
    /\ \A r \in Uploads : r.kind = "post" /\ r.kind \notin Unanswerable
    /\ NotRead \notin Request
<1>1. \A r \in [kind : {"get", "refused", "blank", "incomparable"}] :
          r.kind \in {"get", "refused"} \cup Unanswerable
  BY DEF Unanswerable
<1>2. \A r \in Uploads : r.kind = "post"
  BY DEF Uploads
<1>3. Request = [kind : {"get", "refused", "blank", "incomparable"}] \cup Uploads
  BY DEF Request, Uploads
<1>4. NotRead.kind = "not read"
  BY DEF NotRead
<1> QED BY <1>1, <1>2, <1>3, <1>4 DEF Unanswerable

LEMMA NextPhase ==
    /\ AfterHead("post") = "body" /\ "post" \notin Unanswerable
    /\ \A kind \in {"get", "refused"} :
           AfterHead(kind) \in {"deliver", "reject"} /\ kind \notin Unanswerable
    /\ \A kind \in Unanswerable : AfterHead(kind) = "closing"
BY DEF AfterHead, Unanswerable

LEMMA UploadFields ==
    ASSUME NEW r \in Uploads
    PROVE  /\ r.body \in 1 .. MaxBody + 1
           /\ r.length = NoLength \/ \E n \in 0 .. MaxBody + 1 : r.length = <<n>>
BY DEF Uploads

(***************************************************************************)
(* A body that is taken is whole and within the limit.                     *)
(***************************************************************************)
LEMMA AcceptedIsWhole ==
    ASSUME NEW r \in Uploads, NEW n \in 0 .. MaxBody + 1, Acceptable(r, n)
    PROVE  n = r.body /\ n <= MaxBody
<1>1. MaxBody \in Nat
  BY ServerAssumption
<1>2. CASE r.length = NoLength
  BY <1>2 DEF Acceptable
<1>3. ASSUME NEW k \in 0 .. MaxBody + 1, r.length = <<k>>
      PROVE  n = r.body /\ n <= MaxBody
  <2>1. r.length # NoLength /\ r.length[1] = k
    BY <1>3 DEF NoLength
  <2> QED BY <1>1, <2>1 DEF Acceptable, LengthRefused
<1> QED BY <1>2, <1>3, UploadFields

(***************************************************************************)
(* Closing the head of a response that was begun makes it whole.           *)
(***************************************************************************)
LEMMA CompletedResponse ==
    ASSUME NEW s \in Seq(Response), s # <<>>
    PROVE  LET t == [s EXCEPT ![Len(s)].whole = TRUE]
           IN  /\ t \in Seq(Response)
               /\ DOMAIN t = DOMAIN s /\ Len(t) = Len(s)
               /\ \A i \in DOMAIN s : t[i].status = s[i].status
               /\ t[Len(s)].whole = TRUE
<1> DEFINE n == Len(s)
           t == [s EXCEPT ![n].whole = TRUE]
<1>1. n \in Nat /\ n # 0 /\ DOMAIN s = 1 .. n /\ \A i \in 1 .. n : s[i] \in Response
  BY EmptySeq, LenProperties, ElementOfSeq
<1>2. n \in 1 .. n
  BY <1>1
<1>3. \A i \in 1 .. n : t[i] = IF i = n THEN [s[n] EXCEPT !.whole = TRUE] ELSE s[i]
  BY <1>1
<1>4. [s[n] EXCEPT !.whole = TRUE] \in Response
  BY <1>1, <1>2 DEF Response
<1>5. DOMAIN t = 1 .. n
  BY <1>1
<1>6. t \in [1 .. n -> Response]
  BY <1>1, <1>3, <1>4, <1>5
<1>7. t \in Seq(Response) /\ Len(t) = n
  BY <1>1, <1>5, <1>6, SeqDef, LenProperties
<1>8. \A i \in 1 .. n : t[i].status = s[i].status
  BY <1>1, <1>3 DEF Response
<1>9. t[n].whole = TRUE
  BY <1>1, <1>2, <1>3 DEF Response
<1> QED BY <1>1, <1>5, <1>7, <1>8, <1>9

-------------------------------------------------------------------------------
(***************************************************************************)
(* An action on one connection leaves every other connection as it is.     *)
(***************************************************************************)
LEMMA Elsewhere ==
    ASSUME Types, NEW c \in Connections, NEW d \in Connections, c # d, Step(c)
    PROVE  /\ phase'[d] = phase[d] /\ client'[d] = client[d] /\ request'[d] = request[d]
           /\ received'[d] = received[d] /\ wire'[d] = wire[d]
<1>1. CASE Connect(c)
  BY <1>1 DEF Connect, GoTo, Types
<1>2. CASE Stall(c)
  BY <1>2 DEF Stall, Types
<1>3. CASE GoAway(c)
  BY <1>3 DEF GoAway, Types
<1>4. CASE AdmitOrRefuse(c)
  BY <1>4 DEF AdmitOrRefuse, GoTo, Types
<1>5. CASE StartFails(c)
  BY <1>5 DEF StartFails, GoTo, Forget, Types
<1>6. CASE StartHandler(c)
  BY <1>6 DEF StartHandler, GoTo, Types
<1>7. CASE DeadlinePasses(c)
  BY <1>7 DEF DeadlinePasses, Types
<1>8. CASE ExpireReadPhase(c)
  BY <1>8 DEF ExpireReadPhase, Types
<1>9. CASE ReadHead(c)
  BY <1>9 DEF ReadHead, GoTo, Canceled, Types
<1>10. CASE HeadFails(c)
  BY <1>10 DEF HeadFails, GoTo, Canceled, Types
<1>11. CASE ReceiveUnit(c)
  BY <1>11 DEF ReceiveUnit, Types
<1>12. CASE FinishBody(c)
  BY <1>12 DEF FinishBody, EndBody, GoTo, Canceled, Types
<1>13. CASE ClientEndsBody(c)
  BY <1>13 DEF ClientEndsBody, EndBody, GoTo, Canceled, Types
<1>14. CASE Process(c)
  BY <1>14 DEF Process, GoTo, Types
<1>15. CASE WriteHead(c)
  BY <1>15 DEF WriteHead, Begin, Types
<1>16. CASE WritePayload(c)
  BY <1>16 DEF WritePayload, GoTo, Canceled, Types
<1>17. CASE WriteFails(c)
  BY <1>17 DEF WriteFails, GoTo, Canceled, Types
<1>18. CASE Release(c)
  BY <1>18 DEF Release, GoTo, Forget, Types
<1> QED
  BY <1>1, <1>2, <1>3, <1>4, <1>5, <1>6, <1>7, <1>8, <1>9, <1>10,
     <1>11, <1>12, <1>13, <1>14, <1>15, <1>16, <1>17, <1>18 DEF Step

LEMMA LocalElsewhere ==
    ASSUME Inv, NEW c \in Connections, NEW d \in Connections, c # d, Step(c)
    PROVE  Local(d)'
<1>1. /\ phase'[d] = phase[d] /\ client'[d] = client[d] /\ request'[d] = request[d]
      /\ received'[d] = received[d] /\ wire'[d] = wire[d]
  BY Elsewhere DEF Inv
<1>2. Quiet(d) /\ Answering(d) /\ Whole(d)
  BY DEF Inv, Local
<1>3. Quiet(d)'
  BY <1>1, <1>2 DEF Quiet
<1>4. Answering(d)'
  BY <1>1, <1>2 DEF Answering, StatusOf
<1>5. Whole(d)'
  BY <1>1, <1>2 DEF Whole, Succeeds
<1> QED BY <1>3, <1>4, <1>5 DEF Local

(***************************************************************************)
(* The types, action by action.                                            *)
(***************************************************************************)
LEMMA TypesStep ==
    ASSUME Inv, NEW c \in Connections, Step(c)
    PROVE  Types'
<1> USE ServerAssumption
<1>0. Types /\ Local(c)
  BY DEF Inv
<1>1. CASE Connect(c)
  BY <1>0, <1>1 DEF Connect, GoTo, Types, Phases
<1>2. CASE Stall(c)
  BY <1>0, <1>2 DEF Stall, Types, Phases
<1>3. CASE GoAway(c)
  BY <1>0, <1>3 DEF GoAway, Types, Phases
<1>4. CASE AdmitOrRefuse(c)
  <2>1. slots' \in Nat
    BY <1>0, <1>4 DEF AdmitOrRefuse, Types
  <2>2. phase' \in [Connections -> Phases]
    BY <1>0, <1>4 DEF AdmitOrRefuse, GoTo, Types, Phases
  <2> QED BY <1>0, <1>4, <2>1, <2>2 DEF AdmitOrRefuse, Types
<1>5. CASE StartFails(c)
  BY <1>0, <1>5 DEF StartFails, GoTo, Forget, Types, Phases
<1>6. CASE StartHandler(c)
  BY <1>0, <1>6 DEF StartHandler, GoTo, Types, Phases
<1>7. CASE DeadlinePasses(c)
  BY <1>0, <1>7 DEF DeadlinePasses, Types, Phases
<1>8. CASE ExpireReadPhase(c)
  BY <1>0, <1>8 DEF ExpireReadPhase, Types, Phases
<1>9. CASE ReadHead(c)
  <2>1. PICK r \in Request :
            /\ request' = [request EXCEPT ![c] = r]
            /\ phase' = [phase EXCEPT ![c] = AfterHead(r.kind)]
            /\ IF r.kind \in {"get"} \cup Unanswerable THEN Canceled(c) ELSE UNCHANGED timer
    BY <1>9 DEF ReadHead, GoTo
  <2>2. phase' \in [Connections -> Phases]
    BY <1>0, <2>1, RequestKinds, NextPhase DEF Types, Phases
  <2>3. timer' \in [Connections -> {"off", "armed", "firing"}]
    BY <1>0, <2>1 DEF Types, Canceled
  <2>4. request' \in [Connections -> Request \cup {NotRead}]
    BY <1>0, <2>1 DEF Types
  <2> QED BY <1>0, <1>9, <2>2, <2>3, <2>4 DEF ReadHead, Types
<1>10. CASE HeadFails(c)
  BY <1>0, <1>10 DEF HeadFails, GoTo, Canceled, Types, Phases
<1>11. CASE ReceiveUnit(c)
  <2>1. request[c] \in Uploads
    BY <1>0, <1>11 DEF ReceiveUnit, Local, Quiet
  <2>2. received[c] + 1 \in 0 .. MaxBody + 1
    BY <1>0, <1>11, <2>1, UploadFields DEF ReceiveUnit, Types
  <2> QED BY <1>0, <1>11, <2>2 DEF ReceiveUnit, Types
<1>12. CASE FinishBody(c)
  BY <1>0, <1>12 DEF FinishBody, EndBody, GoTo, Canceled, Types, Phases
<1>13. CASE ClientEndsBody(c)
  BY <1>0, <1>13 DEF ClientEndsBody, EndBody, GoTo, Canceled, Types, Phases
<1>14. CASE Process(c)
  BY <1>0, <1>14 DEF Process, GoTo, Types, Phases
<1>15. CASE WriteHead(c)
  <2>1. Append(wire[c], [status |-> StatusOf(c), whole |-> FALSE]) \in Seq(Response)
    <3>1. [status |-> StatusOf(c), whole |-> FALSE] \in Response
      BY DEF StatusOf, Response, Statuses
    <3> QED BY <1>0, <3>1, AppendProperties DEF Types
  <2> QED BY <1>0, <1>15, <2>1 DEF WriteHead, Begin, Types
<1>16. CASE WritePayload(c)
  <2>1. [wire[c] EXCEPT ![Len(wire[c])].whole = TRUE] \in Seq(Response)
    BY <1>0, <1>16, CompletedResponse DEF WritePayload, Begun, Types
  <2>2. wire' = [wire EXCEPT ![c] = [wire[c] EXCEPT ![Len(wire[c])].whole = TRUE]]
    BY <1>0, <1>16 DEF WritePayload, Types
  <2> QED BY <1>0, <1>16, <2>1, <2>2 DEF WritePayload, GoTo, Canceled, Types, Phases
<1>17. CASE WriteFails(c)
  BY <1>0, <1>17 DEF WriteFails, GoTo, Canceled, Types, Phases
<1>18. CASE Release(c)
  BY <1>0, <1>18 DEF Release, GoTo, Forget, Types, Phases
<1> QED
  BY <1>1, <1>2, <1>3, <1>4, <1>5, <1>6, <1>7, <1>8, <1>9, <1>10,
     <1>11, <1>12, <1>13, <1>14, <1>15, <1>16, <1>17, <1>18 DEF Step

(***************************************************************************)
(* What each action makes of its own connection.                           *)
(***************************************************************************)
LEMMA EndBodyKeepsLocal ==
    ASSUME Types, NEW c \in Connections, Quiet(c), EndBody(c)
    PROVE  Quiet(c)' /\ Answering(c)' /\ Whole(c)'
<1>1. /\ phase[c] = "body"
      /\ phase'[c] = IF Acceptable(request[c], received[c]) THEN "process" ELSE "reject"
      /\ UNCHANGED <<client[c], request[c], received[c], wire[c]>>
  BY DEF EndBody, GoTo, Types
<1>2. request[c] \in Uploads /\ wire[c] = <<>> /\ received[c] \in 0 .. MaxBody + 1
  BY <1>1 DEF Quiet, Types
<1>3. Quiet(c)' /\ Answering(c)'
  BY <1>1, <1>2, RequestKinds DEF Quiet, Answering
<1>4. CASE Acceptable(request[c], received[c])
  BY <1>1, <1>2, <1>3, <1>4, AcceptedIsWhole DEF Whole
<1>5. CASE ~Acceptable(request[c], received[c])
  BY <1>1, <1>2, <1>3, <1>5 DEF Whole, Succeeds
<1> QED BY <1>4, <1>5

LEMMA LocalStep ==
    ASSUME Inv, NEW c \in Connections, Step(c)
    PROVE  Local(c)'
<1>0. Types /\ Quiet(c) /\ Answering(c) /\ Whole(c)
  BY DEF Inv, Local
<1> SUFFICES Quiet(c)' /\ Answering(c)' /\ Whole(c)'
  BY DEF Local
<1>1. CASE Connect(c)
  <2>1. /\ phase[c] = "away" /\ phase'[c] = "backlog"
        /\ UNCHANGED <<client[c], request[c], received[c], wire[c]>>
    BY <1>0, <1>1 DEF Connect, GoTo, Types
  <2>2. Quiet(c)'
    BY <1>0, <2>1 DEF Quiet
  <2>3. Answering(c)'
    BY <1>0, <2>1 DEF Answering, StatusOf, Quiet
  <2>4. Whole(c)'
    BY <1>0, <2>1 DEF Whole, Succeeds
  <2> QED BY <2>2, <2>3, <2>4
<1>2. CASE Stall(c)
  <2>1. /\ client[c] = "reading" /\ client'[c] = "stalled"
        /\ UNCHANGED <<phase[c], request[c], received[c], wire[c]>>
    BY <1>0, <1>2 DEF Stall, Types
  <2>2. Quiet(c)'
    BY <1>0, <2>1 DEF Quiet
  <2>3. Answering(c)'
    BY <1>0, <2>1 DEF Answering, StatusOf, Quiet
  <2>4. Whole(c)'
    BY <1>0, <2>1 DEF Whole, Succeeds
  <2> QED BY <2>2, <2>3, <2>4
<1>3. CASE GoAway(c)
  <2>1. /\ client'[c] = "gone"
        /\ UNCHANGED <<phase[c], request[c], received[c], wire[c]>>
    BY <1>0, <1>3 DEF GoAway, Types
  <2>2. Quiet(c)'
    BY <1>0, <2>1 DEF Quiet
  <2>3. Answering(c)'
    BY <1>0, <2>1 DEF Answering, StatusOf, Quiet
  <2>4. Whole(c)'
    BY <1>0, <2>1 DEF Whole, Succeeds
  <2> QED BY <2>2, <2>3, <2>4
<1>4. CASE AdmitOrRefuse(c)
  <2>1. /\ phase[c] = "backlog" /\ phase'[c] \in {"starting", "away"}
        /\ UNCHANGED <<client[c], request[c], received[c], wire[c]>>
    BY <1>0, <1>4 DEF AdmitOrRefuse, GoTo, Types
  <2>2. Quiet(c)'
    BY <1>0, <2>1 DEF Quiet
  <2>3. Answering(c)'
    BY <1>0, <2>1 DEF Answering, StatusOf, Quiet
  <2>4. Whole(c)'
    BY <1>0, <2>1 DEF Whole, Succeeds
  <2> QED BY <2>2, <2>3, <2>4
<1>5. CASE StartFails(c)
  <2>1. phase'[c] = "away" /\ request'[c] = NotRead /\ received'[c] = 0 /\ wire'[c] = <<>>
    BY <1>0, <1>5 DEF StartFails, GoTo, Forget, Types
  <2>2. Quiet(c)'
    BY <1>0, <2>1 DEF Quiet
  <2>3. Answering(c)'
    BY <1>0, <2>1 DEF Answering, StatusOf, Quiet
  <2>4. Whole(c)'
    <3>1. NotRead.kind # "post"
      BY DEF NotRead
    <3> QED BY <2>1, <3>1 DEF Whole
  <2> QED BY <2>2, <2>3, <2>4
<1>6. CASE StartHandler(c)
  <2>1. /\ phase[c] = "starting" /\ phase'[c] \in {"head", "closing"}
        /\ UNCHANGED <<client[c], request[c], received[c], wire[c]>>
    BY <1>0, <1>6 DEF StartHandler, GoTo, Types
  <2>2. Quiet(c)'
    BY <1>0, <2>1 DEF Quiet
  <2>3. Answering(c)'
    BY <1>0, <2>1 DEF Answering, StatusOf, Quiet
  <2>4. Whole(c)'
    BY <1>0, <2>1 DEF Whole, Succeeds
  <2> QED BY <2>2, <2>3, <2>4
<1>7. CASE DeadlinePasses(c)
  <2>1. UNCHANGED <<phase[c], client[c], request[c], received[c], wire[c]>>
    BY <1>0, <1>7 DEF DeadlinePasses, Types
  <2>2. Quiet(c)'
    BY <1>0, <2>1 DEF Quiet
  <2>3. Answering(c)'
    BY <1>0, <2>1 DEF Answering, StatusOf, Quiet
  <2>4. Whole(c)'
    BY <1>0, <2>1 DEF Whole, Succeeds
  <2> QED BY <2>2, <2>3, <2>4
<1>8. CASE ExpireReadPhase(c)
  <2>1. UNCHANGED <<phase[c], client[c], request[c], received[c], wire[c]>>
    BY <1>0, <1>8 DEF ExpireReadPhase, Types
  <2>2. Quiet(c)'
    BY <1>0, <2>1 DEF Quiet
  <2>3. Answering(c)'
    BY <1>0, <2>1 DEF Answering, StatusOf, Quiet
  <2>4. Whole(c)'
    BY <1>0, <2>1 DEF Whole, Succeeds
  <2> QED BY <2>2, <2>3, <2>4
<1>9. CASE ReadHead(c)
  <2>1. PICK r \in Request :
            /\ phase[c] = "head" /\ request'[c] = r
            /\ phase'[c] = AfterHead(r.kind)
            /\ UNCHANGED <<client[c], received[c], wire[c]>>
    BY <1>0, <1>9 DEF ReadHead, GoTo, Types
  <2>2. wire'[c] = <<>>
    BY <1>0, <2>1 DEF Quiet
  <2>3. CASE r.kind = "post"
    <3>1. phase'[c] = "body" /\ r \in Uploads
      BY <2>1, <2>3, RequestKinds, NextPhase
    <3>2. Quiet(c)' /\ Answering(c)'
      BY <2>1, <2>2, <3>1 DEF Quiet, Answering
    <3>3. Whole(c)'
      BY <2>2, <3>1 DEF Whole, Succeeds
    <3> QED BY <3>2, <3>3
  <2>4. CASE r.kind \in {"get", "refused"}
    <3>1. phase'[c] \in {"deliver", "reject"} /\ r.kind \notin Unanswerable
      BY <2>1, <2>4, NextPhase
    <3>2. Quiet(c)' /\ Answering(c)'
      BY <2>1, <2>2, <3>1 DEF Quiet, Answering
    <3>3. Whole(c)'
      BY <2>1, <2>4 DEF Whole
    <3> QED BY <3>2, <3>3
  <2>5. CASE r.kind \in Unanswerable
    <3>1. phase'[c] = "closing"
      BY <2>1, <2>5, NextPhase
    <3>2. Quiet(c)' /\ Answering(c)'
      BY <2>1, <2>2, <2>5, <3>1 DEF Quiet, Answering
    <3>3. Whole(c)'
      BY <2>1, <2>5, NextPhase DEF Whole
    <3> QED BY <3>2, <3>3
  <2> QED BY <2>3, <2>4, <2>5, RequestKinds
<1>10. CASE HeadFails(c)
  <2>1. /\ phase[c] = "head" /\ phase'[c] = "closing"
        /\ UNCHANGED <<client[c], request[c], received[c], wire[c]>>
    BY <1>0, <1>10 DEF HeadFails, GoTo, Types
  <2>2. Quiet(c)'
    BY <1>0, <2>1 DEF Quiet
  <2>3. Answering(c)'
    BY <1>0, <2>1 DEF Answering, StatusOf, Quiet
  <2>4. Whole(c)'
    BY <1>0, <2>1 DEF Whole, Succeeds
  <2> QED BY <2>2, <2>3, <2>4
<1>11. CASE ReceiveUnit(c)
  <2>1. phase[c] = "body" /\ UNCHANGED <<phase[c], client[c], request[c], wire[c]>>
    BY <1>11 DEF ReceiveUnit
  <2>2. wire'[c] = <<>>
    BY <1>0, <2>1 DEF Quiet
  <2>3. Quiet(c)' /\ Answering(c)'
    BY <1>0, <2>1 DEF Quiet, Answering
  <2>4. Whole(c)'
    BY <2>1, <2>2 DEF Whole, Succeeds
  <2> QED BY <2>3, <2>4
<1>12. CASE FinishBody(c)
  <2>1. EndBody(c)
    BY <1>12 DEF FinishBody
  <2> QED BY <1>0, <2>1, EndBodyKeepsLocal
<1>13. CASE ClientEndsBody(c)
  <2>1. CASE EndBody(c)
    BY <1>0, <2>1, EndBodyKeepsLocal
  <2>2. CASE ~EndBody(c)
    <3>1. /\ phase[c] = "body" /\ phase'[c] = "reject"
          /\ UNCHANGED <<client[c], request[c], received[c], wire[c]>>
      BY <1>0, <1>13, <2>2 DEF ClientEndsBody, GoTo, Types
    <3>2. request[c] \in Uploads /\ wire[c] = <<>>
      BY <1>0, <3>1 DEF Quiet
    <3> QED BY <1>0, <3>1, <3>2, RequestKinds DEF Quiet, Answering, Whole, Succeeds
  <2> QED BY <2>1, <2>2
<1>14. CASE Process(c)
  <2>1. /\ phase[c] = "process" /\ phase'[c] \in {"deliver", "reject"}
        /\ UNCHANGED <<client[c], request[c], received[c], wire[c]>>
    BY <1>0, <1>14 DEF Process, GoTo, Types
  <2>2. Quiet(c)'
    BY <1>0, <2>1 DEF Quiet
  <2>3. Answering(c)'
    BY <1>0, <2>1, RequestKinds DEF Answering, StatusOf, Quiet
  <2>4. Whole(c)'
    BY <1>0, <2>1 DEF Whole, Succeeds
  <2> QED BY <2>2, <2>3, <2>4
<1>15. CASE WriteHead(c)
  <2> DEFINE head == [status |-> StatusOf(c), whole |-> FALSE]
  <2>1. /\ phase[c] \in {"deliver", "reject"} /\ ~Begun(c, StatusOf(c))
        /\ UNCHANGED <<phase[c], client[c], request[c], received[c]>>
        /\ wire'[c] = Append(wire[c], head)
    BY <1>0, <1>15 DEF WriteHead, Begin, Types
  <2>2. wire[c] \in Seq(Response) /\ head \in Response
    BY <1>0 DEF Types, StatusOf, Response, Statuses
  <2>3. client[c] = "reading" => wire[c] = <<>>
    BY <1>0, <2>1 DEF Answering, Begun
  <2>4. client[c] = "reading" => wire'[c] = <<head>>
    <3> HIDE DEF head
    <3>1. Append(<<>>, head) = <<head>>
      OBVIOUS
    <3> QED BY <2>1, <2>3, <3>1
  <2>5. Quiet(c)'
    BY <1>0, <2>1 DEF Quiet
  <2>6. Answering(c)'
    BY <1>0, <2>1, <2>4 DEF Answering, StatusOf
  <2>7. Succeeds(c)' => Succeeds(c)
    <3>1. \A i \in DOMAIN wire'[c] : \/ i \in DOMAIN wire[c] /\ wire'[c][i] = wire[c][i]
                                     \/ wire'[c][i] = head
      BY <2>1, <2>2, AppendProperties
    <3>2. head.status = "200" => phase[c] = "deliver"
      BY DEF StatusOf
    <3> QED BY <2>1, <3>1, <3>2 DEF Succeeds
  <2>8. Whole(c)'
    BY <1>0, <2>1, <2>7 DEF Whole
  <2> QED BY <2>5, <2>6, <2>8
<1>16. CASE WritePayload(c)
  <2>1. /\ phase[c] \in {"deliver", "reject"} /\ phase'[c] = "closing"
        /\ UNCHANGED <<client[c], request[c], received[c]>>
        /\ wire'[c] = [wire[c] EXCEPT ![Len(wire[c])].whole = TRUE]
        /\ wire[c] # <<>>
    BY <1>0, <1>16 DEF WritePayload, GoTo, Begun, Types
  <2>2. /\ DOMAIN wire'[c] = DOMAIN wire[c] /\ Len(wire'[c]) = Len(wire[c])
        /\ \A i \in DOMAIN wire[c] : wire'[c][i].status = wire[c][i].status
        /\ wire'[c][Len(wire[c])].whole = TRUE
    BY <1>0, <2>1, CompletedResponse DEF Types
  <2>3. Quiet(c)'
    BY <2>1 DEF Quiet
  <2>4. client[c] = "reading" => Len(wire[c]) = 1
    <3>1. client[c] = "reading" => \E r : wire[c] = <<r>>
      BY <1>0, <2>1 DEF Answering
    <3>2. \A r : Len(<<r>>) = 1
      OBVIOUS
    <3> QED BY <3>1, <3>2
  <2>5. Answering(c)'
    <3>1. request'[c].kind \notin Unanswerable
      BY <1>0, <2>1 DEF Answering
    <3> QED BY <2>1, <2>2, <2>4, <3>1 DEF Answering
  <2>6. Whole(c)'
    BY <1>0, <2>1, <2>2 DEF Whole, Succeeds
  <2> QED BY <2>3, <2>5, <2>6
<1>17. CASE WriteFails(c)
  <2>1. /\ phase[c] \in {"deliver", "reject"} /\ client[c] # "reading"
        /\ phase'[c] \in {"reject", "closing"}
        /\ UNCHANGED <<client[c], request[c], received[c], wire[c]>>
    BY <1>0, <1>17 DEF WriteFails, GoTo, Types
  <2>2. Quiet(c)'
    BY <1>0, <2>1 DEF Quiet
  <2>3. Answering(c)'
    BY <1>0, <2>1 DEF Answering, StatusOf, Quiet
  <2>4. Whole(c)'
    BY <1>0, <2>1 DEF Whole, Succeeds
  <2> QED BY <2>2, <2>3, <2>4
<1>18. CASE Release(c)
  <2>1. phase'[c] = "away" /\ request'[c] = NotRead /\ received'[c] = 0 /\ wire'[c] = <<>>
    BY <1>0, <1>18 DEF Release, GoTo, Forget, Types
  <2>2. Quiet(c)'
    BY <1>0, <2>1 DEF Quiet
  <2>3. Answering(c)'
    BY <1>0, <2>1 DEF Answering, StatusOf, Quiet
  <2>4. Whole(c)'
    <3>1. NotRead.kind # "post"
      BY DEF NotRead
    <3> QED BY <2>1, <3>1 DEF Whole
  <2> QED BY <2>2, <2>3, <2>4
<1> QED
  BY <1>1, <1>2, <1>3, <1>4, <1>5, <1>6, <1>7, <1>8, <1>9, <1>10,
     <1>11, <1>12, <1>13, <1>14, <1>15, <1>16, <1>17, <1>18 DEF Step

-------------------------------------------------------------------------------
(***************************************************************************)
(* The slots: a step takes one for its connection, gives the connection's  *)
(* back, or leaves both as they are.                                       *)
(***************************************************************************)
Holders == {c \in Connections : phase[c] \in Holding}

LEMMA HoldersElsewhere ==
    ASSUME Types, NEW c \in Connections, Step(c)
    PROVE  \A d \in Connections : d # c => (d \in Holders' <=> d \in Holders)
BY Elsewhere DEF Holders

LEMMA SlotMoves ==
    ASSUME Types, NEW c \in Connections, Step(c)
    PROVE  \/ slots' = slots /\ (c \in Holders' <=> c \in Holders)
           \/ slots > 0 /\ slots' = slots - 1 /\ c \in Holders' /\ c \notin Holders
           \/ slots' = slots + 1 /\ c \notin Holders' /\ c \in Holders
<1>1. CASE Connect(c)
  BY <1>1 DEF Connect, GoTo, Types, Holders, Holding
<1>2. CASE Stall(c)
  BY <1>2 DEF Stall, Types, Holders, Holding
<1>3. CASE GoAway(c)
  BY <1>3 DEF GoAway, Types, Holders, Holding
<1>4. CASE AdmitOrRefuse(c)
  BY <1>4 DEF AdmitOrRefuse, GoTo, Types, Holders, Holding
<1>5. CASE StartFails(c)
  BY <1>5 DEF StartFails, GoTo, Types, Holders, Holding
<1>6. CASE StartHandler(c)
  BY <1>6 DEF StartHandler, GoTo, Types, Holders, Holding
<1>7. CASE DeadlinePasses(c)
  BY <1>7 DEF DeadlinePasses, Types, Holders, Holding
<1>8. CASE ExpireReadPhase(c)
  BY <1>8 DEF ExpireReadPhase, Types, Holders, Holding
<1>9. CASE ReadHead(c)
  <2>1. PICK r \in Request :
            /\ phase[c] = "head" /\ slots' = slots
            /\ phase'[c] = AfterHead(r.kind)
    BY <1>9 DEF ReadHead, GoTo, Types
  <2>2. phase'[c] \in {"deliver", "reject", "body", "closing"}
    BY <2>1, RequestKinds, NextPhase
  <2> QED BY <2>1, <2>2 DEF Holders, Holding
<1>10. CASE HeadFails(c)
  BY <1>10 DEF HeadFails, GoTo, Types, Holders, Holding
<1>11. CASE ReceiveUnit(c)
  BY <1>11 DEF ReceiveUnit, Types, Holders, Holding
<1>12. CASE FinishBody(c)
  BY <1>12 DEF FinishBody, EndBody, GoTo, Types, Holders, Holding
<1>13. CASE ClientEndsBody(c)
  BY <1>13 DEF ClientEndsBody, EndBody, GoTo, Types, Holders, Holding
<1>14. CASE Process(c)
  BY <1>14 DEF Process, GoTo, Types, Holders, Holding
<1>15. CASE WriteHead(c)
  BY <1>15 DEF WriteHead, Types, Holders, Holding
<1>16. CASE WritePayload(c)
  BY <1>16 DEF WritePayload, GoTo, Types, Holders, Holding
<1>17. CASE WriteFails(c)
  BY <1>17 DEF WriteFails, GoTo, Types, Holders, Holding
<1>18. CASE Release(c)
  BY <1>18 DEF Release, GoTo, Types, Holders, Holding
<1> QED
  BY <1>1, <1>2, <1>3, <1>4, <1>5, <1>6, <1>7, <1>8, <1>9, <1>10,
     <1>11, <1>12, <1>13, <1>14, <1>15, <1>16, <1>17, <1>18 DEF Step

LEMMA SlotsStep ==
    ASSUME Inv, NEW c \in Connections, Step(c)
    PROVE  SlotsAccounted'
<1>1. Types /\ slots + Cardinality(Holders) = MaxConnections /\ slots \in Nat
  BY DEF Inv, SlotsAccounted, Holders, Types
<1>2. Holders \subseteq Connections /\ Holders' \subseteq Connections
  BY DEF Holders
<1>3. IsFiniteSet(Holders) /\ IsFiniteSet(Holders')
  BY <1>2, ServerAssumption, FS_Subset
<1>4. Cardinality(Holders) \in Nat /\ Cardinality(Holders') \in Nat
  BY <1>3, FS_CardinalityType
<1>5. SUFFICES slots' + Cardinality(Holders') = MaxConnections
  BY DEF SlotsAccounted, Holders
<1>6. CASE slots' = slots /\ (c \in Holders' <=> c \in Holders)
  <2>1. Holders' = Holders
    BY <1>1, <1>2, <1>6, HoldersElsewhere
  <2> QED BY <1>1, <1>6, <2>1
<1>7. CASE slots > 0 /\ slots' = slots - 1 /\ c \in Holders' /\ c \notin Holders
  <2>1. Holders' = Holders \cup {c}
    BY <1>1, <1>2, <1>7, HoldersElsewhere
  <2>2. Cardinality(Holders') = Cardinality(Holders) + 1
    BY <1>3, <1>7, <2>1, FS_AddElement
  <2> QED BY <1>1, <1>4, <1>7, <2>2
<1>8. CASE slots' = slots + 1 /\ c \notin Holders' /\ c \in Holders
  <2>1. Holders = Holders' \cup {c}
    BY <1>1, <1>2, <1>8, HoldersElsewhere
  <2>2. Cardinality(Holders) = Cardinality(Holders') + 1
    BY <1>3, <1>8, <2>1, FS_AddElement
  <2> QED BY <1>1, <1>4, <1>8, <2>2
<1> QED BY <1>1, <1>6, <1>7, <1>8, SlotMoves

-------------------------------------------------------------------------------
LEMMA InvInit == Init => Inv
<1> SUFFICES ASSUME Init
             PROVE  Inv
  OBVIOUS
<1>1. Types
  BY ServerAssumption DEF Init, Types, Phases
<1>2. \A c \in Connections : Local(c)
  BY DEF Init, Local, Quiet, Answering, Whole, NotRead
<1>3. SlotsAccounted
  <2>1. {c \in Connections : phase[c] \in Holding} = {}
    BY DEF Init, Holding
  <2>2. Cardinality({c \in Connections : phase[c] \in Holding}) = 0
    BY <2>1, FS_EmptySet
  <2> QED BY <2>2, ServerAssumption DEF Init, SlotsAccounted
<1> QED BY <1>1, <1>2, <1>3 DEF Inv

LEMMA InvNext == Inv /\ [Next]_vars => Inv'
<1> SUFFICES ASSUME Inv, [Next]_vars
             PROVE  Inv'
  OBVIOUS
<1>1. ASSUME NEW c \in Connections, Step(c)
      PROVE  Inv'
  <2>1. Types' /\ SlotsAccounted'
    BY <1>1, TypesStep, SlotsStep
  <2>2. \A d \in Connections : Local(d)'
    BY <1>1, LocalStep, LocalElsewhere
  <2> QED BY <2>1, <2>2 DEF Inv
<1>2. CASE UNCHANGED vars
  <2>1. Types' /\ SlotsAccounted'
    BY <1>2 DEF vars, Inv, Types, SlotsAccounted
  <2>2. \A c \in Connections : Local(c)'
    BY <1>2 DEF vars, Inv, Local, Quiet, Answering, Whole, Succeeds, StatusOf
  <2> QED BY <2>1, <2>2 DEF Inv
<1>3. CASE Next
  BY <1>1, <1>3 DEF Next, Step
<1> QED BY <1>2, <1>3

LEMMA Invariance == Spec => []Inv
BY InvInit, InvNext, PTL DEF Spec

-------------------------------------------------------------------------------
(***************************************************************************)
(* No slot is lost or released twice, on any path through the server.      *)
(***************************************************************************)
THEOREM SlotConservation == Spec => []SlotsAccounted
<1>1. Inv => SlotsAccounted
  BY DEF Inv
<1> QED BY <1>1, Invariance, PTL

(***************************************************************************)
(* The state of the server has its type; because slots are accounted for,  *)
(* the semaphore is never released above its bound.                        *)
(***************************************************************************)
THEOREM TypeCorrectness == Spec => []TypeOK
<1>1. Inv => TypeOK
  <2> SUFFICES ASSUME Inv
               PROVE  TypeOK
    OBVIOUS
  <2>1. Types /\ slots + Cardinality(Holders) = MaxConnections
    BY DEF Inv, SlotsAccounted, Holders
  <2>2. Cardinality(Holders) \in Nat
    <3>1. IsFiniteSet(Holders)
      BY ServerAssumption, FS_Subset DEF Holders
    <3> QED BY <3>1, FS_CardinalityType
  <2>3. slots \in 0 .. MaxConnections
    BY <2>1, <2>2, ServerAssumption DEF Types
  <2> QED BY <2>1, <2>3 DEF TypeOK, Types, Response
<1> QED BY <1>1, Invariance, PTL

(***************************************************************************)
(* To a client that keeps up exactly one response is written, and all of   *)
(* it, whenever its deadline passes and whatever other connections do; and *)
(* nothing to one that sent no request, or a session header that cannot be *)
(* compared.                                                               *)
(***************************************************************************)
THEOREM FullAnswers == Spec => []AnsweredInFull
<1>1. Inv => AnsweredInFull
  BY DEF Inv, Local, Answering, AnsweredInFull
<1> QED BY <1>1, Invariance, PTL

(***************************************************************************)
(* Nothing but a whole upload within the limit is processed or answered    *)
(* with success.                                                           *)
(***************************************************************************)
THEOREM OnlyWholeBodiesSucceed == Spec => []SuccessMeansWholeBody
<1>1. Inv => SuccessMeansWholeBody
  BY DEF Inv, Local, Whole, Succeeds, SuccessMeansWholeBody
<1> QED BY <1>1, Invariance, PTL
===============================================================================
