---------------------------- MODULE LocalWebServer ----------------------------
(***************************************************************************)
(* The local web server: one accepting thread, a handler thread for every  *)
(* connection it admits, a timer thread for every request it reads, and    *)
(* the clients. Connections are bounded by a semaphore; the reading of a   *)
(* request has an absolute deadline, because the upload itself is read     *)
(* without a socket timeout; the writing of a response has one.            *)
(*                                                                         *)
(* A request body is a number of units, the last of which closes the       *)
(* multipart. Host, token and route checks are one choice, as is what the  *)
(* pipeline makes of a document.                                           *)
(***************************************************************************)
EXTENDS Naturals, FiniteSets, Sequences

CONSTANTS
    Connections,     \* the connections clients may open
    MaxConnections,  \* the slots of the semaphore
    MaxBody          \* max_body_bytes, in units

ASSUME ServerAssumption ==
    /\ IsFiniteSet(Connections)
    /\ MaxConnections \in Nat \ {0}
    /\ MaxBody \in Nat \ {0}

VARIABLES
    slots,     \* free slots of _connection_slots
    phase,     \* of the connection's handler
    timer,     \* of the request's read deadline
    readShut,  \* whether the deadline has shut the reading side down
    client,    \* "reading", "stalled" (has been idle too long) or "gone"
    request,   \* the request once its head is read
    received,  \* units of the body received by the handler
    wire       \* the responses written to the connection

vars == <<slots, phase, timer, readShut, client, request, received, wire>>

NotRead == [kind |-> "not read"]

(***************************************************************************)
(* A request is one of the GETs that are served, one that a check refuses, *)
(* no request at all (an empty line, or the end of the stream), one with a *)
(* single session header that is not ASCII, or an upload. The headers are  *)
(* decoded as Latin-1 and compare_digest raises a TypeError for such a one,*)
(* in _authorized, which every handler calls outside of its try.           *)
(*                                                                         *)
(* An upload announces no length, or one; a duplicated or malformed one is *)
(* refused as one beyond the limit is.                                     *)
(***************************************************************************)
NoLength == <<>>

Request ==
    [kind : {"get", "refused", "blank", "incomparable"}]
        \cup [kind : {"post"}, body : 1 .. MaxBody + 1,
              length : {NoLength} \cup {<<n>> : n \in 0 .. MaxBody + 1}]

(***************************************************************************)
(* The statuses other than 200 (400, 401, 403, 404, 405, 422, 500) are one.*)
(***************************************************************************)
Statuses == {"200", "error"}

Phases ==
    {"away", "backlog", "starting", "head", "body", "process", "deliver", "reject",
     "closing"}

(***************************************************************************)
(* A slot is held from its acquisition to the release by the handler or,   *)
(* if no thread could be started, by the accepting thread.                 *)
(***************************************************************************)
Holding == {"starting", "head", "body", "process", "deliver", "reject", "closing"}

-------------------------------------------------------------------------------
Init ==
    /\ slots = MaxConnections
    /\ phase = [c \in Connections |-> "away"]
    /\ timer = [c \in Connections |-> "off"]
    /\ readShut = [c \in Connections |-> FALSE]
    /\ client = [c \in Connections |-> "reading"]
    /\ request = [c \in Connections |-> NotRead]
    /\ received = [c \in Connections |-> 0]
    /\ wire = [c \in Connections |-> <<>>]

GoTo(c, p) == phase' = [phase EXCEPT ![c] = p]

(***************************************************************************)
(* The client: it may connect, be idle for longer than the socket timeout  *)
(* (and go on after that), and go away at any time.                        *)
(***************************************************************************)
Connect(c) ==
    /\ phase[c] = "away"
    /\ GoTo(c, "backlog")
    /\ UNCHANGED <<slots, timer, readShut, client, request, received, wire>>

Stall(c) ==
    /\ phase[c] \in Holding
    /\ client[c] = "reading"
    /\ client' = [client EXCEPT ![c] = "stalled"]
    /\ UNCHANGED <<slots, phase, timer, readShut, request, received, wire>>

GoAway(c) ==
    /\ phase[c] \in Holding
    /\ client[c] # "gone"
    /\ client' = [client EXCEPT ![c] = "gone"]
    /\ UNCHANGED <<slots, phase, timer, readShut, request, received, wire>>

(***************************************************************************)
(* The connection is closed and its handler object gone. A timer that fires*)
(* from now on finds a closed socket, an OSError it swallows.              *)
(***************************************************************************)
Forget(c) ==
    /\ timer' = [timer EXCEPT ![c] = "off"]
    /\ readShut' = [readShut EXCEPT ![c] = FALSE]
    /\ client' = [client EXCEPT ![c] = "reading"]
    /\ request' = [request EXCEPT ![c] = NotRead]
    /\ received' = [received EXCEPT ![c] = 0]
    /\ wire' = [wire EXCEPT ![c] = <<>>]

(***************************************************************************)
(* The accepting thread: process_request. Only one connection at a time is *)
(* between the acquisition of its slot and the start of its thread.        *)
(***************************************************************************)
Accepting == \E c \in Connections : phase[c] = "starting"

AdmitOrRefuse(c) ==
    /\ phase[c] = "backlog"
    /\ ~Accepting
    /\ IF slots > 0
       THEN slots' = slots - 1 /\ GoTo(c, "starting")
       ELSE UNCHANGED slots /\ GoTo(c, "away")
    /\ UNCHANGED <<timer, readShut, client, request, received, wire>>

(***************************************************************************)
(* Faulty: when no thread can be started, the slot is kept; or the request *)
(* is torn down as a handled one is, which releases the slot once more.    *)
(***************************************************************************)
StartFailsKeepingSlot(c) ==
    /\ phase[c] = "starting"
    /\ GoTo(c, "away")
    /\ UNCHANGED slots
    /\ Forget(c)

StartFailsAsHandled(c) ==
    /\ phase[c] = "starting"
    /\ slots' = slots + 1
    /\ GoTo(c, "closing")
    /\ UNCHANGED <<timer, readShut, client, request, received, wire>>

StartFails(c) ==
    /\ phase[c] = "starting"
    /\ slots' = slots + 1
    /\ GoTo(c, "away")
    /\ Forget(c)

(***************************************************************************)
(* The handler thread starts: handle_one_request arms the deadline. When   *)
(* the timer's own thread cannot be started the request ends there.        *)
(***************************************************************************)
StartHandler(c) ==
    /\ phase[c] = "starting"
    /\ \/ GoTo(c, "head") /\ timer' = [timer EXCEPT ![c] = "armed"]
       \/ GoTo(c, "closing") /\ UNCHANGED timer
    /\ UNCHANGED <<slots, readShut, client, request, received, wire>>

(***************************************************************************)
(* The timer thread. Having found the deadline not cancelled it shuts the  *)
(* reading side down, however late: a cancellation in between is lost.     *)
(***************************************************************************)
Canceled(c) == timer' = [timer EXCEPT ![c] = IF @ = "armed" THEN "off" ELSE @]

DeadlinePasses(c) ==
    /\ timer[c] = "armed"
    /\ timer' = [timer EXCEPT ![c] = "firing"]
    /\ UNCHANGED <<slots, phase, readShut, client, request, received, wire>>

(***************************************************************************)
(* Faulty: the connection is shut down in both directions.                 *)
(***************************************************************************)
ExpireBothWays(c) ==
    /\ timer[c] = "firing"
    /\ timer' = [timer EXCEPT ![c] = "off"]
    /\ readShut' = [readShut EXCEPT ![c] = TRUE]
    /\ phase' = [phase EXCEPT ![c] =
                    IF @ \in {"process", "deliver", "reject"} THEN "closing" ELSE @]
    /\ UNCHANGED <<slots, client, request, received, wire>>

ExpireReadPhase(c) ==
    /\ timer[c] = "firing"
    /\ timer' = [timer EXCEPT ![c] = "off"]
    /\ readShut' = [readShut EXCEPT ![c] = TRUE]
    /\ UNCHANGED <<slots, phase, client, request, received, wire>>

-------------------------------------------------------------------------------
(***************************************************************************)
(* Reading the request line and headers, and checking them. A GET cancels  *)
(* the deadline at once; any other request leaves it to its body or to the *)
(* end of handle_one_request, which a request without an answer, blank or  *)
(* ended by the exception of its check, comes to at once.                  *)
(***************************************************************************)
Unanswerable == {"blank", "incomparable"}

AfterHead(kind) ==
    CASE kind = "get"          -> "deliver"
      [] kind = "refused"      -> "reject"
      [] kind = "post"         -> "body"
      [] kind \in Unanswerable -> "closing"

ReadHead(c) ==
    /\ phase[c] = "head"
    /\ \E r \in Request :
           /\ request' = [request EXCEPT ![c] = r]
           /\ GoTo(c, AfterHead(r.kind))
           /\ IF r.kind \in {"get"} \cup Unanswerable THEN Canceled(c) ELSE UNCHANGED timer
    /\ UNCHANGED <<slots, readShut, client, received, wire>>

(***************************************************************************)
(* The head does not come in time: the socket timeout finds the client     *)
(* idle, or the deadline finds it slow, and there is no response.          *)
(***************************************************************************)
HeadFails(c) ==
    /\ phase[c] = "head"
    /\ readShut[c] \/ client[c] # "reading"
    /\ Canceled(c)
    /\ GoTo(c, "closing")
    /\ UNCHANGED <<slots, readShut, client, request, received, wire>>

(***************************************************************************)
(* _read_multipart_body. A Content-Length out of bounds is refused before  *)
(* anything is read; otherwise the handler waits for that many units, or   *)
(* without one for one more than the limit. What was sent before or even   *)
(* after the reading side is shut down may still be read.                  *)
(***************************************************************************)
Wanted(r) == IF r.length = NoLength THEN MaxBody + 1 ELSE r.length[1]

LengthRefused(r) == r.length # NoLength /\ r.length[1] > MaxBody

ReceiveUnit(c) ==
    /\ phase[c] = "body"
    /\ ~LengthRefused(request[c])
    /\ received[c] < Wanted(request[c])
    /\ received[c] < request[c].body
    /\ client[c] # "gone"
    /\ received' = [received EXCEPT ![c] = @ + 1]
    /\ UNCHANGED <<slots, phase, timer, readShut, client, request, wire>>

(***************************************************************************)
(* A body is taken when it has the announced length, or is within the      *)
(* limit, and when the multipart in it is closed. Faulty: without a length *)
(* the limit is forgotten.                                                 *)
(***************************************************************************)
AcceptableWithoutLimit(r, n) ==
    /\ ~LengthRefused(r)
    /\ r.length = NoLength \/ n = r.length[1]
    /\ n = r.body

Acceptable(r, n) ==
    /\ ~LengthRefused(r)
    /\ IF r.length = NoLength THEN n <= MaxBody ELSE n = r.length[1]
    /\ n = r.body

(***************************************************************************)
(* do_POST once the read returns: the deadline is cancelled first, then    *)
(* the body is judged.                                                     *)
(***************************************************************************)
EndBody(c) ==
    /\ phase[c] = "body"
    /\ Canceled(c)
    /\ GoTo(c, IF Acceptable(request[c], received[c]) THEN "process" ELSE "reject")
    /\ UNCHANGED <<slots, readShut, client, request, received, wire>>

(***************************************************************************)
(* The read returns with all that was wanted, or at the end of the stream  *)
(* once the reading side is shut down. Faulty: it is not shut down.        *)
(***************************************************************************)
AllRead(c) == LengthRefused(request[c]) \/ received[c] = Wanted(request[c])

BodyEnds(c) == AllRead(c) \/ readShut[c]

FinishBody(c) == phase[c] = "body" /\ BodyEnds(c) /\ EndBody(c)

(***************************************************************************)
(* The client ends its side of the stream during the upload, wherever it   *)
(* has got to, or resets the connection.                                   *)
(***************************************************************************)
ClientEndsBody(c) ==
    \/ EndBody(c)
    \/ /\ phase[c] = "body"
       /\ client[c] = "gone"
       /\ Canceled(c)
       /\ GoTo(c, "reject")
       /\ UNCHANGED <<slots, readShut, client, request, received, wire>>

(***************************************************************************)
(* The pipeline delivers, or one of its errors is answered.                *)
(***************************************************************************)
Process(c) ==
    /\ phase[c] = "process"
    /\ GoTo(c, "deliver") \/ GoTo(c, "reject")
    /\ UNCHANGED <<slots, timer, readShut, client, request, received, wire>>

-------------------------------------------------------------------------------
(***************************************************************************)
(* Writing a response: its head, then its payload. A write fails when the  *)
(* client is gone or has not read for the length of the socket timeout.    *)
(***************************************************************************)
Begin(c, status) ==
    wire' = [wire EXCEPT ![c] = Append(@, [status |-> status, whole |-> FALSE])]

Begun(c, status) ==
    /\ wire[c] # <<>>
    /\ wire[c][Len(wire[c])] = [status |-> status, whole |-> FALSE]

StatusOf(c) == IF phase[c] = "deliver" THEN "200" ELSE "error"

WriteHead(c) ==
    /\ phase[c] \in {"deliver", "reject"}
    /\ client[c] # "gone"
    /\ ~Begun(c, StatusOf(c))
    /\ Begin(c, StatusOf(c))
    /\ UNCHANGED <<slots, phase, timer, readShut, client, request, received>>

WritePayload(c) ==
    /\ phase[c] \in {"deliver", "reject"}
    /\ client[c] # "gone"
    /\ Begun(c, StatusOf(c))
    /\ wire' = [wire EXCEPT ![c][Len(wire[c])].whole = TRUE]
    /\ Canceled(c)
    /\ GoTo(c, "closing")
    /\ UNCHANGED <<slots, readShut, client, request, received>>

(***************************************************************************)
(* A failed write of a rejection is swallowed and one of a GET ends the    *)
(* request; one of a delivery is answered by a rejection of its own.       *)
(***************************************************************************)
WriteFails(c) ==
    /\ client[c] # "reading"
    /\ phase[c] \in {"deliver", "reject"}
    /\ Canceled(c)
    /\ GoTo(c, IF phase[c] = "deliver" /\ request[c].kind = "post" THEN "reject"
               ELSE "closing")
    /\ UNCHANGED <<slots, readShut, client, request, received, wire>>

(***************************************************************************)
(* process_request_thread: the connection is closed, then the slot is      *)
(* released, whatever happened before.                                     *)
(***************************************************************************)
Release(c) ==
    /\ phase[c] = "closing"
    /\ slots' = slots + 1
    /\ GoTo(c, "away")
    /\ Forget(c)

Next ==
    \E c \in Connections :
        \/ Connect(c) \/ Stall(c) \/ GoAway(c)
        \/ AdmitOrRefuse(c) \/ StartFails(c) \/ StartHandler(c)
        \/ DeadlinePasses(c) \/ ExpireReadPhase(c)
        \/ ReadHead(c) \/ HeadFails(c)
        \/ ReceiveUnit(c) \/ FinishBody(c) \/ ClientEndsBody(c)
        \/ Process(c)
        \/ WriteHead(c) \/ WritePayload(c) \/ WriteFails(c)
        \/ Release(c)

Spec == Init /\ [][Next]_vars

(***************************************************************************)
(* Threads run, time passes and the pipeline ends; what a client does or   *)
(* sends is never to be counted on.                                        *)
(***************************************************************************)
Fairness ==
    \A c \in Connections :
        /\ WF_vars(AdmitOrRefuse(c))
        /\ WF_vars(StartFails(c) \/ StartHandler(c))
        /\ WF_vars(DeadlinePasses(c))
        /\ WF_vars(ExpireReadPhase(c))
        /\ WF_vars(HeadFails(c))
        /\ WF_vars(FinishBody(c))
        /\ WF_vars(Process(c))
        /\ WF_vars(WriteHead(c) \/ WritePayload(c) \/ WriteFails(c))
        /\ WF_vars(Release(c))

FairSpec == Spec /\ Fairness

-------------------------------------------------------------------------------
(***************************************************************************)
(* Type correctness; in particular the semaphore is never released above   *)
(* its bound, which BoundedSemaphore would answer with a ValueError.       *)
(***************************************************************************)
TypeOK ==
    /\ slots \in 0 .. MaxConnections
    /\ phase \in [Connections -> Phases]
    /\ timer \in [Connections -> {"off", "armed", "firing"}]
    /\ readShut \in [Connections -> BOOLEAN]
    /\ client \in [Connections -> {"reading", "stalled", "gone"}]
    /\ request \in [Connections -> Request \cup {NotRead}]
    /\ received \in [Connections -> 0 .. MaxBody + 1]
    /\ \A c \in Connections :
           wire[c] \in Seq([status : Statuses, whole : BOOLEAN])

(***************************************************************************)
(* No slot is lost or released twice, on any path: refused, not started,   *)
(* failed, expired or abandoned.                                           *)
(***************************************************************************)
SlotsAccounted ==
    slots + Cardinality({c \in Connections : phase[c] \in Holding}) = MaxConnections

(***************************************************************************)
(* A deadline that passes late, during the pipeline or the writing, costs  *)
(* nothing: to a client that keeps up exactly one response, and all of it, *)
(* is written, whenever its request was read, but for the two kinds that   *)
(* have none: no request, and a session header that cannot be compared, to *)
(* which nothing is written (do_GET, do_POST, handle_one_request).         *)
(***************************************************************************)
AnsweredInFull ==
    \A c \in Connections :
        phase[c] = "closing" /\ request[c] # NotRead /\ client[c] = "reading" =>
            IF request[c].kind \in Unanswerable THEN wire[c] = <<>>
            ELSE Len(wire[c]) = 1 /\ wire[c][1].whole

(***************************************************************************)
(* An upload is processed and answered with success only if all of it was  *)
(* read and it is within the limit, whoever ended the reading and whatever *)
(* length was announced.                                                   *)
(***************************************************************************)
SuccessMeansWholeBody ==
    \A c \in Connections :
        /\ request[c].kind = "post"
        /\ phase[c] = "process" \/ (\E i \in DOMAIN wire[c] : wire[c][i].status = "200")
        => received[c] = request[c].body /\ received[c] <= MaxBody

(***************************************************************************)
(* Decision 0057: the server answers "em uma única resposta". When writing*)
(* a delivery fails, do_POST begins a second response behind the first.    *)
(***************************************************************************)
OneResponse == \A c \in Connections : Len(wire[c]) <= 1

(***************************************************************************)
(* Whatever its client does or does not do, a connection gives its slot    *)
(* back, so that a full server admits connections again.                   *)
(***************************************************************************)
SlotsComeBack ==
    \A c \in Connections : phase[c] \in Holding ~> phase[c] = "away"
===============================================================================
