------------------------------ MODULE ToolServer ------------------------------
(***************************************************************************)
(* The HTTP tool service: src/proofflow/tool_server.py and the registry of *)
(* trusted evidence in src/proofflow/trusted_store.py.  One accept loop    *)
(* hands connections to threads, as many as there are request slots; a     *)
(* thread reads one request under one deadline, runs a skill, and answers. *)
(* Clients may stop sending, hang up or not take the answer at any time.   *)
(*                                                                         *)
(* Data.  A request is a record of what the server finds in it.  Evidence  *)
(* is named by its scope (tenant, case, trace), its field and the time the *)
(* server stamped it with: the registry key holds a hash over all of them, *)
(* so two objects under one key are the same object.                       *)
(***************************************************************************)
EXTENDS Naturals, FiniteSets

CONSTANTS
    Clients,        \* connections in use at the same time
    Requests,       \* the requests they send
    MaxConcurrent,  \* max_concurrent_requests
    Capacity,       \* trusted_artifact_capacity
    ReadTicks,      \* read_timeout_seconds, in ticks of the deadline
    MaxTime         \* bound on the server's wall clock

ASSUME ServerAssumption ==
    /\ IsFiniteSet(Clients)
    /\ \A r \in Requests : /\ r.skill \in {"OK", "BLOCKED"}
                           /\ "CALCULATED" \notin {r.line, r.framing, r.body}
                           /\ "BODY" \notin {r.line, r.framing}
    /\ MaxConcurrent \in Nat \ {0}
    /\ Capacity \in Nat \ {0}
    /\ ReadTicks \in Nat
    /\ MaxTime \in Nat

VARIABLES
    clock,      \* utc_now
    slots,      \* free permits of _request_slots
    records,    \* TrustedArtifactStore._records
    conn,       \* per client: the connection and the thread that serves it
    ingested    \* history: the batches registered

vars == <<clock, slots, records, conn, ingested>>

Phases == {"away", "queued", "head", "body", "handler", "register", "lookup", "reply", "end"}

(* The connections a thread serves.                                        *)
Threads == {c \in Clients : conn[c].phase \notin {"away", "queued"}}

-----------------------------------------------------------------------------
(* handle_one_request, do_GET, do_POST and _read_json_body up to the       *)
(* reading of the body: the answer the head alone gets, or BODY.  The      *)
(* request line may be too long, not parse, or name another method.        *)
AfterHead(r) ==
    IF r.line # "OK" THEN r.line
    ELSE IF r.path = "health" THEN "OK"
    ELSE IF r.path = "unknown" THEN "NOT_FOUND"
    ELSE IF r.authorization = "twice" THEN "AMBIGUOUS_AUTHORIZATION"
    ELSE IF r.authorization = "wrong" THEN "UNAUTHORIZED"
    ELSE IF r.framing # "OK" THEN r.framing
    ELSE "BODY"

(* The rest of _read_json_body, and the schema of the call.                *)
AfterBody(r) == IF r.body # "OK" THEN r.body ELSE "HANDLER"

(* evidence_ingest: one object per extracted field, stamped with now.      *)
Extracted(r, now) == {[scope |-> r.scope, field |-> f, at |-> now] : f \in r.fields}

(* The scope the caller works in is not compared.                          *)
BadContains(r, object) == \E x \in records : x.field = object.field /\ x.at = object.at

(* TrustedArtifactStore.contains, under the caller's own scope.            *)
Contains(r, object) == object.scope = r.scope /\ object \in records

-----------------------------------------------------------------------------
Away == [phase |-> "away"]
Queued(r) ==
    [phase |-> "queued", req |-> r, left |-> 0, todo |-> {}, trusted |-> TRUE, code |-> "NONE"]

Init ==
    /\ clock = 0
    /\ slots = MaxConcurrent
    /\ records = {}
    /\ conn = [c \in Clients |-> Away]
    /\ ingested = {}

Goto(c, phase) == conn' = [conn EXCEPT ![c].phase = phase]
Answer(c, code) ==
    conn' = [conn EXCEPT ![c].phase = "reply", ![c].left = 0, ![c].code = code]

Tick ==
    /\ clock < MaxTime
    /\ clock' = clock + 1
    /\ UNCHANGED <<slots, records, conn, ingested>>

Connect(c, r) ==
    /\ conn[c].phase = "away"
    /\ conn' = [conn EXCEPT ![c] = Queued(r)]
    /\ UNCHANGED <<clock, slots, records, ingested>>

(* process_request: a slot and a thread, or 503 at once.                   *)
ProcessRequest(c) ==
    /\ conn[c].phase = "queued"
    /\ \/ /\ slots > 0
          /\ slots' = slots - 1
          /\ conn' = [conn EXCEPT ![c].phase = "head", ![c].left = ReadTicks]
       \/ /\ slots = 0
          /\ conn' = [conn EXCEPT ![c] = Away]
          /\ UNCHANGED slots
    /\ UNCHANGED <<clock, records, ingested>>

(* process_request, when no thread can be started: the slot is given back. *)
StartFails(c) ==
    /\ conn[c].phase = "queued"
    /\ slots > 0
    /\ conn' = [conn EXCEPT ![c] = Away]
    /\ UNCHANGED <<clock, slots, records, ingested>>

(* Request line and headers are in.                                        *)
ReadHead(c) ==
    LET next == AfterHead(conn[c].req)
    IN  /\ conn[c].phase = "head"
        /\ conn[c].left > 0
        /\ IF next = "BODY" THEN Goto(c, "body") ELSE Answer(c, next)
        /\ UNCHANGED <<clock, slots, records, ingested>>

(* The body is in, by then perhaps buffered.                               *)
ReadBody(c) ==
    LET next == AfterBody(conn[c].req)
    IN  /\ conn[c].phase = "body"
        /\ IF next = "HANDLER"
             THEN conn' = [conn EXCEPT ![c].phase = "handler", ![c].left = 0]
             ELSE Answer(c, next)
        /\ UNCHANGED <<clock, slots, records, ingested>>

(* The client hangs up: an empty request line ends the thread quietly, a   *)
(* broken body is answered.                                                *)
HangUp(c) ==
    /\ \/ /\ conn[c].phase = "head"
          /\ conn' = [conn EXCEPT ![c].phase = "end", ![c].left = 0, ![c].code = "CLOSED"]
       \/ /\ conn[c].phase = "body"
          /\ Answer(c, "INCOMPLETE_REQUEST_BODY")
    /\ UNCHANGED <<clock, slots, records, ingested>>

(* The deadline guards the request line and the headers only.              *)
BadElapse(c) ==
    /\ conn[c].phase = "head"
    /\ conn[c].left > 0
    /\ conn' = [conn EXCEPT ![c].left = @ - 1]
    /\ UNCHANGED <<clock, slots, records, ingested>>

(* Time passes for a thread that waits for its client.                     *)
Elapse(c) ==
    /\ conn[c].phase \in {"head", "body"}
    /\ conn[c].left > 0
    /\ conn' = [conn EXCEPT ![c].left = @ - 1]
    /\ UNCHANGED <<clock, slots, records, ingested>>

(* _RequestReadTimeout.                                                    *)
Expire(c) ==
    /\ conn[c].phase \in {"head", "body"}
    /\ conn[c].left = 0
    /\ Answer(c, "REQUEST_TIMEOUT")
    /\ UNCHANGED <<clock, slots, records, ingested>>

-----------------------------------------------------------------------------
(* do_POST runs the skill of the path.  What evidence_ingest extracts      *)
(* still has to be registered; calculation looks its evidence up.          *)
Handle(c) ==
    LET r == conn[c].req
    IN  /\ conn[c].phase = "handler"
        /\ \/ /\ r.path = "ingest" /\ r.skill = "OK"
              /\ conn' = [conn EXCEPT ![c].phase = "register", ![c].todo = Extracted(r, clock)]
           \/ /\ r.path = "ingest" /\ r.skill = "BLOCKED"
              /\ Answer(c, "BLOCKED")
           \/ /\ r.path = "retrieve"
              /\ Answer(c, r.skill)
           \/ /\ r.path = "calculate"
              /\ conn' = [conn EXCEPT ![c].phase = "lookup", ![c].todo = r.uses]
        /\ UNCHANGED <<clock, slots, records, ingested>>

(* A skill raises something unforeseen.                                    *)
HandleRaises(c) ==
    /\ conn[c].phase = "handler"
    /\ Answer(c, "INTERNAL_ERROR")
    /\ UNCHANGED <<clock, slots, records, ingested>>

(* As much of the batch as there is room for is kept.                      *)
BadRegisterAll(c) ==
    /\ conn[c].phase = "register"
    /\ \E some \in SUBSET conn[c].todo :
           /\ Cardinality(records \cup some) <= Capacity
           /\ records' = records \cup some
    /\ ingested' = ingested \cup {conn[c].todo}
    /\ Answer(c, "OK")
    /\ UNCHANGED <<clock, slots>>

(* register_all, under the registry's lock: the whole batch or none of it. *)
(* (Its other error, TRUST_STORE_REGISTRATION_FAILED, is for objects of    *)
(* another kind or unsealed; evidence_ingest makes none.)                  *)
RegisterAll(c) ==
    /\ conn[c].phase = "register"
    /\ \/ /\ Cardinality(records \cup conn[c].todo) <= Capacity
          /\ records' = records \cup conn[c].todo
          /\ ingested' = ingested \cup {conn[c].todo}
          /\ Answer(c, "OK")
       \/ /\ Cardinality(records \cup conn[c].todo) > Capacity
          /\ Answer(c, "TRUST_STORE_CAPACITY_EXHAUSTED")
          /\ UNCHANGED <<records, ingested>>
    /\ UNCHANGED <<clock, slots>>

(* _artifact_boundary_issues: the evidence is looked up one by one, the    *)
(* lock being free in between; then the calculation is made, or blocked    *)
(* for this or another reason.                                             *)
LookUp(c) ==
    /\ conn[c].phase = "lookup"
    /\ \/ \E object \in conn[c].todo :
              conn' = [conn EXCEPT ![c].todo = @ \ {object},
                                   ![c].trusted = @ /\ Contains(conn[c].req, object)]
       \/ /\ conn[c].todo = {}
          /\ Answer(c, IF conn[c].trusted /\ conn[c].req.skill = "OK"
                       THEN "CALCULATED" ELSE "BLOCKED")
    /\ UNCHANGED <<clock, slots, records, ingested>>

-----------------------------------------------------------------------------
(* The result of a skill may be too large to be sent.                      *)
TooLarge(c) == conn[c].req.large /\ conn[c].code \in {"OK", "CALCULATED", "BLOCKED"}

(* _send_json: too late for what the skill has done, a result that is too  *)
(* large becomes an error.                                                 *)
Send(c) ==
    /\ conn[c].phase = "reply"
    /\ \/ /\ ~TooLarge(c)
          /\ Goto(c, "end")
       \/ /\ TooLarge(c)
          /\ conn' = [conn EXCEPT ![c].phase = "end", ![c].code = "RESPONSE_TOO_LARGE"]
    /\ UNCHANGED <<clock, slots, records, ingested>>

(* The client is gone: the write raises and the thread ends all the same.  *)
SendFails(c) ==
    /\ conn[c].phase = "reply"
    /\ conn' = [conn EXCEPT ![c].phase = "end", ![c].code = "LOST"]
    /\ UNCHANGED <<clock, slots, records, ingested>>

(* A thread whose client is gone does not give its slot back.              *)
BadEnd(c) ==
    /\ conn[c].phase = "end"
    /\ slots' = IF conn[c].code = "LOST" THEN slots ELSE slots + 1
    /\ conn' = [conn EXCEPT ![c] = Away]
    /\ UNCHANGED <<clock, records, ingested>>

(* process_request_thread: finally, the slot is given back.                *)
End(c) ==
    /\ conn[c].phase = "end"
    /\ slots' = slots + 1
    /\ conn' = [conn EXCEPT ![c] = Away]
    /\ UNCHANGED <<clock, records, ingested>>

(* What the server does by itself.                                         *)
Serve(c) ==
    \/ ProcessRequest(c) \/ Elapse(c) \/ Expire(c)
    \/ Handle(c) \/ RegisterAll(c) \/ LookUp(c) \/ Send(c) \/ End(c)

(* What the client, or a failure, does to it.                              *)
Disturb(c) ==
    \/ \E r \in Requests : Connect(c, r)
    \/ ReadHead(c) \/ ReadBody(c) \/ HangUp(c)
    \/ StartFails(c) \/ HandleRaises(c) \/ SendFails(c)

Next == Tick \/ \E c \in Clients : Serve(c) \/ Disturb(c)

(* The accept loop takes connections in the order they come, threads run,  *)
(* and time passes; nothing is assumed of the clients.                     *)
Fairness == \A c \in Clients : WF_vars(Serve(c))

Spec == Init /\ [][Next]_vars /\ Fairness

-----------------------------------------------------------------------------
Objects == {[scope |-> r.scope, field |-> f, at |-> t] :
               r \in Requests, f \in UNION {s.fields : s \in Requests}, t \in 0..MaxTime}

Evidences == Objects \cup UNION {r.uses : r \in Requests}

Codes ==
    {"NONE", "OK", "BLOCKED", "CALCULATED", "NOT_FOUND", "AMBIGUOUS_AUTHORIZATION",
     "UNAUTHORIZED", "INCOMPLETE_REQUEST_BODY", "REQUEST_TIMEOUT", "INTERNAL_ERROR",
     "TRUST_STORE_CAPACITY_EXHAUSTED", "RESPONSE_TOO_LARGE", "CLOSED", "LOST"}
    \cup UNION {{r.line, r.framing, r.body} : r \in Requests}

Connection ==
    [phase : Phases \ {"away"}, req : Requests, left : 0..ReadTicks,
     todo : SUBSET Evidences, trusted : BOOLEAN, code : Codes]

(* Connections, slots and registry have their shapes, and the registry     *)
(* keeps to its capacity.                                                  *)
TypeOK ==
    /\ clock \in 0..MaxTime
    /\ slots \in 0..MaxConcurrent
    /\ records \subseteq Objects
    /\ Cardinality(records) <= Capacity
    /\ conn \in [Clients -> {Away} \cup Connection]
    /\ \A c \in Clients : conn[c].phase = "register" => conn[c].todo \subseteq Objects

(* No slot is lost or made up: whatever happens to a request, the free     *)
(* slots and the running threads add up to max_concurrent_requests, so the *)
(* BoundedSemaphore is never released too often and the service does not   *)
(* wear out.                                                               *)
SlotsConserved == slots + Cardinality(Threads) = MaxConcurrent

(* The registry holds whole batches of successful ingestions and nothing   *)
(* else, however registrations race for the last places (register_all).    *)
RegisteredWhole == records = UNION ingested

(* A calculation was made only from evidence this process registered, in   *)
(* the caller's own tenant, case and trace (contains).                     *)
CalculatedFromRegistered ==
    \A c \in Threads : conn[c].code = "CALCULATED" =>
        \A object \in conn[c].req.uses :
            object.scope = conn[c].req.scope /\ \E batch \in ingested : object \in batch

(* The connection of c comes to an end, however slowly the client sends    *)
(* and whatever it sends: no thread, and no slot, is held for ever.        *)
ConnectionEnds(c) == conn[c].phase # "away" ~> conn[c].phase = "away"
=============================================================================
