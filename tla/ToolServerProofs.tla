-------------------------- MODULE ToolServerProofs --------------------------
(***************************************************************************)
(* Proofs about the tool service for every finite set of connections,      *)
(* every set of requests, every number of slots and every capacity.        *)
(***************************************************************************)
EXTENDS ToolServer, FiniteSetTheorems, TLAPS

Served(k) == k.phase \notin {"away", "queued"}

(* A step changes one connection, and takes or gives back a slot exactly   *)
(* when a thread begins or ends to serve it.                               *)
Moves(c, k) ==
    /\ conn' = [conn EXCEPT ![c] = k]
    /\ k \in {Away} \cup Connection
    /\ k.phase = "register" => k.todo \subseteq Objects
    /\ \/ Served(conn[c]) /\ Served(k) /\ slots' = slots
       \/ ~Served(conn[c]) /\ ~Served(k) /\ slots' = slots
       \/ ~Served(conn[c]) /\ Served(k) /\ slots > 0 /\ slots' = slots - 1
       \/ Served(conn[c]) /\ ~Served(k) /\ slots' = slots + 1

(* An answer is given in a thread, and leaves the request as it is.        *)
LEMMA AnswerMoves ==
    ASSUME TypeOK, NEW c \in Clients, NEW code \in Codes, Served(conn[c]), Answer(c, code),
           slots' = slots
    PROVE  \E k : Moves(c, k)
<1> DEFINE k == [conn[c] EXCEPT !.phase = "reply", !.left = 0, !.code = code]
<1>1. conn[c] \in Connection
  BY DEF TypeOK, Served, Away
<1>2. k \in Connection /\ k.phase = "reply"
  <2>1. 0 \in 0..ReadTicks
    BY ServerAssumption
  <2>2. "reply" \in Phases \ {"away"}
    BY DEF Phases
  <2>3. QED
    BY <1>1, <2>1, <2>2 DEF Connection
<1>3. conn' = [conn EXCEPT ![c] = k]
  BY DEF Answer
<1>4. Moves(c, k)
  BY <1>2, <1>3 DEF Moves, Served
<1>5. QED
  BY <1>4

(* The steps of the server by itself.                                      *)
LEMMA ServeMoves ==
    ASSUME TypeOK, NEW c \in Clients, Serve(c)
    PROVE  \E k : Moves(c, k)
<1>0. /\ 0 \in 0..ReadTicks /\ ReadTicks \in 0..ReadTicks
      /\ {"head", "register", "lookup", "end"} \subseteq Phases \ {"away"}
  BY ServerAssumption DEF Phases
<1>1. conn[c] \in Connection \/ conn[c] = Away
  BY DEF TypeOK
<1>a. conn[c] # Away => conn[c] \in Connection /\ conn[c].req \in Requests
  BY <1>1 DEF Connection
<1>2. CASE ProcessRequest(c)
  <2>1. conn[c].phase = "queued" /\ conn[c] \in Connection
    BY <1>2, <1>1 DEF ProcessRequest, Away
  <2> slots \in Nat
    BY ServerAssumption DEF TypeOK
  <2>2. CASE slots > 0
    <3> DEFINE k == [conn[c] EXCEPT !.phase = "head", !.left = ReadTicks]
    <3>1. k \in Connection /\ k.phase = "head"
      BY <1>0, <2>1 DEF Connection
    <3>a. slots # 0
      BY <2>2
    <3>b. /\ slots' = slots - 1
          /\ conn' = [conn EXCEPT ![c].phase = "head", ![c].left = ReadTicks]
      BY <1>2, <3>a DEF ProcessRequest
    <3>2. conn' = [conn EXCEPT ![c] = k] /\ slots' = slots - 1
      BY <3>b
    <3>3. Moves(c, k)
      BY <2>1, <2>2, <3>1, <3>2 DEF Moves, Served
    <3>4. QED
      BY <3>3
  <2>3. CASE ~(slots > 0)
    <3>1. conn' = [conn EXCEPT ![c] = Away] /\ slots' = slots
      BY <1>2, <2>3 DEF ProcessRequest
    <3>2. Moves(c, Away)
      BY <2>1, <3>1 DEF Moves, Served, Away
    <3>3. QED
      BY <3>2
  <2>4. QED
    BY <2>2, <2>3
<1>3. CASE Elapse(c)
  <2> DEFINE k == [conn[c] EXCEPT !.left = @ - 1]
  <2>1. conn[c] \in Connection /\ conn[c].phase \in {"head", "body"} /\ conn[c].left > 0
    BY <1>3, <1>1 DEF Elapse, Away
  <2>2. conn[c].left \in 0..ReadTicks
    BY <2>1 DEF Connection
  <2>3. conn[c].left - 1 \in 0..ReadTicks
    BY <2>1, <2>2, ServerAssumption
  <2>4. k \in Connection /\ k.phase = conn[c].phase
    BY <2>1, <2>3 DEF Connection
  <2>5. conn' = [conn EXCEPT ![c] = k] /\ slots' = slots
    BY <1>3 DEF Elapse
  <2>6. Moves(c, k)
    BY <2>1, <2>4, <2>5 DEF Moves, Served
  <2>7. QED
    BY <2>6
<1>4. CASE Expire(c)
  BY <1>4, AnswerMoves DEF Expire, Served, Codes
<1>5. CASE Handle(c)
  <2>1. /\ conn[c] \in Connection /\ conn[c].phase = "handler" /\ conn[c].req \in Requests
        /\ slots' = slots /\ Served(conn[c])
    BY <1>5, <1>1, <1>a DEF Handle, Away, Served
  <2>2. CASE conn' = [conn EXCEPT ![c].phase = "register",
                                  ![c].todo = Extracted(conn[c].req, clock)]
    <3> DEFINE k == [conn[c] EXCEPT !.phase = "register",
                                    !.todo = Extracted(conn[c].req, clock)]
    <3>1. Extracted(conn[c].req, clock) \subseteq Objects
      <4>1. \A f \in conn[c].req.fields : f \in UNION {s.fields : s \in Requests}
        BY <2>1
      <4>2. clock \in 0..MaxTime
        BY DEF TypeOK
      <4>3. QED
        BY <2>1, <4>1, <4>2 DEF Extracted, Objects
    <3>2. Extracted(conn[c].req, clock) \in SUBSET Evidences
      BY <3>1 DEF Evidences
    <3>3. k \in Connection /\ k.phase = "register" /\ k.todo \subseteq Objects
      BY <1>0, <2>1, <3>1, <3>2 DEF Connection
    <3>4. conn' = [conn EXCEPT ![c] = k]
      BY <2>2
    <3>5. Moves(c, k)
      BY <2>1, <3>3, <3>4 DEF Moves, Served
    <3>6. QED
      BY <3>5
  <2>3. CASE conn' = [conn EXCEPT ![c].phase = "lookup", ![c].todo = conn[c].req.uses]
    <3> DEFINE k == [conn[c] EXCEPT !.phase = "lookup", !.todo = conn[c].req.uses]
    <3>1. conn[c].req.uses \in SUBSET Evidences
      BY <2>1 DEF Evidences
    <3>2. k \in Connection /\ k.phase = "lookup"
      BY <1>0, <2>1, <3>1 DEF Connection
    <3>3. conn' = [conn EXCEPT ![c] = k]
      BY <2>3
    <3>4. Moves(c, k)
      BY <2>1, <3>2, <3>3 DEF Moves, Served
    <3>5. QED
      BY <3>4
  <2>4. CASE Answer(c, "BLOCKED")
    BY <2>1, <2>4, AnswerMoves DEF Codes
  <2>5. CASE Answer(c, conn[c].req.skill)
    <3>1. conn[c].req.skill \in Codes
      BY <2>1, ServerAssumption DEF Codes
    <3>2. QED
      BY <2>1, <2>5, <3>1, AnswerMoves
  <2>6. QED
    BY <1>5, <2>2, <2>3, <2>4, <2>5 DEF Handle
<1>6. CASE RegisterAll(c)
  BY <1>6, AnswerMoves DEF RegisterAll, Served, Codes
<1>7. CASE LookUp(c)
  <2>1. /\ conn[c] \in Connection /\ conn[c].phase = "lookup"
        /\ slots' = slots /\ Served(conn[c])
    BY <1>7, <1>1 DEF LookUp, Away, Served
  <2>2. ASSUME NEW object \in conn[c].todo,
               conn' = [conn EXCEPT ![c].todo = @ \ {object},
                                    ![c].trusted = @ /\ Contains(conn[c].req, object)]
        PROVE  \E k : Moves(c, k)
    <3> DEFINE known == conn[c].trusted /\ Contains(conn[c].req, object)
               k == [conn[c] EXCEPT !.todo = @ \ {object}, !.trusted = known]
    <3>1. known \in BOOLEAN
      OBVIOUS
    <3>2. conn[c].todo \ {object} \in SUBSET Evidences
      BY <2>1 DEF Connection
    <3>3. conn' = [conn EXCEPT ![c] = k]
      BY <2>2
    <3> HIDE DEF known
    <3>4. k \in Connection /\ k.phase = "lookup"
      BY <2>1, <3>1, <3>2 DEF Connection
    <3>5. Moves(c, k)
      BY <2>1, <3>3, <3>4 DEF Moves, Served
    <3>6. QED
      BY <3>5
  <2>3. CASE Answer(c, IF conn[c].trusted /\ conn[c].req.skill = "OK"
                       THEN "CALCULATED" ELSE "BLOCKED")
    BY <2>1, <2>3, AnswerMoves DEF Codes
  <2>4. QED
    BY <1>7, <2>2, <2>3 DEF LookUp
<1>8. CASE Send(c)
  <2>1. /\ conn[c] \in Connection /\ conn[c].phase = "reply"
        /\ slots' = slots
    BY <1>8, <1>1 DEF Send, Away
  <2>2. CASE conn' = [conn EXCEPT ![c].phase = "end"]
    <3> DEFINE k == [conn[c] EXCEPT !.phase = "end"]
    <3>1. k \in Connection /\ k.phase = "end" /\ conn' = [conn EXCEPT ![c] = k]
      BY <1>0, <2>1, <2>2 DEF Connection
    <3>2. Moves(c, k)
      BY <2>1, <3>1 DEF Moves, Served
    <3>3. QED
      BY <3>2
  <2>3. CASE conn' = [conn EXCEPT ![c].phase = "end", ![c].code = "RESPONSE_TOO_LARGE"]
    <3> DEFINE k == [conn[c] EXCEPT !.phase = "end", !.code = "RESPONSE_TOO_LARGE"]
    <3>1. k \in Connection /\ k.phase = "end" /\ conn' = [conn EXCEPT ![c] = k]
      BY <1>0, <2>1, <2>3 DEF Connection, Codes
    <3>2. Moves(c, k)
      BY <2>1, <3>1 DEF Moves, Served
    <3>3. QED
      BY <3>2
  <2>4. QED
    BY <1>8, <2>2, <2>3 DEF Send, Goto
<1>9. CASE End(c)
  <2>1. conn[c].phase = "end" /\ conn' = [conn EXCEPT ![c] = Away] /\ slots' = slots + 1
    BY <1>9 DEF End
  <2>2. Moves(c, Away)
    BY <2>1 DEF Moves, Served, Away
  <2>3. QED
    BY <2>2
<1>10. QED
  BY <1>2, <1>3, <1>4, <1>5, <1>6, <1>7, <1>8, <1>9 DEF Serve

(* The steps of clients and of failures.                                   *)
LEMMA DisturbMoves ==
    ASSUME TypeOK, NEW c \in Clients, Disturb(c)
    PROVE  \E k : Moves(c, k)
<1>0. /\ 0 \in 0..ReadTicks /\ {} \in SUBSET Evidences /\ TRUE \in BOOLEAN
      /\ {"queued", "body", "handler", "end"} \subseteq Phases \ {"away"}
      /\ {"NONE", "CLOSED", "LOST"} \subseteq Codes
  BY ServerAssumption DEF Phases, Codes
<1>1. conn[c] \in Connection \/ conn[c] = Away
  BY DEF TypeOK
<1>a. conn[c] # Away => conn[c] \in Connection /\ conn[c].req \in Requests
  BY <1>1 DEF Connection
<1>2. ASSUME NEW r \in Requests, Connect(c, r)
      PROVE  \E k : Moves(c, k)
  <2>1. Queued(r) \in Connection /\ Queued(r).phase = "queued"
    BY <1>0 DEF Queued, Connection
  <2>2. /\ conn[c].phase = "away"
        /\ conn' = [conn EXCEPT ![c] = Queued(r)] /\ slots' = slots
    BY <1>2 DEF Connect
  <2> HIDE DEF Queued
  <2>3. Moves(c, Queued(r))
    BY <2>1, <2>2 DEF Moves, Served
  <2>4. QED
    BY <2>3
<1>3. CASE ReadHead(c)
  <2>1. /\ conn[c] \in Connection /\ conn[c].req \in Requests /\ conn[c].phase = "head"
        /\ slots' = slots /\ Served(conn[c])
    BY <1>3, <1>1, <1>a DEF ReadHead, Away, Served
  <2>2. CASE AfterHead(conn[c].req) = "BODY"
    <3> DEFINE k == [conn[c] EXCEPT !.phase = "body"]
    <3>1. k \in Connection /\ k.phase = "body" /\ conn' = [conn EXCEPT ![c] = k]
      BY <1>0, <1>3, <2>1, <2>2 DEF Connection, ReadHead, Goto
    <3>2. Moves(c, k)
      BY <2>1, <3>1 DEF Moves, Served
    <3>3. QED
      BY <3>2
  <2>3. CASE AfterHead(conn[c].req) # "BODY"
    <3>1. AfterHead(conn[c].req) \in Codes
      BY <2>1, <2>3 DEF AfterHead, Codes
    <3>2. Answer(c, AfterHead(conn[c].req))
      BY <1>3, <2>3 DEF ReadHead
    <3>3. QED
      BY <2>1, <3>1, <3>2, AnswerMoves
  <2>4. QED
    BY <2>2, <2>3
<1>4. CASE ReadBody(c)
  <2>1. /\ conn[c] \in Connection /\ conn[c].req \in Requests /\ conn[c].phase = "body"
        /\ slots' = slots /\ Served(conn[c])
    BY <1>4, <1>1, <1>a DEF ReadBody, Away, Served
  <2>2. CASE AfterBody(conn[c].req) = "HANDLER"
    <3> DEFINE k == [conn[c] EXCEPT !.phase = "handler", !.left = 0]
    <3>1. k \in Connection /\ k.phase = "handler" /\ conn' = [conn EXCEPT ![c] = k]
      BY <1>0, <1>4, <2>1, <2>2 DEF Connection, ReadBody
    <3>2. Moves(c, k)
      BY <2>1, <3>1 DEF Moves, Served
    <3>3. QED
      BY <3>2
  <2>3. CASE AfterBody(conn[c].req) # "HANDLER"
    <3>1. AfterBody(conn[c].req) \in Codes
      BY <2>1, <2>3 DEF AfterBody, Codes
    <3>2. Answer(c, AfterBody(conn[c].req))
      BY <1>4, <2>3 DEF ReadBody
    <3>3. QED
      BY <2>1, <3>1, <3>2, AnswerMoves
  <2>4. QED
    BY <2>2, <2>3
<1>5. CASE HangUp(c)
  <2>1. /\ conn[c] \in Connection /\ conn[c].phase \in {"head", "body"}
        /\ slots' = slots /\ Served(conn[c])
    BY <1>5, <1>1 DEF HangUp, Away, Served
  <2>2. CASE conn' = [conn EXCEPT ![c].phase = "end", ![c].left = 0, ![c].code = "CLOSED"]
    <3> DEFINE k == [conn[c] EXCEPT !.phase = "end", !.left = 0, !.code = "CLOSED"]
    <3>1. k \in Connection /\ k.phase = "end" /\ conn' = [conn EXCEPT ![c] = k]
      BY <1>0, <2>1, <2>2 DEF Connection
    <3>2. Moves(c, k)
      BY <2>1, <3>1 DEF Moves, Served
    <3>3. QED
      BY <3>2
  <2>3. CASE Answer(c, "INCOMPLETE_REQUEST_BODY")
    BY <2>1, <2>3, AnswerMoves DEF Codes
  <2>4. QED
    BY <1>5, <2>2, <2>3 DEF HangUp
<1>6. CASE StartFails(c)
  <2>1. /\ conn[c].phase = "queued" /\ conn' = [conn EXCEPT ![c] = Away]
        /\ slots' = slots
    BY <1>6 DEF StartFails
  <2>2. Moves(c, Away)
    BY <2>1 DEF Moves, Served, Away
  <2>3. QED
    BY <2>2
<1>7. CASE HandleRaises(c)
  BY <1>7, AnswerMoves DEF HandleRaises, Served, Codes
<1>8. CASE SendFails(c)
  <2> DEFINE k == [conn[c] EXCEPT !.phase = "end", !.code = "LOST"]
  <2>1. conn[c] \in Connection /\ conn[c].phase = "reply" /\ slots' = slots
    BY <1>8, <1>1 DEF SendFails, Away
  <2>2. k \in Connection /\ k.phase = "end" /\ conn' = [conn EXCEPT ![c] = k]
    BY <1>0, <1>8, <2>1 DEF Connection, SendFails
  <2>3. Moves(c, k)
    BY <2>1, <2>2 DEF Moves, Served
  <2>4. QED
    BY <2>3
<1>9. QED
  BY <1>2, <1>3, <1>4, <1>5, <1>6, <1>7, <1>8 DEF Disturb

-----------------------------------------------------------------------------
(* The change of one connection adds its thread, removes it or neither, so *)
(* the sum of free slots and threads stays what it is.                     *)
LEMMA MovesConserve ==
    ASSUME TypeOK, SlotsConserved, NEW c \in Clients, NEW k, Moves(c, k)
    PROVE  /\ slots' \in 0..MaxConcurrent
           /\ SlotsConserved'
           /\ conn' \in [Clients -> {Away} \cup Connection]
           /\ (\A d \in Clients : conn[d].phase = "register" => conn[d].todo \subseteq Objects)'
<1>1. /\ conn' \in [Clients -> {Away} \cup Connection]
      /\ conn'[c] = k /\ \A d \in Clients \ {c} : conn'[d] = conn[d]
  BY DEF Moves, TypeOK
<1>2. (\A d \in Clients : conn[d].phase = "register" => conn[d].todo \subseteq Objects)'
  BY <1>1 DEF Moves, TypeOK
<1>3. IsFiniteSet(Threads) /\ Cardinality(Threads) \in Nat
  <2>1. Threads \subseteq Clients
    BY DEF Threads
  <2>2. QED
    BY <2>1, ServerAssumption, FS_Subset, FS_CardinalityType
<1>4. /\ Served(k) => Threads' = Threads \cup {c}
      /\ ~Served(k) => Threads' = Threads \ {c}
      /\ c \in Threads <=> Served(conn[c])
  BY <1>1 DEF Threads, Served
<1>5. slots \in 0..MaxConcurrent /\ MaxConcurrent \in Nat
  BY ServerAssumption DEF TypeOK
<1>6. CASE Served(conn[c]) /\ Served(k) /\ slots' = slots
  <2>1. Threads' = Threads
    BY <1>4, <1>6
  <2>2. QED
    BY <1>1, <1>2, <1>5, <1>6, <2>1 DEF SlotsConserved
<1>7. CASE ~Served(conn[c]) /\ ~Served(k) /\ slots' = slots
  <2>1. Threads' = Threads
    BY <1>4, <1>7
  <2>2. QED
    BY <1>1, <1>2, <1>5, <1>7, <2>1 DEF SlotsConserved
<1>8. CASE ~Served(conn[c]) /\ Served(k) /\ slots > 0 /\ slots' = slots - 1
  <2>1. Cardinality(Threads') = Cardinality(Threads) + 1
    BY <1>3, <1>4, <1>8, FS_AddElement
  <2>2. QED
    BY <1>1, <1>2, <1>3, <1>5, <1>8, <2>1 DEF SlotsConserved
<1>9. CASE Served(conn[c]) /\ ~Served(k) /\ slots' = slots + 1
  <2>1. Cardinality(Threads') = Cardinality(Threads) - 1
    BY <1>3, <1>4, <1>9, FS_RemoveElement
  <2>2. IsFiniteSet(Threads') /\ Cardinality(Threads') \in Nat
    BY <1>3, <1>4, <1>9, FS_RemoveElement, FS_CardinalityType
  <2>3. QED
    BY <1>1, <1>2, <1>3, <1>5, <1>9, <2>1, <2>2 DEF SlotsConserved
<1>10. QED
  BY <1>6, <1>7, <1>8, <1>9 DEF Moves

(* Only register_all changes the registry, and it adds a whole batch of    *)
(* objects for which there is room.                                        *)
LEMMA RegistryStep ==
    ASSUME TypeOK, [Next]_vars
    PROVE  \/ records' = records /\ ingested' = ingested
           \/ \E batch \in SUBSET Objects :
                  /\ records' = records \cup batch /\ ingested' = ingested \cup {batch}
                  /\ Cardinality(records') <= Capacity
<1>1. ASSUME NEW c \in Clients, RegisterAll(c)
      PROVE  \/ records' = records /\ ingested' = ingested
             \/ \E batch \in SUBSET Objects :
                    /\ records' = records \cup batch /\ ingested' = ingested \cup {batch}
                    /\ Cardinality(records') <= Capacity
  BY <1>1 DEF RegisterAll, TypeOK
<1>2. ASSUME NEW c \in Clients, Serve(c), ~RegisterAll(c)
      PROVE  records' = records /\ ingested' = ingested
  BY <1>2 DEF Serve, ProcessRequest, Elapse, Expire, Handle, LookUp, Send, End
<1>3. ASSUME NEW c \in Clients, Disturb(c)
      PROVE  records' = records /\ ingested' = ingested
  BY <1>3 DEF Disturb, Connect, ReadHead, ReadBody, HangUp, StartFails, HandleRaises, SendFails
<1>4. CASE Tick \/ UNCHANGED vars
  BY <1>4 DEF Tick, vars
<1>5. QED
  BY <1>1, <1>2, <1>3, <1>4 DEF Next

(* The clock stays within its bound.                                       *)
LEMMA ClockStep ==
    ASSUME TypeOK, [Next]_vars
    PROVE  clock' \in 0..MaxTime
<1>1. CASE Tick
  BY <1>1, ServerAssumption DEF Tick, TypeOK
<1>2. ASSUME NEW c \in Clients, Serve(c)
      PROVE  clock' = clock
  BY <1>2 DEF Serve, ProcessRequest, Elapse, Expire, Handle, RegisterAll, LookUp, Send, End
<1>3. ASSUME NEW c \in Clients, Disturb(c)
      PROVE  clock' = clock
  BY <1>3 DEF Disturb, Connect, ReadHead, ReadBody, HangUp, StartFails, HandleRaises, SendFails
<1>4. QED
  BY <1>1, <1>2, <1>3 DEF Next, vars, TypeOK

(* Types and slots are preserved together: that a slot count stays within  *)
(* its range is because the threads account for the others.                *)
LEMMA SlotInvariant == Spec => [](TypeOK /\ SlotsConserved)
<1>1. Init => TypeOK /\ SlotsConserved
  <2> SUFFICES ASSUME Init
               PROVE  TypeOK /\ SlotsConserved
    OBVIOUS
  <2>1. Threads = {}
    BY DEF Init, Threads, Away
  <2>2. Cardinality({}) = 0
    BY FS_EmptySet
  <2>3. SlotsConserved
    BY <2>1, <2>2, ServerAssumption DEF Init, SlotsConserved
  <2>4. TypeOK
    BY <2>2, ServerAssumption DEF Init, TypeOK, Away
  <2>5. QED
    BY <2>3, <2>4
<1>2. TypeOK /\ SlotsConserved /\ [Next]_vars => (TypeOK /\ SlotsConserved)'
  <2> SUFFICES ASSUME TypeOK, SlotsConserved, [Next]_vars
               PROVE  TypeOK' /\ SlotsConserved'
    OBVIOUS
  <2>1. records' \subseteq Objects /\ Cardinality(records') <= Capacity
    BY RegistryStep DEF TypeOK
  <2>2. clock' \in 0..MaxTime
    BY ClockStep
  <2>3. ASSUME NEW c \in Clients, Serve(c) \/ Disturb(c)
        PROVE  TypeOK' /\ SlotsConserved'
    <3>1. \E k : Moves(c, k)
      BY <2>3, ServeMoves, DisturbMoves
    <3>2. QED
      BY <3>1, <2>1, <2>2, MovesConserve DEF TypeOK
  <2>4. CASE Tick \/ UNCHANGED vars
    <3>1. conn' = conn /\ slots' = slots
      BY <2>4 DEF Tick, vars
    <3>2. QED
      BY <3>1, <2>1, <2>2 DEF TypeOK, SlotsConserved, Threads
  <2>5. QED
    BY <2>3, <2>4 DEF Next
<1>3. QED
  BY <1>1, <1>2, PTL DEF Spec

(* Connections, slots and registry keep their shapes, and the registry     *)
(* never outgrows trusted_artifact_capacity, for every number of requests. *)
THEOREM TypeCorrect == Spec => []TypeOK
  BY SlotInvariant, PTL

(* process_request and process_request_thread lose no slot and make none   *)
(* up, whatever clients, skills and sockets do.                            *)
THEOREM NoSlotLost == Spec => []SlotsConserved
  BY SlotInvariant, PTL

(* register_all keeps or refuses each batch as a whole, however ingestions *)
(* race for the last places.                                               *)
THEOREM WholeBatches == Spec => []RegisteredWhole
<1>1. Init => RegisteredWhole
  BY DEF Init, RegisteredWhole
<1>2. RegisteredWhole /\ TypeOK /\ [Next]_vars => RegisteredWhole'
  BY RegistryStep DEF RegisteredWhole
<1>3. QED
  BY <1>1, <1>2, TypeCorrect, PTL DEF Spec

-----------------------------------------------------------------------------
(* What has been looked up and found is there, in the caller's own scope:  *)
(* all of it once the calculation is made, all but todo before.            *)
Known(k, object) == object.scope = k.req.scope /\ object \in records
Sound(k) ==
    /\ k.phase = "lookup" /\ k.trusted => \A object \in k.req.uses \ k.todo : Known(k, object)
    /\ k.code = "CALCULATED" => \A object \in k.req.uses : Known(k, object)
LookupInv == \A c \in Clients : conn[c] # Away => Sound(conn[c])

(* A step leaves the connection it is about sound.                         *)
LEMMA ServeSound ==
    ASSUME TypeOK, LookupInv, NEW c \in Clients, Serve(c), conn'[c] # Away
    PROVE  Sound(conn'[c])
<1>1. conn[c] \in Connection \/ conn[c] = Away
  BY DEF TypeOK
<1>2. CASE ProcessRequest(c)
  BY <1>1, <1>2 DEF ProcessRequest, TypeOK, LookupInv, Sound, Known, Away, Connection
<1>3. CASE Elapse(c)
  BY <1>1, <1>3 DEF Elapse, TypeOK, LookupInv, Sound, Known, Away, Connection
<1>4. CASE Expire(c)
  BY <1>1, <1>4 DEF Expire, Answer, TypeOK, LookupInv, Sound, Known, Away, Connection
<1>5. CASE Handle(c)
  BY <1>1, <1>5, ServerAssumption DEF Handle, Answer, TypeOK, LookupInv, Sound, Known, Away, Connection
<1>6. CASE RegisterAll(c)
  BY <1>1, <1>6 DEF RegisterAll, Answer, TypeOK, LookupInv, Sound, Known, Away, Connection
<1>7. CASE LookUp(c)
  <2>1. conn[c] \in Connection /\ conn[c].phase = "lookup" /\ Sound(conn[c])
    BY <1>1, <1>7 DEF LookUp, LookupInv, Away
  <2>2. ASSUME NEW object \in conn[c].todo,
               conn' = [conn EXCEPT ![c].todo = @ \ {object},
                                    ![c].trusted = @ /\ Contains(conn[c].req, object)]
        PROVE  Sound(conn'[c])
    <3>1. /\ conn'[c].req = conn[c].req /\ conn'[c].code = conn[c].code
          /\ conn'[c].todo = conn[c].todo \ {object}
          /\ conn'[c].trusted = (conn[c].trusted /\ Contains(conn[c].req, object))
      BY <2>1, <2>2 DEF TypeOK, Connection
    <3>2. conn'[c].trusted => conn[c].trusted /\ Known(conn[c], object)
      BY <3>1 DEF Contains, Known
    <3>3. QED
      BY <2>1, <3>1, <3>2 DEF Sound, Known
  <2>3. CASE /\ conn[c].todo = {}
             /\ Answer(c, IF conn[c].trusted /\ conn[c].req.skill = "OK"
                          THEN "CALCULATED" ELSE "BLOCKED")
    <3>1. /\ conn'[c].req = conn[c].req /\ conn'[c].phase = "reply"
          /\ conn'[c].code = "CALCULATED" => conn[c].trusted
      BY <2>1, <2>3 DEF Answer, TypeOK, Connection
    <3>2. QED
      BY <2>1, <2>3, <3>1 DEF Sound, Known
  <2>4. QED
    BY <1>7, <2>2, <2>3 DEF LookUp
<1>8. CASE Send(c)
  BY <1>1, <1>8 DEF Send, Goto, TypeOK, LookupInv, Sound, Known, Away, Connection
<1>9. CASE End(c)
  BY <1>9 DEF End, TypeOK
<1>10. QED
  BY <1>2, <1>3, <1>4, <1>5, <1>6, <1>7, <1>8, <1>9 DEF Serve

(* No answer but the calculation's own is CALCULATED.                      *)
LEMMA DisturbSound ==
    ASSUME TypeOK, LookupInv, NEW c \in Clients, Disturb(c), conn'[c] # Away
    PROVE  Sound(conn'[c])
<1>1. conn[c] \in Connection \/ conn[c] = Away
  BY DEF TypeOK
<1>2. conn[c] # Away => /\ conn[c].req \in Requests
                        /\ "CALCULATED" \notin {conn[c].req.line, conn[c].req.framing,
                                               conn[c].req.body}
  BY <1>1, ServerAssumption DEF Connection
<1>3. ASSUME NEW r \in Requests, Connect(c, r)
      PROVE  Sound(conn'[c])
  BY <1>3 DEF Connect, Queued, TypeOK, Sound
<1>4. CASE ReadHead(c)
  BY <1>1, <1>2, <1>4 DEF ReadHead, AfterHead, Goto, Answer, TypeOK, LookupInv, Sound, Known, Away, Connection
<1>5. CASE ReadBody(c)
  BY <1>1, <1>2, <1>5 DEF ReadBody, AfterBody, Answer, TypeOK, LookupInv, Sound, Known, Away, Connection
<1>6. CASE HangUp(c)
  BY <1>1, <1>6 DEF HangUp, Answer, TypeOK, Sound, Away, Connection
<1>7. CASE StartFails(c)
  BY <1>7 DEF StartFails, TypeOK
<1>8. CASE HandleRaises(c)
  BY <1>1, <1>8 DEF HandleRaises, Answer, TypeOK, Sound, Away, Connection
<1>9. CASE SendFails(c)
  BY <1>1, <1>9 DEF SendFails, TypeOK, Sound, Away, Connection
<1>10. QED
  BY <1>3, <1>4, <1>5, <1>6, <1>7, <1>8, <1>9 DEF Disturb

(* The registry only grows, so what one lookup found is still there at the *)
(* last, though the lock is free in between.                               *)
LEMMA LookupInvariant == Spec => []LookupInv
<1>1. Init => LookupInv
  BY DEF Init, LookupInv
<1>2. LookupInv /\ TypeOK /\ [Next]_vars => LookupInv'
  <2> SUFFICES ASSUME LookupInv, TypeOK, [Next]_vars,
                      NEW d \in Clients, conn'[d] # Away
               PROVE  Sound(conn[d])'
    BY DEF LookupInv, Away
  <2>1. records \subseteq records'
    BY RegistryStep
  <2>2. SUFFICES Sound(conn'[d])
    BY <2>1 DEF Sound, Known
  <2>3. ASSUME NEW c \in Clients, Serve(c) \/ Disturb(c)
        PROVE  Sound(conn'[d])
    <3>1. PICK k : Moves(c, k)
      BY <2>3, ServeMoves, DisturbMoves
    <3>2. CASE d = c
      BY <2>3, <3>2, ServeSound, DisturbSound
    <3>3. CASE d # c
      <4>1. conn'[d] = conn[d]
        BY <3>1, <3>3 DEF Moves, TypeOK
      <4>2. QED
        BY <4>1 DEF LookupInv, Sound, Known
    <3>4. QED
      BY <3>2, <3>3
  <2>4. CASE Tick \/ UNCHANGED vars
    <3>1. conn' = conn
      BY <2>4 DEF Tick, vars
    <3>2. QED
      BY <3>1 DEF LookupInv, Sound, Known
  <2>5. QED
    BY <2>3, <2>4 DEF Next
<1>3. QED
  BY <1>1, <1>2, TypeCorrect, PTL DEF Spec

(* Every calculation rests on evidence this process registered in the      *)
(* caller's own tenant, case and trace (_artifact_boundary_issues).        *)
THEOREM NoForeignEvidence == Spec => []CalculatedFromRegistered
<1>1. LookupInv /\ RegisteredWhole => CalculatedFromRegistered
  <2> SUFFICES ASSUME LookupInv, RegisteredWhole,
                      NEW c \in Threads, conn[c].code = "CALCULATED",
                      NEW object \in conn[c].req.uses
               PROVE  /\ object.scope = conn[c].req.scope
                      /\ \E batch \in ingested : object \in batch
    BY DEF CalculatedFromRegistered
  <2>1. c \in Clients /\ conn[c] # Away
    BY DEF Threads, Away
  <2>2. object.scope = conn[c].req.scope /\ object \in records
    BY <2>1 DEF LookupInv, Sound, Known
  <2>3. QED
    BY <2>2 DEF RegisteredWhole
<1>2. QED
  BY <1>1, LookupInvariant, WholeBatches, PTL
=============================================================================
